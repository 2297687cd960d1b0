# A TLA+ specification of rust-dcp

rust-dcp is an asynchronous consumer of the Couchbase Database Change Protocol (DCP).
It promises delivery that is ordered within each vBucket and at least once, a
`processed` position that only moves over acknowledged events without gaps, and a
checkpoint store from which the next start can resume. This directory holds TLA+ modules
of the parts that keep these promises, the TLC configurations that check them on small
instances, and proofs, checked by TLAPS, that hold for every value of the constants.

Paths below are relative to `src/crates/`; `core` is `rust-dcp-core/src`.

## The system

```
 KV node --- frames ---> stream worker --- bounded queue ---> subscription driver
    ^                    (one per node)                        |  mitigation, listener cutoff,
    |  credit, requests       |                                |  collection names
    +-------------------------+                                v
                                                 checkpoint coordinator ---> application
 topology, membership  ---> which vBuckets,             |   ^                    |
                            which node                  |   +-- acknowledge -----+
                                                        v
                                                 checkpoint store
```

| Part | Source | Module | What makes it hard |
| --- | --- | --- | --- |
| Checkpoint coordinator | `core/checkpoint_runtime.rs`, `core/checkpoint.rs` | `CheckpointCoordinator`, `DurableLog` | flushes have deadlines, saves outlive them; acknowledgements and reopens go on during a save; tokens survive reopens |
| Checkpoint stores | `core/checkpoint_store.rs`, `core/checkpoint_couchbase.rs` | `FileCheckpointStore`, `CouchbaseCheckpointStore` | crashes between write, rename and sync; callers that give up; requests that arrive late at a former owner |
| Stream worker | `core/stream.rs` | `StreamWorker`, `KeepAlive` | back-pressure against commands; frames set aside during a request; late responses; a timeout against NOOPs |
| Stream opening | `core/stream.rs`, `core/client.rs` | `StreamOpen` | rollbacks, failover logs and moves between any two requests |
| KV connection | `core/transport.rs` | `KvConnection` | responses out of order, timeouts, opaque reuse |
| Running subscription | `core/client.rs` | `Subscription` | reopening while the application acknowledges; crashes; cancellation at every await |
| Client | `core/client.rs` | `ClientLifecycle` | reservation, dropped futures, several callers of close |
| Topology | `core/topology.rs`, `core/client.rs` | `TopologyState`, `TopologyConfig` | revisions applied and published by several tasks |
| Rollback mitigation | `core/rollback_mitigation.rs` | `RollbackMitigation` | stale observations of copies that fail over meanwhile |
| Collection names | `core/collections.rs` | `CollectionRegistry` | one registry for vBuckets that run at different speeds |
| Assignment | `core/assignment.rs`, `rust-dcp-membership-kubernetes/src/stateful.rs` | `Assignment`, `AssignmentGroup`, `StatefulSet` | every member computes its part on its own |
| Couchbase membership | `rust-dcp-membership-couchbase/src` | `CouchbaseMembership` | CAS conflicts, lost answers, stale members |
| Kubernetes membership | `rust-dcp-membership-kubernetes/src` | `KubernetesMembership` | relists, replaced pods, fencing |
| Bootstrap | `core/bootstrap.rs`, `core/auth.rs` | `Bootstrap` | every request may be refused or lost, on any seed |
| Frames and messages | `rust-dcp-protocol/src`, `core/event.rs` | `FrameCodec`, `DcpMessages` | partial reads, lengths that spill over, fields read without a check |

`PROJECT.json` maps every definition to the lines it models and lists the hazards with
the lines where they bite.

## Modules

Conventions. Variables and operators written `like_this` are fields and functions of the
Rust code. An action is what happens between two awaits, or under one lock. A call that
is rejected without a change is a guard. Bounds are constants named `Max...`; their guards
end behaviours, never widen them. An operator `<definition>_<change>` is the definition
with a plausible mistake; TLC finds a property violated under each of them. Sentinels such
as `None` are model values.

**CheckpointCoordinator** is the coordinator with its store. `tokens` are the `EventAck`s
the application holds; `pc`, `batch`, `todo` and `running` are the local state of flushes
and of the saves they spawn. `TrackMarker`, `TrackEvent`, `Acknowledge`, `mark_dirty` and
`rebase_partitions` are one step each, under the state mutex. A flush has one step per
await: `flush` (the first look), `FlushGate` (the gate and the batch), `FlushTimeout`,
`FlushApply`. `SaveWrite` writes one vBucket of a batch, in any order, and `SaveOk` or
`SaveFails` ends the save. What a failed save had not confirmed is `abandoned`: the store may
still apply it at any later time (`LateWrite`), as a request of the KV adapter that timed out
does. `SchedulerTick`, `SchedulerExit`, `shutdown` and `ShutdownJoin`
are the tasks around it. A caller that drops the future of a flush looks like one whose
deadline passed. `Init` covers `load_checkpoints`, the positions the streams were opened at,
and `mark_changed_initial_positions`. Ghosts that no action reads: `log`, the positions
`processed` has had; `stored_generation` of the stored position and `written`, the newest that
a save has written; `epoch`, which counts reopens; `need`, the
generations when a flush began. The store is one that keeps what it accepts; the no-op and
read-only stores drop writes by design. **DurableLog** is what the coordinator promises the
next start: a log of positions per vBucket and a store that holds one of them; it moves
forward, or back to a position whose write was given up on (`lost`). `ImplementsDurableLog` is
the refinement, with `saved <- stored_generation` and `lost` the generations of `abandoned`.

**FileCheckpointStore** has one step per system call that matters after a crash: the
temporary file, the rename, the sync of the directory. The gate belongs to the blocking
task, not to the caller. **CouchbaseCheckpointStore** has one request per attempt, which
travels and may be applied after its sender gave up; `SavedSurvives` is checked without
overlapping calls, because the store compares and writes without a CAS.

**StreamWorker** is the task that owns the connection of one `DcpStream`, between a producer
(external) and the owner of the stream. `pc` says where the worker waits: `select` (the loop
of `run_worker`), `queue` and `closed` (`output.send().await`), `request` (the close
request), `error` (the last send). One `HandleFrame` is `handle_frame` up to its send,
`QueueFrame` the rest. The size of a frame is 1, or 2 for an event. Up to
`MaxFaults` frames are ones the protocol forbids (`FaultyFrames`), and the connection may
break and requests time out up to `MaxFailures` times. `stream_end_on_close` is what was
negotiated when the connection was opened. Ghosts that no action reads: `sent` and
`delivered`. **KeepAlive** adds time, in ticks finer than a second.

**StreamOpen** opens the streams of one connection generation: node after node, and on each
node the high sequence numbers, the failover logs, and the stream requests with the
rollbacks the server asks for. The server writes, fails over and moves vBuckets between any
two answers. **Subscription** reduces opening to its outcome and the coordinator to what
`CheckpointCoordinator` shows of it, and composes them with the driver, the queue, the
application, the server's history and crashes of the process. A stream that the server ends
early is `cut`. A generation whose streams hold more frames than their queue does not always
shut down (`ShutdownHangs`, `AttemptHangs`): this is the behaviour of `StreamWorker` that the
run `worker_shutdown` finds, and `ClientLifecycle` has it as `TaskHangs` and `DiscardHangs`.
**ClientLifecycle** is the life
around it: `subscribe` with its reservation, completion, `close` by several callers, dropped
futures, the health task.

**KvConnection**, **Bootstrap**, **FrameCodec** and **DcpMessages** model one connection from
the first dial to the fields of a message. KvConnection has batches whose opaques the caller
has set and requests that time out, but not both in one behaviour: outside its tests no caller
sets an opaque. Its counter does not wrap. Bootstrap leaves out the override `tls.server_name`, which replaces
the name that is verified. Bytes of FrameCodec are
scaled down: one byte holds `0..ByteMax`, and every limit of the code is the same expression
of it. DcpMessages keeps of a field only its name and its span.

**TopologyState** is the acceptance and publication of configurations by two tasks,
**TopologyConfig** the construction of one from its raw form. **RollbackMitigation** is the
observer, its snapshot and `wait_until_safe` for one vBucket, against a cluster that writes,
replicates, persists, restarts and fails over; the set of copies is fixed, as it is in the
code for one generation. **CollectionRegistry** is fed by the system
events of several vBuckets; with `Skew` the node that is asked for the manifest may be
behind the others, a case that is not checked here.

**CouchbaseMembership** keeps timestamps as ages, so that clocks agree.
**KubernetesMembership** has the API server's history of pods, a watcher per process, lists
and relists.

The modules `MC...` instantiate these for TLC. `MCConnection` extends `MCOpening` and `MCClient`
extends `MCGroup`, so that one run has the scenarios of both. A behaviour belongs to one `scenario`; the
variables of the other components rest. The header of each lists its scenarios.

## Runs

All runs switch off TLC's deadlock check: their bounds end every behaviour, and a finished
stream, call or subscription really stops.

| Run | Scenarios | Shows |
| --- | --- | --- |
| `coordinator` | one vBucket with the scheduler, a caller and a reopen; writes that arrive after their save; two vBuckets in partial batches; more windows and reopens without flushes | `ProcessedIsContiguous`, `CleanMeansStored`, `StoredCheckpointsLoad`, `FlushOkIsDurable`, `OnlyRebaseRewinds`, and the refinement `ImplementsDurableLog` |
| `worker` | two streams on a failing connection; closes with stream ends; a faulty producer | `NothingLostOrReordered`, `DeliveredIsPrefix`, `CreditConserved`, `ProducerHasRoom`, `CloseLeavesOtherStreams`, `DeliveredInSnapshots` |
| `subscription` | crash and failover; topology changes and mitigation; a finite subscription | `AtLeastOnceByServer`, `NoGaps`, `HandedOutIsPending`, `TerminalErrorReported`, `CapturedIsComplete` |
| `connection` | mitigation over two copies; openings of one moving vBucket, of explicit collections, of two nodes; the registry for a scope and for one collection; requests and batches; two bootstraps; frames alone and cut into reads; messages; configurations | `DeliveredSurvives`; `RewindLosesNothing` and the reported rollbacks; `AllOrNothing` and the opened streams; `RegistryIsManifest`, the accepted system events and the refused documents; `AnswersMatch`, `ConnectionIsReady`, `FramesSurvive`, `MessagesAreRead`, `ConfigIsFollowed` |
| `client` | two callers of subscribe and close; topology in two tasks; saves and clears of both stores; a static group, ordinals, a shared registry, a restart, a lease, pod views and closes | `OneActiveSubscription` and its reservation; `CloseLeavesNothingRunning`; `GenerationsFollowRevisions` and the impact of a change; `SavedSurvives` for both stores; `Partitioned` for a static group; `AgreedIsDisjoint` for ordinals, the registry and the pod watch; `LeaversAreGone` for closes and leases |
| `progress` | a worker, a silent server, the checkpoints with a store that answers and with one that may hang, all fair | `EverythingDelivered`, `SilenceIsReported`, `ProgressIsPersisted`, `ShutdownReturns` |
| `subscription_progress` | a driver with and without a reader, fair | `ReaderIsServed`, `CancelEnds` |
| `calls` | callers behind locks, gates and permits, fair | `CallsReturn` of clients, memberships and both stores |

A property of a run is the conjunction, over its scenarios, of what the components promise;
the comments at its definition list the parts. Every property of a passing run has a mutant
in `PROJECT.json`.

Why the bounds are enough. The flush protocol is a race for one gate: two flushers are a
late save and its successor, and a third adds no new pair. Generations only matter by
their order, and two above the loaded one give a batch that is older, equal or newer than
another's; without flushes there are four. Two
vBuckets are needed where a batch can be saved in part; elsewhere vBuckets only share the
gate. Three deliveries allow an acknowledgement before, between and after others. A queue of
one makes the worker wait at every frame; a buffer of three is less than two streams send, so
that flow control stops the producer, and with the ratio 1, the largest the configuration
allows, the threshold is the whole buffer. Two branches make a failover, and a third one returns to
a history the client has left. Three moves of a vBucket let it leave a node, change its branch and
come back between two requests. Two callers make every race for a lock, two members every
race for a CAS, and two copies an observation that is older than the other. One late request
and one successor suffice for the stores, because a document is written by one call at a time.

Where two sources of steps are independent of each other, an MC module conjoins to the
component's `Next` that they do not both happen in one behaviour: members of the registry
either close or meet failures, a vBucket's copies either fail to answer or restart, the
failures of a recovering subscription happen in its first connection, a caller of close gives up
or the health task probes, loads run only where
calls do not overlap. The conjunct and its reason stand at the scenario. The theorems below
are about the components without any of these.

### Where code and documentation differ

Four runs check a statement of the documentation and find a behaviour of the code that
contradicts it.

* `worker_shutdown`. A worker waiting for room in the queue does not see the shutdown
  command, and `shutdown` owns the stream, so nobody empties the queue.
* `subscription_preflight`. A checkpoint past the high sequence number of the server is
  rewound to that number before the server is asked, also when the new branch had left the
  checkpoint's history earlier. `AtLeastOnceByServer` is the same property for rollbacks that
  the server has asked for; it holds.
* `finite_early`. A finite subscription completes when all its streams have ended, and does
  not look at why: one that the server ended early leaves events before the captured end
  undelivered. `CapturedIsComplete` holds of the vBuckets whose streams were not ended early.
* `rollback_reported`. With explicit collections a checkpoint is compared with the high
  sequence number of the collections, and may rightly be past it: it is then reported as
  rolled back although the server has not asked for it. With whole histories every reported
  rollback is one the server would ask for (part of `RewindLosesNothing`).

Some properties of the passing runs except a case in which the code does not do what one
might expect. The exception is part of the property, and no wider than the case:

* `CleanMeansStored`, `FlushOkIsDurable`, `ImplementsDurableLog`: a write that a failed save
  gave up on may arrive after a newer one, which nothing in the store prevents. The position
  is an older one of the log: a restart delivers again, and skips nothing.
* `ReaderIsServed`: a stream that ends alone is not reopened while others of its generation
  go on (`EndedAlone`).
* `CancelEnds`, `ReaderIsServed`, `CallsReturn`: streams that do not shut down.
* `RewindLosesNothing`: rewinds of the preflight, and one for which the vBucket left the node
  and came back with another branch between the rollback answer and the failover log.
* `RegistryIsManifest`: a document that arrives after another vBucket has reported its
  collection dropped ends the subscription; no other document does.
* `LeaversAreGone`: when a caller of the Kubernetes `close` is dropped after it took the
  handle of the task, later calls return Ok although the task may have failed, against "A
  prior terminal failure is returned again as a task error" (`runtime.rs:212`).

Other differences, met while modelling, are left to this list. The status shows as
`durable` a position that an older flush may have put back after a newer one was confirmed
(`CheckpointInner::flush` applies its result after the gate is free); the store keeps the
newer one. With a producer that sends no stream end on close, an event between the close
request and its answer ends the worker with all its streams. The initial position of a
vBucket started at Latest is durable only after the first flush.

## Fairness

`CheckpointCoordinator!TaskFairness`: Tokio runs every task that can run. The gate is a Tokio
mutex, which serves its waiters in order (strong fairness of `FlushGate`). Every flush has
a deadline (weak fairness of `FlushTimeout`). The scheduler's `select!` picks among ready
branches at random, so the cancellation is seen (strong fairness of `SchedulerExit`).
`StoreFairness` is what `ProgressIsPersisted` needs of the store besides: a save ends, although
the spawned task has no limit of its own, and the write of a vBucket is not among those that
fail every single time. `ShutdownReturns` is also checked without it, in the scenario
"hanging" of `MCProgress`, where a save may never end. Nothing is assumed of the application.

`StreamWorker!RuntimeFairness`: the worker takes every step it can; `select!` takes a
waiting command eventually (strong fairness); the producer answers requests. `FairSpec`
adds an owner that keeps reading. Sending frames is never assumed. `KeepAlive` adds that time
passes.

`MCSubscriptionProgress` assumes the steps of the driver and of the runtime, and, in the
behaviours with `reads`, an application that goes on reading. Failures and topology changes
are never assumed and are bounded. Streams that can hang may do so instead of shutting down:
the properties name these ends. `MCCalls` assumes that tasks run, that Tokio's mutexes and
semaphores serve their waiters in order, and that blocking file operations end. A run states
fairness of several components as one conjunct each per scenario, because a behaviour belongs
to one scenario.

## Proofs

Assumptions: the named `ASSUME`s of `CheckpointCoordinator`: the scheduler is not a caller
and `Free` no flusher, start positions are valid checkpoints, markers are pairs of
naturals, `NoCheckpoint` is no checkpoint, bounds are naturals; of `StreamWorker`: `None` is
no vBucket and no progress of a stream, the capacity and the end of the streams are naturals; of `RollbackMitigation`: a
vBucket has a copy, bounds are naturals. The sets of vBuckets, callers and copies are
arbitrary, and so are the bounds on faults, failures, closes and restarts.

| Theorem | Statement |
| --- | --- |
| `TypeCorrect` | `Spec => []TypeOK` |
| `CleanStored` | `Spec => []CleanMeansStored` |
| `FlushOk` | `Spec => []FlushOkIsDurable` |
| `NoRegression` | `Spec => StoreNeverRegresses` |
| `Refinement` | `Spec => ImplementsDurableLog` |
| `Contiguity` | `Spec => []ProcessedIsContiguous` |
| `OnlyReopensRewind` | `Spec => OnlyRebaseRewinds` |
| `StoreLoads` | `Spec => []StoredCheckpointsLoad` |
| `OrderTheorem` | `Spec => []NothingLostOrReordered` |
| `PrefixTheorem` | `Spec => []DeliveredIsPrefix` |
| `CreditTheorem` | `Spec => []CreditConserved` |
| `WorkerTypes` | `Spec => []TypeOK`, of the stream worker |
| `SnapshotTheorem` | `Spec => []DeliveredInSnapshots` |
| `CloseTheorem` | `Spec => []CloseLeavesOtherStreams` |
| `MitigationTheorem` | `Spec => []DeliveredSurvives` |
| `PartitionTheorem` | `Spec => []Partitioned`, that is `OneOwner` and `AllOwned` |

`CheckpointCoordinatorProofs` proves `TypeCorrect` together with `SaveInv`;
`CheckpointDurabilityProofs` adds three conjuncts to these two and proves the next four from
the inductive invariant `IInv` they form:

* `SaveInv`: a running save holds the gate, and what it has left to write is in its batch.
  Hence there is one save at a time. This is where the gate must be held by the save and not
  by the flush that may give up.
* `LogInv`: the log has one entry per generation, `processed` is its last, and confirmed
  generations are at most `written`, the newest one a save has written.
* `BatchInv`: an entry of a batch is the log's entry of its generation; while its save
  runs, no save has written anything newer; what it has written is at most `written`.
* `NeedInv`: a flush that has returned Ok, or has passed the gate, covers what it needs.

None of these speaks of the store, which late writes may change at any time. `StoreInv`, a
second invariant on top of `IInv`, does: what the store holds, and every abandoned write, is
the log's entry of its generation, and no running save has an older one in its batch.

`CleanMeansStored` alone is not inductive: it says nothing of a batch on its way, and
applying one is what makes a vBucket clean. With `IInv`, a clean vBucket has the same
generation in the log, in `durable_generation` and in `written`; with `StoreInv` the store
holds it or has been overtaken. `NoRegression` and `Refinement` follow because only
`SaveWrite` and `LateWrite` change the store: the one writes an entry of the log that is not
older than the stored one, the other an entry that was given up on.

`CheckpointCoordinatorProofs` also has `QueueInv`, which it adds to the types: the sequence numbers of the
pending queue increase, all above `processed` and at most the last registered one; the
delivery IDs of unused tokens are distinct and below the next ID, since IDs go on across
reopens; and every unused token of the current epoch has its entry in the queue, not
acknowledged.

The same module proves `StoreLoads`. Nothing validates a position on its way into the store;
`PositionsValid` follows it: the checkpoints of the queue are valid because `track_event`
validates them, `processed` because it comes from the queue or from an opened stream, a batch
because it was taken from `processed`, and stays so when `processed` moves on.

`FrameProofs` has the facts about `Of` (the frames of one stream) and `Bytes` (their size)
that the worker's proofs need: what they make of an appended, a first, and two concatenated
parts. Both are recursive functions. The facts rest on `SetInduction`, induction over the
natural numbers for a set instead of a formula, which follows from the well-foundedness of
`<`, and on `StepsExist`, which shows that such a function exists.

`StreamWorkerProofs` proves four theorems from `WorkerInv`:

* the types, with what `pc` says of the held frame and of the command: a worker that waits
  for an answer has the close command of its owner, and the owner waits for the reply;
* `Ordered`: what was sent of a stream is what was delivered, what is queued, and a rest;
  while the worker works, the rest is what is held, set aside and on the wire.
  `NothingLostOrReordered` alone is not inductive, because it says nothing of a worker that
  has failed, and its owner goes on reading; nor does `DeliveredIsPrefix` follow without
  the frames between;
* `CreditConserved`.

There is a lemma per step of the producer, the worker and the owner. The one step that
moves frames between two places without looking at them is the close request, which sets
them aside: it keeps the order because the worker takes the frames set aside first.

`StreamSnapshotProofs` adds one conjunct to `WorkerInv`:

* `Accepting`: what the worker has accepted of a stream (delivered, queued or held) has
  increasing events in their snapshots, and while it works its progress is the last event and
  the last marker among these. That is why checking a frame against the progress alone is
  enough, and `DeliveredInSnapshots` follows, whatever the producer sends.

`StreamProtocolProofs` adds `ProtocolInv`, which relates three records of a stream: what the
producer remembers of what it sent, the progress the worker keeps, and the frames between.

* `ByProtocol`: without faults, what is sent of a stream is increasing, in its snapshots and
  within the range, an end is the last frame, and the producer remembers its last event and
  marker. Together with `Accepting`, the next frame passes the checks of `observe`.
* `Answers`: on a connection that works, nothing set aside is a response, and at most one
  response is on its way, while the worker waits for exactly that one. A stray one would be
  an unexpected frame to `handle_frame`.
* `Ends`: a stream that the worker has dropped has ended, and nothing of it is on its way.
  This is the conjunct that needs the producer to end the streams that are closed: otherwise
  a frame sent before the close still arrives after the stream was dropped.

`CloseLeavesOtherStreams` says only that the worker has not failed; each way to fail is
excluded by one of these four.

`MitigationProofs` proves `DeliveredSurvives` from `MitigationInv`. The observer asks the
copies one after the other, so the minimum it publishes mixes answers of different times.
`AnswersHold`: a copy still has what it answered, unless it rolled back to a fork of the
history. `NoForkMissed`: for every fork some copy is on another branch than the expected
one, and if it answered before that, it answered no more than what precedes the fork. So the
minimum of a cycle in which all copies answered from the expected branch is at most every
fork and on every disk.

`AssignmentProofs` shows that the chunk of a member ends where the next one's starts, for
every number of vBuckets and members, so that the chunks of a group partition the vBuckets.

Left to TLC: liveness (fairness is out of the prover's reach); `ProducerHasRoom`, since what the
recursive `Threshold` computes needs an induction over the buffer size; and all properties of
the other modules.

## Not modelled

The builders of requests fill fixed layouts. SCRAM proofs are cryptography; Bootstrap has the
messages. Validation of the configuration compares single values with limits, which are the
`ASSUME`s of the modules. JSON in both directions, the text of the exporter, label selectors,
and the re-exports of the facade hold no state that changes. The SDK adapters forward each
operation to the official SDK. Operating-system clocks, sockets, TLS and the Kubernetes
watcher are external and taken as the code in `src/` uses them.

Eventual convergence of the two memberships, of the topology that the streams follow, and of
events held back by mitigation is not checked: it depends on the cluster more than on this
code. A checkpoint file opened by two processes and members whose clocks disagree are outside
what the code is written for.

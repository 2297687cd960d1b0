---------------------------- MODULE Subscription ----------------------------
(***************************************************************************)
(* A running subscription (client.rs): the driver task that reads the node *)
(* streams of one connection generation after the other, the queue to the  *)
(* application, the checkpoint coordinator and its store, the server with  *)
(* its failovers, and crashes of the whole process between any two steps.  *)
(*                                                                         *)
(* The coordinator is reduced to what CheckpointCoordinator shows of it:   *)
(* `processed' moves over acknowledged prefixes of `pending', and the      *)
(* store follows it, late or in part.  Opening a stream is reduced to its  *)
(* outcome (see StreamOpen).  `covered', `delivered' and `preflight' are   *)
(* ghosts.                                                                 *)
(***************************************************************************)
EXTENDS Integers, Sequences, FiniteSetsExt

CONSTANTS
  VBuckets,
  None,             \* no checkpoint, no item
  QueueCapacity,    \* flow_control.event_queue_capacity
  Finite,           \* DcpMode
  StartFrom,        \* fallback StartPosition: "Earliest" or "Latest"
  Policies,         \* decisions the rollback policy or its handler may take
  Mitigation,       \* rollback mitigation is enabled
  Skipped,          \* sequence numbers before the listener cutoff
  EarlyEnds,        \* the server may end a stream for another reason than Ok
  MaxSeqno,         \* bound on a vBucket's history
  MaxBranches,      \* bound on failover branches
  MaxTopology,      \* bound on topology generations
  MaxFailures,      \* bound on stream errors and failed opens
  MaxStarts         \* bound on subscriptions, the first one included

ASSUME BoundsAssumption == MaxBranches \in Nat \ {0} /\ MaxSeqno \in Nat

\* The end of an infinite stream, u64::MAX.
Unbounded == MaxSeqno + 1

VARIABLES
  \* the server: its branches and where each left the one before
  branch, fork, high,
  \* the checkpoint store, the batch of the running save, and writes that nobody waits for
  store, batch, late,
  \* the coordinator
  processed, pending,
  \* the streams of the current generation
  stream,
  \* the driver
  pc, item, action, terminal, target, snapshot_generation,
  current_generation, frozen_end_seqnos,
  \* the topology watch, and whether the driver's receiver has seen its value
  topology, seen,
  \* the subscription's queue, and what the application holds
  queue, held, cancel, error_seen,
  \* ghosts and bounds
  covered, delivered, preflight, failures, starts

server == <<branch, fork, high>>
coordinator == <<processed, pending>>
storage == <<store, batch, late>>
watch == <<topology, seen>>
application == <<queue, held, error_seen>>
ghosts == <<covered, delivered, preflight>>
bounds == <<failures, starts>>
driver == <<pc, item, action, terminal, target, snapshot_generation,
            current_generation, frozen_end_seqnos>>
vars == <<server, storage, coordinator, stream, driver, watch, application,
          cancel, ghosts, bounds>>

----------------------------------------------------------------------------
(* The server.                                                             *)

\* The branch on which a history of branch b got its event k: the newest branch
\* up to b that no failover up to b has cut below k.
Writer(vb, b, k) ==
  Max({1} \cup {w \in 2..b : fork[vb][w] < k /\ \A x \in (w + 1)..b : fork[vb][x] >= k})

\* The part of branch b's history that the current branch still has.
CommonSeqno(vb, b) ==
  Min({high[vb]} \cup {fork[vb][x] : x \in (b + 1)..branch[vb]})

Events(vb, p) == {<<Writer(vb, p.uuid, k), k>> : k \in 1..p.seqno}

ServerWrite(vb) ==
  /\ high[vb] < MaxSeqno
  /\ high' = [high EXCEPT ![vb] = @ + 1]
  /\ UNCHANGED <<branch, fork, storage, coordinator, stream, driver, watch,
                 application, cancel, ghosts, bounds>>

\* A failover promotes a replica that has only a prefix of the history.  Streams
\* of the old branch go on until they break.
ServerFailover(vb) ==
  /\ branch[vb] < MaxBranches
  /\ \E n \in 0..high[vb] :
       /\ branch' = [branch EXCEPT ![vb] = @ + 1]
       /\ fork' = [fork EXCEPT ![vb][branch[vb] + 1] = n]
       /\ high' = [high EXCEPT ![vb] = n]
  /\ UNCHANGED <<storage, coordinator, stream, driver, watch, application,
                 cancel, ghosts, bounds>>

\* A newer cluster map is published, by the health check.
PublishTopology ==
  /\ topology < MaxTopology
  /\ topology' = topology + 1
  /\ seen' = FALSE
  /\ UNCHANGED <<server, storage, coordinator, stream, driver, application,
                 cancel, ghosts, bounds>>

----------------------------------------------------------------------------
(* Opening the streams of a generation, all of them or none.               *)

\* The position a stream is opened at for a requested one.  The server goes back to the
\* history it shares with the requested branch; but a position past the high seqno
\* never reaches the server, and is rewound to that seqno of the current branch.
Effective(vb, p) ==
  [uuid |-> branch[vb],
   seqno |-> IF p.seqno > high[vb] THEN high[vb] ELSE Min({p.seqno, CommonSeqno(vb, p.uuid)})]

\* The rewind leaves out changes the current branch has and the requested one had not.
RewoundTooLittle(vb, p) == p.seqno > high[vb] /\ CommonSeqno(vb, p.uuid) < high[vb]

RollbackNeeded(requested) ==
  \E vb \in VBuckets : requested[vb].seqno > CommonSeqno(vb, requested[vb].uuid)

\* The application, or the policy, may accept the replay.
RollbackAllowed(requested) ==
  RollbackNeeded(requested) => "RewindAndReplay" \in Policies

\* Mutant of OpenStreams: the start is taken as the first event still to come.
OpenStreams_inclusive(effective, ends) ==
  stream' = [vb \in VBuckets |-> [open |-> TRUE, cut |-> FALSE, uuid |-> effective[vb].uuid,
                                  last |-> effective[vb].seqno + 1, end |-> ends[vb]]]

\* A stream that is `cut' was ended by the server before its end.
OpenStreams(effective, ends) ==
  stream' = [vb \in VBuckets |-> [open |-> TRUE, cut |-> FALSE, uuid |-> effective[vb].uuid,
                                  last |-> effective[vb].seqno, end |-> ends[vb]]]

NoBatch == [vb \in VBuckets |-> None]
NoStream == [vb \in VBuckets |->
               [open |-> FALSE, cut |-> FALSE, uuid |-> 1, last |-> 0, end |-> 0]]

\* Whoever waited for the save is gone, or has given up: what it has not confirmed may
\* still arrive, in this run of the program or in a later one.
Abandon ==
  /\ batch' = NoBatch
  /\ late' = [vb \in VBuckets |-> late[vb] \cup ({batch[vb]} \ {None})]

\* resolve_initial_starts.
InitialStart(vb) ==
  IF store[vb] # None THEN store[vb]
  ELSE [uuid |-> branch[vb], seqno |-> IF StartFrom = "Earliest" THEN 0 ELSE high[vb]]

\* subscribe: load, open, and a new coordinator at the opened positions.  What the
\* fallback leaves out counts as covered.  A save of the last subscription may still be
\* on its way.
Subscribe ==
  LET requested == [vb \in VBuckets |-> InitialStart(vb)]
      effective == [vb \in VBuckets |-> Effective(vb, requested[vb])]
      ends == [vb \in VBuckets |-> IF Finite THEN high[vb] ELSE Unbounded]
      skipped(vb) == IF store[vb] = None THEN Events(vb, effective[vb]) ELSE {}
  IN
  /\ pc \in {"off", "done"}
  /\ starts < MaxStarts
  /\ RollbackAllowed(requested)
  /\ starts' = starts + 1
  /\ processed' = effective
  /\ pending' = [vb \in VBuckets |-> <<>>]
  /\ Abandon
  /\ OpenStreams(effective, ends)
  /\ frozen_end_seqnos' = ends
  /\ current_generation' = 1
  /\ snapshot_generation' = topology
  /\ seen' = TRUE
  /\ pc' = "drive"
  /\ item' = None
  /\ action' = "none"
  /\ terminal' = FALSE
  /\ target' = 0
  /\ queue' = <<>>
  /\ cancel' = FALSE
  /\ error_seen' = FALSE
  /\ covered' = [vb \in VBuckets |-> covered[vb] \cup skipped(vb)]
  /\ delivered' = [vb \in VBuckets |-> delivered[vb] \cup skipped(vb)]
  /\ preflight' = preflight \cup {vb \in VBuckets : RewoundTooLittle(vb, requested[vb])}
  /\ UNCHANGED <<server, store, topology, held, failures>>

\* The process dies: the store, the server and requests on their way are left.
Crash ==
  /\ pc # "off"
  /\ starts < MaxStarts
  /\ pc' = "off"
  /\ Abandon
  /\ stream' = NoStream
  /\ queue' = <<>>
  /\ held' = {}
  /\ item' = None
  /\ processed' = [vb \in VBuckets |-> [uuid |-> 1, seqno |-> 0]]
  /\ pending' = [vb \in VBuckets |-> <<>>]
  /\ action' = "none" /\ terminal' = FALSE /\ target' = 0
  /\ snapshot_generation' = 0 /\ current_generation' = 0
  /\ frozen_end_seqnos' = [vb \in VBuckets |-> 0]
  /\ cancel' = FALSE /\ error_seen' = FALSE
  /\ delivered' = covered
  /\ UNCHANGED <<server, store, watch, covered, preflight, bounds>>

----------------------------------------------------------------------------
(* drive_generation.  Its select! is biased: a cancellation and a newer    *)
(* topology come before the next item.                                     *)

Idle == pc = "drive" /\ ~cancel /\ topology <= snapshot_generation

\* The driver leaves the generation and starts to shut its streams down.
Leave(a) ==
  /\ pc' = "closing"
  /\ action' = a
  /\ item' = None
  /\ terminal' = (a = "Fatal")
  /\ UNCHANGED <<target, snapshot_generation, current_generation, frozen_end_seqnos>>

DriveStops ==
  /\ pc = "drive"
  /\ \/ cancel /\ Leave("Stop")
     \/ ~cancel /\ topology > snapshot_generation /\ Leave("Reopen")
  /\ UNCHANGED <<server, storage, coordinator, stream, watch, application,
                 cancel, ghosts, bounds>>

\* Delivery IDs go on across generations and belong to one coordinator: this pair
\* tells as much about a sequence number.
DeliveryId == <<starts, current_generation>>

Entry(seqno, acknowledged) ==
  [id |-> DeliveryId, seqno |-> seqno, acknowledged |-> acknowledged]

\* Length of the acknowledged prefix of a queue.
Popped(q) ==
  Max({n \in 0..Len(q) : \A i \in 1..n : q[i].acknowledged})

\* The coordinator with vb's queue replaced, its acknowledged prefix popped.
SetQueue(vb, q) ==
  LET n == Popped(q) IN
  /\ pending' = [pending EXCEPT ![vb] = SubSeq(q, n + 1, Len(q))]
  /\ processed' = IF n = 0 THEN processed
                  ELSE [processed EXCEPT ![vb].seqno = q[n].seqno]

\* An event past mitigation.  Before the listener cutoff it is tracked and
\* acknowledged at once; else it is tracked and goes to the queue.
Process(vb, seqno) ==
  LET event == <<Writer(vb, stream[vb].uuid, seqno), seqno>>
      skip == seqno \in Skipped
  IN
  /\ SetQueue(vb, Append(pending[vb], Entry(seqno, skip)))
  /\ IF skip
     THEN /\ pc' = "drive"
          /\ item' = None
          /\ covered' = [covered EXCEPT ![vb] = @ \cup {event}]
          /\ delivered' = [delivered EXCEPT ![vb] = @ \cup {event}]
          /\ UNCHANGED preflight
     ELSE /\ pc' = "send"
          /\ item' = [generation |-> current_generation, kind |-> "event", vb |-> vb,
                      seqno |-> seqno, uuid |-> stream[vb].uuid, id |-> DeliveryId]
          /\ UNCHANGED ghosts

\* The events that vb's stream has not brought to the driver yet.
Undelivered(vb) ==
  LET s == stream[vb]
      limit == IF s.uuid = branch[vb] THEN high[vb] ELSE fork[vb][s.uuid + 1]
  IN (s.last + 1)..Min({limit, s.end})

\* The next event of vb's stream arrives.  With mitigation it waits first.
StreamEvent(vb) ==
  LET s == stream[vb] IN
  /\ Idle
  /\ s.open
  /\ Undelivered(vb) # {}
  /\ stream' = [stream EXCEPT ![vb].last = @ + 1]
  /\ IF Mitigation
     THEN /\ pc' = "mitigate"
          /\ item' = [vb |-> vb, seqno |-> s.last + 1]
          /\ UNCHANGED <<coordinator, ghosts>>
     ELSE Process(vb, s.last + 1)
  /\ UNCHANGED <<server, storage, action, terminal, target, snapshot_generation,
                 current_generation, frozen_end_seqnos, watch, application,
                 cancel, bounds>>

\* wait_for_mitigation ends well: neither branch before it is ready.
MitigationReleases ==
  /\ pc = "mitigate"
  /\ ~cancel /\ seen
  /\ Process(item.vb, item.seqno)
  /\ UNCHANGED <<server, storage, stream, action, terminal, target,
                 snapshot_generation, current_generation, frozen_end_seqnos,
                 watch, application, cancel, bounds>>

\* It is cut short: by a cancellation, by any change of the topology, or by the
\* failure of the observer or the stall limit.
MitigationEnds ==
  /\ pc = "mitigate"
  /\ \/ cancel /\ Leave("Stop") /\ UNCHANGED failures
     \/ /\ ~cancel /\ ~seen
        /\ Leave(IF topology > snapshot_generation THEN "Reopen" ELSE "Reconnect")
        /\ UNCHANGED failures
     \/ /\ ~cancel /\ seen
        /\ failures < MaxFailures
        /\ failures' = failures + 1
        /\ Leave("Fatal")
  /\ UNCHANGED <<server, storage, coordinator, stream, watch, application,
                 cancel, ghosts, starts>>

\* A stream ends.  It is Ok at the requested end; the server may also end it early.  The
\* driver does not tell them apart.
StreamEnds(vb) ==
  /\ Idle
  /\ stream[vb].open
  /\ \/ /\ stream[vb].last = stream[vb].end
        /\ stream' = [stream EXCEPT ![vb].open = FALSE]
        /\ UNCHANGED failures
     \/ /\ EarlyEnds
        /\ failures < MaxFailures
        /\ failures' = failures + 1
        /\ stream' = [stream EXCEPT ![vb].open = FALSE, ![vb].cut = TRUE]
  /\ pc' = "send"
  /\ item' = [generation |-> current_generation, kind |-> "end", vb |-> vb,
              seqno |-> 0, uuid |-> 1, id |-> <<0, 0>>]
  /\ UNCHANGED <<server, storage, coordinator, action, terminal, target,
                 snapshot_generation, current_generation, frozen_end_seqnos,
                 watch, application, cancel, ghosts, starts>>

\* Mutant of StreamsDone: the first stream that ends completes the subscription.
StreamsDone_any == \E vb \in VBuckets : ~stream[vb].open

StreamsDone == \A vb \in VBuckets : ~stream[vb].open

\* Mutant of AllStreamsEnded: an infinite subscription goes on without streams.
AllStreamsEnded_finiteOnly ==
  /\ Idle
  /\ StreamsDone
  /\ Finite
  /\ Leave("Complete")
  /\ UNCHANGED <<server, storage, coordinator, stream, watch, application,
                 cancel, ghosts, bounds>>

\* streams.next() has no more items.
AllStreamsEnded ==
  /\ Idle
  /\ StreamsDone
  /\ Leave(IF Finite THEN "Complete" ELSE "Reconnect")
  /\ UNCHANGED <<server, storage, coordinator, stream, watch, application,
                 cancel, ghosts, bounds>>

\* A stream reports an error, retryable or not, after which it is gone, ...
StreamError ==
  /\ Idle
  /\ \E vb \in VBuckets : stream[vb].open /\ stream' = [stream EXCEPT ![vb].open = FALSE]
  /\ failures < MaxFailures
  /\ failures' = failures + 1
  /\ Leave("Reconnect") \/ Leave("Fatal")
  /\ UNCHANGED <<server, storage, coordinator, watch, application, cancel, ghosts, starts>>

\* ... which is also how a stream of an abandoned branch ends at last, ...
DeadStream ==
  /\ Idle
  /\ \E vb \in VBuckets : /\ stream[vb].open /\ stream[vb].uuid # branch[vb]
                          /\ stream' = [stream EXCEPT ![vb].open = FALSE]
  /\ Leave("Reconnect")
  /\ UNCHANGED <<server, storage, coordinator, watch, application, cancel, ghosts, bounds>>

\* ... or a cluster map that turns out to be newer.
StreamTopology ==
  /\ Idle
  /\ \E vb \in VBuckets : stream[vb].open
  /\ topology < MaxTopology
  /\ topology' = topology + 1
  /\ seen' = FALSE
  /\ Leave("Reopen")
  /\ UNCHANGED <<server, storage, coordinator, stream, application, cancel,
                 ghosts, bounds>>

----------------------------------------------------------------------------
(* send_output.  Its select! is not biased.                                *)

SendOutput ==
  /\ pc = "send"
  /\ Len(queue) < QueueCapacity
  /\ queue' = Append(queue, item)
  /\ pc' = "drive"
  /\ item' = None
  /\ UNCHANGED <<server, storage, coordinator, stream, action, terminal, target,
                 snapshot_generation, current_generation, frozen_end_seqnos,
                 watch, held, cancel, error_seen, ghosts, bounds>>

\* Mutant of SendInterrupted: a full queue is waited for whatever happens.
SendInterrupted_never == FALSE /\ UNCHANGED vars

\* The tracked output is dropped.
SendInterrupted ==
  /\ pc = "send"
  /\ \/ cancel /\ Leave("Stop")
     \/ ~seen /\ topology > snapshot_generation /\ Leave("Reopen")
  /\ UNCHANGED <<server, storage, coordinator, stream, watch, application,
                 cancel, ghosts, bounds>>

----------------------------------------------------------------------------
(* run_subscription between generations, and reopen_generation.            *)

\* A worker that waits for room in its full queue does not hear that it is to shut down,
\* nobody reads the queue any more, and the driver waits for it without a limit.  This can
\* happen when more frames are left than the queue holds: a marker and an event for each
\* change, and an end.
ShutdownHangs ==
  /\ pc = "closing"
  /\ \E vb \in VBuckets : stream[vb].open
  /\ MapThenSumSet(LAMBDA vb : IF stream[vb].open THEN 1 + 2 * Cardinality(Undelivered(vb)) ELSE 0,
                   VBuckets) > QueueCapacity
  /\ pc' = "hung"
  /\ UNCHANGED <<server, storage, coordinator, stream, item, action, terminal, target,
                 snapshot_generation, current_generation, frozen_end_seqnos, watch,
                 application, cancel, ghosts, bounds>>

\* The streams and the mitigation of the old generation are shut down.
CloseGeneration ==
  /\ pc = "closing"
  /\ IF action \in {"Reopen", "Reconnect"}
     THEN /\ stream' = NoStream
          /\ target' = topology
          /\ seen' = TRUE
          /\ current_generation' = current_generation + 1
          /\ pc' = "reopen"
          /\ UNCHANGED terminal
     ELSE /\ pc' = "finish"
          /\ \/ UNCHANGED <<terminal, failures>>
             \/ \* the shutdown itself failed
                failures < MaxFailures /\ terminal' = TRUE
          /\ UNCHANGED <<stream, target, seen, current_generation>>
  /\ UNCHANGED <<server, storage, coordinator, item, action, snapshot_generation,
                 frozen_end_seqnos, topology, application, cancel, ghosts, bounds>>

Finish(failed) ==
  /\ pc' = "finish"
  /\ terminal' = failed

\* Mutant of ReopenStarts: the streams go on after the last registered events.
ReopenStarts_registered ==
  [vb \in VBuckets |->
     IF pending[vb] = <<>> THEN processed[vb]
     ELSE [processed[vb] EXCEPT !.seqno = pending[vb][Len(pending[vb])].seqno]]

\* The starts of an attempt: the processed positions at this moment.
ReopenStarts == processed

\* The head of the loop: the attempt starts.  `item' keeps its start positions.
OpenAttempt ==
  /\ pc = "reopen"
  /\ IF cancel THEN Finish(FALSE) /\ UNCHANGED item
     ELSE /\ pc' = "opening"
          /\ item' = ReopenStarts
          /\ UNCHANGED terminal
  /\ UNCHANGED <<server, storage, coordinator, stream, action, target,
                 snapshot_generation, current_generation, frozen_end_seqnos,
                 watch, application, cancel, ghosts, bounds>>

\* accept_reopened_generation.  Acknowledgements since the attempt started are
\* overwritten: the coordinator is put back to where the streams start.
OpenAccepted ==
  LET effective == [vb \in VBuckets |-> Effective(vb, item[vb])] IN
  /\ pc = "opening"
  /\ RollbackAllowed(item)
  /\ \A vb \in VBuckets : effective[vb].seqno <= frozen_end_seqnos[vb]
  /\ processed' = effective
  /\ pending' = [vb \in VBuckets |-> <<>>]
  /\ OpenStreams(effective, frozen_end_seqnos)
  /\ snapshot_generation' = target
  /\ pc' = "drive"
  /\ item' = None
  /\ action' = "none" /\ target' = 0
  /\ preflight' = preflight \cup {vb \in VBuckets : RewoundTooLittle(vb, item[vb])}
  /\ UNCHANGED <<server, storage, terminal, current_generation, frozen_end_seqnos,
                 watch, application, cancel, covered, delivered, bounds>>

\* The attempt fails: with a retryable error it backs off; a refused rollback and
\* any other error are terminal.
OpenFails ==
  /\ pc = "opening"
  /\ item' = None
  /\ \/ /\ RollbackNeeded(item) /\ "StopAndReport" \in Policies
        /\ Finish(TRUE)
        /\ UNCHANGED failures
     \/ /\ failures < MaxFailures
        /\ failures' = failures + 1
        /\ \/ Finish(TRUE)
           \/ pc' = "backoff" /\ UNCHANGED terminal
  /\ UNCHANGED <<server, storage, coordinator, stream, action, target,
                 snapshot_generation, current_generation, frozen_end_seqnos,
                 watch, application, cancel, ghosts, starts>>

\* The attempt fails on a later node, and a stream of an earlier one, full and not read,
\* does not shut down.
AttemptHangs ==
  /\ pc = "opening"
  /\ failures < MaxFailures
  /\ failures' = failures + 1
  /\ \E vb \in VBuckets :
       /\ VBuckets # {vb}
       /\ 1 + 2 * (high[vb] - Effective(vb, item[vb]).seqno) > QueueCapacity
  /\ pc' = "stalled"
  /\ item' = None
  /\ UNCHANGED <<server, storage, coordinator, stream, action, terminal, target,
                 snapshot_generation, current_generation, frozen_end_seqnos, watch,
                 application, cancel, ghosts, starts>>

\* A cancellation ends the wait for the attempt or for the next one; a change of
\* the topology gives the attempt up and starts over with the newer map; the
\* back-off also ends by itself.
OpenInterrupted ==
  /\ pc \in {"opening", "stalled", "backoff"}
  /\ item' = None
  /\ \/ /\ cancel
        /\ Finish(FALSE)
        /\ UNCHANGED <<target, seen>>
     \/ /\ ~seen
        /\ target' = topology
        /\ seen' = TRUE
        /\ pc' = "reopen"
        /\ UNCHANGED terminal
     \/ /\ pc = "backoff"
        /\ pc' = "reopen"
        /\ UNCHANGED <<target, seen, terminal>>
  /\ UNCHANGED <<server, storage, coordinator, stream, action,
                 snapshot_generation, current_generation, frozen_end_seqnos,
                 topology, application, cancel, ghosts, bounds>>

----------------------------------------------------------------------------
(* finish_subscription.                                                    *)

\* Mutant of ErrorOutput: the generation of the last streams, not the current one.
ErrorOutput_opened ==
  [generation |-> IF action \in {"Reopen", "Reconnect"} THEN current_generation - 1
                  ELSE current_generation,
   kind |-> "error", vb |-> None, seqno |-> 0, uuid |-> 1, id |-> <<0, 0>>]

ErrorOutput ==
  [generation |-> current_generation, kind |-> "error", vb |-> None,
   seqno |-> 0, uuid |-> 1, id |-> <<0, 0>>]

\* A terminal error goes to the queue, unless the subscription is cancelled.
FinishSubscription ==
  /\ pc = "finish"
  /\ pc' = "flush"
  /\ \/ (cancel \/ ~terminal) /\ UNCHANGED queue
     \/ /\ ~cancel /\ terminal
        /\ Len(queue) < QueueCapacity
        /\ queue' = Append(queue, ErrorOutput)
  /\ UNCHANGED <<server, storage, coordinator, stream, item, action, terminal,
                 target, snapshot_generation, current_generation,
                 frozen_end_seqnos, watch, held, cancel, error_seen, ghosts, bounds>>

\* coordinator.shutdown: the final flush gets the gate, ...
FinalFlush ==
  /\ pc = "flush"
  /\ batch = NoBatch
  /\ batch' = processed
  /\ pc' = "flushing"
  /\ UNCHANGED <<server, store, late, coordinator, stream, item, action, terminal,
                 target, snapshot_generation, current_generation,
                 frozen_end_seqnos, watch, application, cancel, ghosts, bounds>>

\* ... and ends: with its save (see SaveFails), or at its deadline, whatever the save does
\* then.
FinalFlushEnds ==
  /\ pc \in {"flush", "flushing"}
  /\ \/ pc = "flushing" /\ batch = NoBatch /\ UNCHANGED terminal
     \/ batch # NoBatch /\ terminal' = TRUE
  /\ pc' = "done"
  /\ UNCHANGED <<server, storage, coordinator, stream, item, action, target,
                 snapshot_generation, current_generation, frozen_end_seqnos,
                 watch, application, cancel, ghosts, bounds>>

----------------------------------------------------------------------------
(* Flushes of the scheduler and the application, and the store.            *)

\* The running coordinator takes its batch.
FlushTake ==
  /\ pc \notin {"off", "done", "flush", "flushing"}
  /\ batch = NoBatch
  /\ processed # store
  /\ batch' = processed
  /\ UNCHANGED <<server, store, late, coordinator, stream, driver, watch,
                 application, cancel, ghosts, bounds>>

\* One position reaches the store, from the running save ...
SaveWrite(vb) ==
  /\ batch[vb] # None
  /\ store' = [store EXCEPT ![vb] = batch[vb]]
  /\ batch' = [batch EXCEPT ![vb] = None]
  /\ UNCHANGED <<server, late, coordinator, stream, driver, watch, application,
                 cancel, ghosts, bounds>>

\* ... or from one that failed, outlived its subscription or was cut off by a crash.
LateWrite(vb) ==
  /\ \E p \in late[vb] : store' = [store EXCEPT ![vb] = p]
  /\ UNCHANGED <<server, batch, late, coordinator, stream, driver, watch, application,
                 cancel, ghosts, bounds>>

\* The save fails with the rest of its batch unconfirmed, which fails a final flush.
SaveFails ==
  /\ batch # NoBatch
  /\ Abandon
  /\ IF pc = "flushing" THEN pc' = "done" /\ terminal' = TRUE ELSE UNCHANGED <<pc, terminal>>
  /\ UNCHANGED <<server, store, coordinator, stream, item, action, target,
                 snapshot_generation, current_generation, frozen_end_seqnos, watch,
                 application, cancel, ghosts, bounds>>

----------------------------------------------------------------------------
(* The application.                                                        *)

\* Mutant of Fenced: outputs of every generation are handed out.
Fenced_never(output) == FALSE

\* An output of a generation that is not the current one is dropped.
Fenced(output) == output.generation # current_generation

\* DcpSubscription::poll_next.
PollNext ==
  LET output == Head(queue)
      event == <<Writer(output.vb, output.uuid, output.seqno), output.seqno>>
  IN
  /\ queue # <<>>
  /\ queue' = Tail(queue)
  /\ error_seen' = (error_seen \/ (~Fenced(output) /\ output.kind = "error"))
  /\ IF ~Fenced(output) /\ output.kind = "event"
     THEN /\ held' = held \cup {output}
          /\ delivered' = [delivered EXCEPT ![output.vb] = @ \cup {event}]
     ELSE UNCHANGED <<held, delivered>>
  /\ UNCHANGED <<server, storage, coordinator, stream, driver, watch, cancel,
                 covered, preflight, bounds>>

\* DcpDelivery::mark_processed, in any order, and also after a reopen.
MarkProcessed(d) ==
  LET q == pending[d.vb]
      acknowledged == [i \in DOMAIN q |-> IF q[i].id = d.id /\ q[i].seqno = d.seqno
                                          THEN [q[i] EXCEPT !.acknowledged = TRUE]
                                          ELSE q[i]]
  IN
  /\ SetQueue(d.vb, acknowledged)
  /\ held' = held \ {d}
  /\ covered' = [covered EXCEPT ![d.vb] =
       @ \cup {<<Writer(d.vb, d.uuid, d.seqno), d.seqno>>}]
  /\ UNCHANGED <<server, storage, stream, driver, watch, queue,
                 error_seen, cancel, delivered, preflight, bounds>>

\* DcpSubscription::close or drop, or DcpClient::close.
Cancel ==
  /\ pc \notin {"off", "done"}
  /\ ~cancel
  /\ cancel' = TRUE
  /\ UNCHANGED <<server, storage, coordinator, stream, driver, watch,
                 application, ghosts, bounds>>

----------------------------------------------------------------------------

Init ==
  /\ branch = [vb \in VBuckets |-> 1]
  /\ fork = [vb \in VBuckets |-> [b \in 1..MaxBranches |-> 0]]
  /\ high \in [VBuckets -> 0..1]
  /\ store = NoBatch /\ batch = NoBatch /\ late = [vb \in VBuckets |-> {}]
  /\ processed = [vb \in VBuckets |-> [uuid |-> 1, seqno |-> 0]]
  /\ pending = [vb \in VBuckets |-> <<>>]
  /\ stream = NoStream
  /\ pc = "off" /\ item = None /\ action = "none" /\ terminal = FALSE
  /\ target = 0 /\ snapshot_generation = 0 /\ current_generation = 0
  /\ frozen_end_seqnos = [vb \in VBuckets |-> 0]
  /\ topology = 1 /\ seen = TRUE
  /\ queue = <<>> /\ held = {} /\ cancel = FALSE /\ error_seen = FALSE
  /\ covered = [vb \in VBuckets |-> {}]
  /\ delivered = [vb \in VBuckets |-> {}]
  /\ preflight = {}
  /\ failures = 0 /\ starts = 0

Driver ==
  \/ DriveStops \/ MitigationReleases \/ MitigationEnds \/ AllStreamsEnded
  \/ StreamError \/ DeadStream \/ StreamTopology \/ SendOutput \/ SendInterrupted
  \/ ShutdownHangs \/ CloseGeneration
  \/ OpenAttempt \/ OpenAccepted \/ OpenFails \/ AttemptHangs \/ OpenInterrupted
  \/ FinishSubscription \/ FinalFlush \/ FinalFlushEnds
  \/ \E vb \in VBuckets : StreamEvent(vb) \/ StreamEnds(vb)

Next ==
  \/ Driver
  \/ Subscribe \/ Crash \/ PublishTopology
  \/ \E vb \in VBuckets : ServerWrite(vb) \/ ServerFailover(vb)
  \/ FlushTake \/ SaveFails
  \/ \E vb \in VBuckets : SaveWrite(vb) \/ LateWrite(vb)
  \/ PollNext
  \/ \E d \in held : MarkProcessed(d)
  \/ Cancel

Spec == Init /\ [][Next]_vars

(* Tokio runs every task that is ready.  A stream of a node that lost its   *)
(* vBucket breaks.  A shutdown of the streams that does not hang ends.      *)
(* Nothing is asked of the store: the final flush has a deadline.           *)
Fairness ==
  /\ WF_vars(DriveStops \/ AllStreamsEnded) /\ WF_vars(DeadStream)
  /\ \A vb \in VBuckets : WF_vars(StreamEvent(vb))
  /\ WF_vars(MitigationReleases) /\ WF_vars(MitigationEnds)
  /\ WF_vars(SendOutput) /\ WF_vars(SendInterrupted)
  /\ WF_vars(CloseGeneration) /\ WF_vars(OpenAttempt)
  /\ WF_vars(OpenAccepted) /\ WF_vars(OpenInterrupted)
  /\ WF_vars(FinishSubscription) /\ WF_vars(FinalFlush) /\ WF_vars(FinalFlushEnds)

FairSpec == Spec /\ Fairness

----------------------------------------------------------------------------
(* Properties.                                                             *)

\* At least once: no position that the coordinator, the store or a save on its way
\* holds is past an event of its history that the application has not acknowledged
\* and the listener cutoff or the start position has not left out.
Covered(vb) ==
  \A p \in ({processed[vb], store[vb], batch[vb]} \ {None}) \cup late[vb] :
    Events(vb, p) \subseteq covered[vb]

\* This holds through crashes, failovers, reopens and late saves, for every vBucket
\* whose rollbacks were the server's.
AtLeastOnceByServer == \A vb \in VBuckets \ preflight : Covered(vb)

\* "Delivery is ordered within each vBucket and at least once", which a rewind that
\* the client decides on before it asks the server breaks.
AtLeastOnce == \A vb \in VBuckets : Covered(vb)

\* Ordered: when an event is handed out, so has been everything before it in its
\* history, in this run of the program or under a checkpoint of an earlier one, for
\* every vBucket whose rollbacks were the server's.
NoGaps ==
  \A d \in held : d.vb \notin preflight =>
    Events(d.vb, [uuid |-> d.uuid, seqno |-> d.seqno]) \subseteq delivered[d.vb]

\* Generation fencing: poll_next hands out no event that a reopen has already
\* discarded, so that acknowledging it at once would count.
HandedOutIsPending ==
  [][\A d \in held' \ held :
       \E i \in DOMAIN pending[d.vb] :
         pending[d.vb][i].id = d.id /\ pending[d.vb][i].seqno = d.seqno]_vars

\* A subscription that fails tells the application, also when it fails between two
\* generations, unless it was cancelled.
TerminalErrorReported ==
  /\ pc \in {"flush", "flushing"}
  /\ terminal /\ ~cancel
  => \/ error_seen
     \/ \E i \in DOMAIN queue : queue[i].kind = "error" /\ ~Fenced(queue[i])

\* What a finite subscription that ended by itself without error has delivered of vb.
Consumed(vb) ==
  Finite /\ pc = "done" /\ ~cancel /\ ~terminal /\ queue = <<>>
  => \A k \in 1..frozen_end_seqnos[vb] : \E e \in delivered[vb] : e[2] = k

\* A finite subscription that ends by itself without error has handed out every event up
\* to the captured ends, reconnects in between included, of every vBucket whose last
\* stream the server did not end early.
FiniteIsComplete == \A vb \in VBuckets : stream[vb].cut \/ Consumed(vb)

\* "Consume through a captured high sequence number and then finish.", whatever reason
\* the server gives for the end of a stream.
ConsumesThroughCaptured == \A vb \in VBuckets : Consumed(vb)

\* vb's stream ended and others of its generation go on: it is not reopened before they
\* end as well.
EndedAlone(vb) == pc = "drive" /\ stream[vb].cut /\ ~StreamsDone

\* What the server has of vb on its current branch reaches the application, unless the
\* subscription ends or streams do not shut down.
Continues(vb) ==
  \A k \in 1..MaxSeqno :
    (high[vb] >= k) ~>
      \/ pc \in {"off", "done", "hung", "stalled"}
      \/ high[vb] < k
      \/ <<Writer(vb, branch[vb], k), k>> \in delivered[vb]

\* This holds of every vBucket whose stream does not stay ended alone.
ContinuesUntilClosed == \A vb \in VBuckets : Continues(vb) \/ <>[]EndedAlone(vb)

\* close() and drop end the driver from wherever it waits, also when the application no
\* longer reads, unless streams with more frames than their queue holds do not shut down.
CancelEnds == cancel ~> pc \in {"off", "done", "hung"}

=============================================================================

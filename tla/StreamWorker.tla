---------------------------- MODULE StreamWorker ----------------------------
(***************************************************************************)
(* The worker task of one DcpStream (stream.rs): it owns the connection to *)
(* one KV node, checks and forwards the frames of all streams opened on it *)
(* through a bounded queue, returns flow-control credit for what the queue *)
(* has accepted, and serves the commands of the stream's owner.            *)
(*                                                                         *)
(* Three parties take steps: the producer (the Couchbase node, external),  *)
(* the worker, and the owner of the DcpStream.  The owner borrows the      *)
(* stream while it waits for a close and consumes it in shutdown, so it    *)
(* does not read the queue during either.                                  *)
(*                                                                         *)
(* Frames towards the producer are not delayed: a late acknowledgement     *)
(* only makes the producer's next frame later, which it may be anyway.     *)
(***************************************************************************)
EXTENDS Integers, Sequences

CONSTANTS
  VBuckets,            \* vBuckets whose streams may be opened on the connection
  None,                \* no stream, no frame, no command
  Capacity,            \* event_queue_capacity
  BufferSize,          \* connection_buffer_size
  RatioNum, RatioDen,  \* ack_ratio
  EndSeqno,            \* end of every stream
  MaxExtra,            \* bound on frames that belong to no stream
  MaxFaults,           \* bound on frames that break the protocol
  MaxFailures,         \* bound on broken connections and time-outs
  MaxCloses            \* bound on calls of close_vbucket

ASSUME BoundsAssumption == Capacity \in Nat /\ EndSeqno \in Nat

StreamKinds == {"marker", "event", "end", "foreign"}
ExtraKinds == {"noop", "config", "unknown"}
ResponseKinds == {"ok", "refused"}

\* `seqno' is the start of a marker, the sequence number of an event and the
\* opaque of a response; `end' is the end of a marker.
Frame == [kind: StreamKinds \cup {"closed"}, vb: VBuckets, seqno: Nat, end: Nat]
         \cup [kind: ExtraKinds \cup ResponseKinds \cup {"error"}, vb: {None}, seqno: Nat,
               end: Nat]

PartitionProgress == [last_seqno: Nat, snapshot: {<<>>} \cup (Nat \X Nat)]

ASSUME NoneAssumption == None \notin VBuckets /\ None \notin PartitionProgress

\* Frame::wire_size of the flow-controlled frames: events are the larger ones.
WireSize(f) == CASE f.kind = "event" -> 2
                 [] f.kind \in {"marker", "end", "foreign", "unknown"} -> 1
                 [] OTHER -> 0

\* FlowCredit::new: binary search for the smallest count of bytes that reaches
\* ack_ratio * connection_buffer_size.
Threshold ==
  LET search[low \in 1..BufferSize, high \in 1..BufferSize] ==
        LET middle == low + (high - low) \div 2 IN
        IF low >= high THEN low
        ELSE IF middle * RatioDen < BufferSize * RatioNum
             THEN search[middle + 1, high]
             ELSE search[low, middle]
  IN  search[1, BufferSize]

\* What the producer has sent of a stream: the last event, and the end of the snapshot.
Feed == [state: {"open", "ending", "ended"}, last: Nat, window: Nat]

VARIABLES
  feed,        \* producer: what it has sent of each stream
  outstanding, \* producer: flow-controlled bytes sent and not acknowledged
  net,         \* frames on their way to the worker
  eof,         \* the connection is broken
  pending,     \* KvConnection.pending: frames set aside during a request
  pc, held,    \* worker: where it is, and the frame it is about to queue
  partitions,  \* worker: progress of the active streams
  credit,      \* worker: FlowCredit.pending
  opaque,      \* worker: opaque of its last request
  requests,    \* close requests <<vb, opaque>> on their way to the producer
  output,      \* the bounded queue
  command, reply, owner,   \* the owner, its command and the reply
  stream_end_on_close,     \* the producer sends an end for a stream that is closed
  extra, faults, failures, \* how many extra and wrong frames were sent, and what failed
  sent, delivered          \* ghosts: frames sent to, items read from each stream

environment == <<feed, eof, stream_end_on_close, extra, faults, sent>>
producerVars == <<environment, outstanding, net>>
workerVars == <<pending, pc, held, partitions, credit, opaque>>
ownerVars == <<command, reply, owner, delivered>>
vars == <<producerVars, workerVars, failures, requests, output, ownerVars>>

\* open_dcp_stream has opened the streams it was asked for.  Frames that came while it
\* opened the last ones are set aside and handled first: they are the first that Send
\* adds.
Init ==
  /\ \E streams \in (SUBSET VBuckets) \ {{}} :
       /\ feed = [vb \in VBuckets |->
                   [state |-> IF vb \in streams THEN "open" ELSE "ended", last |-> 0,
                    window |-> 0]]
       /\ partitions = [vb \in VBuckets |->
                         IF vb \in streams THEN [last_seqno |-> 0, snapshot |-> <<>>]
                         ELSE None]
  /\ stream_end_on_close \in BOOLEAN
  /\ outstanding = 0
  /\ net = <<>>
  /\ eof = FALSE
  /\ pending = <<>>
  /\ pc = "select"
  /\ held = None
  /\ credit = 0
  /\ opaque = 0
  /\ requests = <<>>
  /\ output = <<>>
  /\ command = None
  /\ reply = "none"
  /\ owner = "reading"
  /\ extra = 0 /\ faults = 0 /\ failures = 0
  /\ sent = [vb \in VBuckets |-> <<>>]
  /\ delivered = [vb \in VBuckets |-> <<>>]

----------------------------------------------------------------------------
(* The producer.  External: modelled from what the worker relies on.  It   *)
(* sends flow-controlled frames while less than a full buffer of them is   *)
(* not acknowledged.                                                       *)

Send(f) ==
  /\ ~eof
  /\ pc # "done"
  /\ WireSize(f) > 0 => outstanding < BufferSize
  /\ net' = Append(net, f)
  /\ outstanding' = outstanding + WireSize(f)
  /\ sent' = IF f.vb = None THEN sent
             ELSE [sent EXCEPT ![f.vb] = Append(@, f)]
  /\ UNCHANGED <<eof, stream_end_on_close, failures, workerVars, output, ownerVars>>

SendMarker(vb) ==
  /\ feed[vb].state = "open"
  /\ feed[vb].last = feed[vb].window
  /\ \E end \in (feed[vb].last + 1)..EndSeqno :
       /\ Send([kind |-> "marker", vb |-> vb, seqno |-> feed[vb].last + 1, end |-> end])
       /\ feed' = [feed EXCEPT ![vb].window = end]
  /\ UNCHANGED <<extra, faults, requests>>

SendEvent(vb) ==
  /\ feed[vb].state = "open"
  /\ \E seqno \in (feed[vb].last + 1)..feed[vb].window :
       /\ Send([kind |-> "event", vb |-> vb, seqno |-> seqno, end |-> 0])
       /\ feed' = [feed EXCEPT ![vb].last = seqno]
  /\ UNCHANGED <<extra, faults, requests>>

\* The stream reaches its end, or the node ends it for its own reasons.
SendEnd(vb) ==
  /\ feed[vb].state \in {"open", "ending"}
  /\ Send([kind |-> "end", vb |-> vb, seqno |-> 0, end |-> 0])
  /\ feed' = [feed EXCEPT ![vb].state = "ended"]
  /\ UNCHANGED <<extra, faults, requests>>

\* A repeated or reordered event, a marker out of range, or a frame with the
\* opaque or stream ID of no active stream.
FaultyFrames(vb) ==
  {f \in [kind: {"event", "marker", "foreign"}, vb: {vb}, seqno: 0..EndSeqno,
          end: 0..(EndSeqno + 1)] :
     /\ f.kind # "marker" => f.end = 0
     /\ f.kind = "foreign" => f.seqno = 0}

SendFaulty(vb) ==
  /\ faults < MaxFaults
  /\ \E f \in FaultyFrames(vb) : Send(f)
  /\ faults' = faults + 1
  /\ UNCHANGED <<feed, extra, requests>>

SendExtra(kind) ==
  /\ extra < MaxExtra
  /\ extra' = extra + 1
  /\ Send([kind |-> kind, vb |-> None, seqno |-> 0, end |-> 0])
  /\ UNCHANGED <<feed, faults, requests>>

\* The producer answers a close request: with success, and a stream end to follow
\* if that was agreed, or with an error if the stream has ended.
AnswerClose ==
  /\ requests # <<>>
  /\ LET vb == requests[1][1]
         active == feed[vb].state = "open"
     IN
     /\ Send([kind |-> IF active THEN "ok" ELSE "refused", vb |-> None,
              seqno |-> requests[1][2], end |-> 0])
     /\ feed' = IF active
                THEN [feed EXCEPT ![vb].state =
                        IF stream_end_on_close THEN "ending" ELSE "ended"]
                ELSE feed
  /\ requests' = Tail(requests)
  /\ UNCHANGED <<extra, faults>>

Disconnect ==
  /\ failures < MaxFailures
  /\ ~eof
  /\ eof' = TRUE
  /\ failures' = failures + 1
  /\ UNCHANGED <<feed, stream_end_on_close, extra, faults, sent, outstanding, net,
                 workerVars, requests, output, ownerVars>>

----------------------------------------------------------------------------
(* run_worker.                                                             *)

Active == {vb \in VBuckets : partitions[vb] # None}

\* Mutants of Receive: the wire before the frames set aside, and those never.
Receive_wireFirst(f) ==
  \/ net # <<>> /\ f = Head(net) /\ net' = Tail(net) /\ UNCHANGED pending
  \/ /\ net = <<>> /\ pending # <<>>
     /\ f = Head(pending) /\ pending' = Tail(pending) /\ UNCHANGED net

Receive_wireOnly(f) ==
  net # <<>> /\ f = Head(net) /\ net' = Tail(net) /\ UNCHANGED pending

\* KvConnection::receive_frame takes the frames set aside before those on the wire.
Receive(f) ==
  \/ /\ pending # <<>>
     /\ f = Head(pending)
     /\ pending' = Tail(pending)
     /\ UNCHANGED net
  \/ /\ pending = <<>>
     /\ net # <<>>
     /\ f = Head(net)
     /\ net' = Tail(net)
     /\ UNCHANGED pending

\* Mutant of Observed: sequence numbers may repeat or go back.
Observed_anyOrder(f) ==
  /\ f.kind \in {"marker", "event", "end"}
  /\ partitions[f.vb] # None
  /\ LET p == partitions[f.vb] IN
     /\ f.kind = "marker" => f.end >= p.last_seqno /\ f.end <= EndSeqno
     /\ f.kind = "event" => /\ p.snapshot # <<>>
                            /\ f.seqno >= p.snapshot[1] /\ f.seqno <= p.snapshot[2]

\* PartitionProgress::observe, after the checks that the frame belongs to an
\* active stream.
Observed(f) ==
  /\ f.kind \in {"marker", "event", "end"}
  /\ partitions[f.vb] # None
  /\ LET p == partitions[f.vb] IN
     /\ f.kind = "marker" => f.end >= p.last_seqno /\ f.end <= EndSeqno
     /\ f.kind = "event" => /\ p.snapshot # <<>>
                            /\ f.seqno >= p.snapshot[1] /\ f.seqno <= p.snapshot[2]
                            /\ f.seqno <= EndSeqno
                            /\ f.seqno > p.last_seqno

observe(f) ==
  CASE f.kind = "marker" -> [partitions EXCEPT ![f.vb].snapshot = <<f.seqno, f.end>>]
    [] f.kind = "event" -> [partitions EXCEPT ![f.vb].last_seqno = f.seqno]
    [] OTHER -> partitions

\* handle_frame up to the point where it queues the frame.  A NOOP and a marker that
\* asks for it are answered, and answering fails on a broken connection.
handle_frame(f) ==
  \/ /\ f.kind = "noop"
     /\ pc' \in {"select"} \cup IF eof THEN {"error"} ELSE {}
     /\ UNCHANGED <<held, partitions>>
  \/ /\ f.kind \in {"config", "unknown"}
     /\ pc' = "queue" /\ held' = f
     /\ UNCHANGED partitions
  \/ /\ f.kind \in StreamKinds /\ Observed(f)
     /\ pc' = "queue" /\ held' = f
     /\ partitions' = observe(f)
  \/ /\ f.kind = "marker" /\ Observed(f) /\ eof
     /\ pc' = "error"
     /\ partitions' = observe(f)
     /\ UNCHANGED held
  \/ /\ f.kind \in ResponseKinds \/ (f.kind \in StreamKinds /\ ~Observed(f))
     /\ pc' = "error"
     /\ UNCHANGED <<held, partitions>>

HandleFrame ==
  /\ pc = "select"
  /\ Active # {}
  /\ \E f \in {Head(q) : q \in {pending, net} \ {<<>>}} : Receive(f) /\ handle_frame(f)
  /\ UNCHANGED <<environment, failures, outstanding, credit, opaque, requests, output,
                 ownerVars>>

\* Mutant of FlushCredit: the count is not reset.
FlushCredit_noReset(bytes) ==
  /\ outstanding' = outstanding - bytes
  /\ credit' = bytes

\* FlowCredit::flush sends all credit, and fails on a broken connection.
FlushCredit(bytes) ==
  /\ outstanding' = outstanding - bytes
  /\ credit' = 0

\* Mutant of record: credit is returned only beyond the threshold.
record_above(bytes) ==
  \/ /\ bytes <= Threshold
     /\ credit' = bytes
     /\ UNCHANGED outstanding
     /\ pc' = "select"
  \/ /\ bytes > Threshold
     /\ FlushCredit(bytes)
     /\ pc' = "select"
  \/ /\ bytes > Threshold /\ eof
     /\ credit' = bytes
     /\ UNCHANGED outstanding
     /\ pc' = "error"

\* FlowCredit::record.  Returning credit fails on a broken connection.
record(bytes) ==
  \/ /\ bytes < Threshold
     /\ credit' = bytes
     /\ UNCHANGED outstanding
     /\ pc' = "select"
  \/ /\ bytes >= Threshold
     /\ FlushCredit(bytes)
     /\ pc' = "select"
  \/ /\ bytes >= Threshold /\ eof
     /\ credit' = bytes
     /\ UNCHANGED outstanding
     /\ pc' = "error"

\* The rest of handle_frame, once the queue has room: the frame's credit is recorded,
\* and a stream that ended is removed.
QueueFrame ==
  /\ pc = "queue"
  /\ Len(output) < Capacity
  /\ output' = Append(output, held)
  /\ held' = None
  /\ record(credit + WireSize(held))
  /\ partitions' = IF held.kind = "end" /\ pc' = "select"
                   THEN [partitions EXCEPT ![held.vb] = None]
                   ELSE partitions
  /\ UNCHANGED <<environment, failures, net, pending, opaque, requests, ownerVars>>

\* Every failure is queued as the last item, and the worker ends.
QueueError ==
  /\ pc = "error"
  /\ Len(output) < Capacity
  /\ output' = Append(output, [kind |-> "error", vb |-> None, seqno |-> 0, end |-> 0])
  /\ pc' = "done"
  /\ UNCHANGED <<producerVars, failures, pending, held, partitions, credit, opaque, requests,
                 ownerVars>>

\* No frame is left and the connection is broken, or silent for too long.
ConnectionFails ==
  /\ pc = "select"
  /\ Active # {}
  /\ pending = <<>> /\ net = <<>>
  /\ eof \/ failures < MaxFailures
  /\ failures' = IF eof THEN failures ELSE failures + 1
  /\ pc' = "error"
  /\ UNCHANGED <<producerVars, pending, held, partitions, credit, opaque, requests,
                 output, ownerVars>>

\* All streams have ended: return the remaining credit and end.
AllStreamsEnded ==
  /\ pc = "select"
  /\ Active = {}
  /\ \/ FlushCredit(credit) /\ pc' = "done"
     \/ eof /\ credit # 0 /\ pc' = "error" /\ UNCHANGED <<outstanding, credit>>
  /\ UNCHANGED <<environment, failures, net, pending, held, partitions, opaque, requests,
                 output, ownerVars>>

----------------------------------------------------------------------------
(* handle_command.                                                         *)

HandleShutdown ==
  /\ pc = "select"
  /\ Active # {}
  /\ command # None /\ command.kind = "shutdown"
  /\ \/ FlushCredit(credit) /\ reply' = "ok"
     \/ eof /\ credit # 0 /\ reply' = "err" /\ UNCHANGED <<outstanding, credit>>
  /\ command' = None
  /\ pc' = "done"
  /\ UNCHANGED <<environment, failures, net, pending, held, partitions, opaque, requests,
                 output, owner, delivered>>

\* A close request goes out, unless the stream is not active.
HandleClose ==
  /\ pc = "select"
  /\ Active # {}
  /\ command # None /\ command.kind = "close"
  /\ \/ /\ command.vb \notin Active
        /\ reply' = "err"
        /\ command' = None
        /\ UNCHANGED <<pc, opaque, requests>>
     \/ /\ command.vb \in Active
        /\ pc' = "request"
        /\ opaque' = opaque + 1
        /\ requests' = Append(requests, <<command.vb, opaque + 1>>)
        /\ UNCHANGED <<reply, command>>
  /\ UNCHANGED <<producerVars, failures, pending, held, partitions, credit, output, owner,
                 delivered>>

\* Mutant of SetAside: other frames are discarded.
SetAside_discards ==
  /\ pc = "request"
  /\ net # <<>>
  /\ ~(Head(net).kind \in ResponseKinds /\ Head(net).seqno = opaque)
  /\ net' = Tail(net)
  /\ UNCHANGED <<environment, failures, outstanding, pending, pc, held, partitions, credit,
                 opaque, requests, output, ownerVars>>

\* KvConnection::request while it waits: frames that are not the answer are set aside.
SetAside ==
  /\ pc = "request"
  /\ net # <<>>
  /\ ~(Head(net).kind \in ResponseKinds /\ Head(net).seqno = opaque)
  /\ pending' = Append(pending, Head(net))
  /\ net' = Tail(net)
  /\ UNCHANGED <<environment, failures, outstanding, pc, held, partitions, credit, opaque,
                 requests, output, ownerVars>>

\* Mutant of CloseAnswered: the stream is dropped although its end is still to come.
CloseAnswered_always ==
  /\ pc = "request"
  /\ net # <<>>
  /\ Head(net).kind \in ResponseKinds /\ Head(net).seqno = opaque
  /\ net' = Tail(net)
  /\ reply' = "ok"
  /\ partitions' = [partitions EXCEPT ![command.vb] = None]
  /\ held' = [kind |-> "closed", vb |-> command.vb, seqno |-> 0, end |-> 0]
  /\ pc' = "closed"
  /\ command' = None
  /\ UNCHANGED <<environment, failures, outstanding, pending, credit, opaque, requests,
                 output, owner, delivered>>

\* The answer arrives.  If the producer will not send a stream end, the worker drops
\* the stream and queues one itself.
CloseAnswered ==
  /\ pc = "request"
  /\ net # <<>>
  /\ Head(net).kind \in ResponseKinds /\ Head(net).seqno = opaque
  /\ net' = Tail(net)
  /\ reply' = IF Head(net).kind = "ok" THEN "ok" ELSE "err"
  /\ IF Head(net).kind = "ok" /\ ~stream_end_on_close
     THEN /\ partitions' = [partitions EXCEPT ![command.vb] = None]
          /\ held' = [kind |-> "closed", vb |-> command.vb, seqno |-> 0, end |-> 0]
          /\ pc' = "closed"
     ELSE pc' = "select" /\ UNCHANGED <<partitions, held>>
  /\ command' = None
  /\ UNCHANGED <<environment, failures, outstanding, pending, credit, opaque, requests,
                 output, owner, delivered>>

\* The request times out or the connection breaks.  The answer may still come.
CloseFails ==
  /\ pc = "request"
  /\ eof \/ failures < MaxFailures
  /\ failures' = IF eof THEN failures ELSE failures + 1
  /\ reply' = "err"
  /\ command' = None
  /\ pc' = "select"
  /\ UNCHANGED <<producerVars, pending, held, partitions, credit, opaque, requests,
                 output, owner, delivered>>

QueueClosed ==
  /\ pc = "closed"
  /\ Len(output) < Capacity
  /\ output' = Append(output, held)
  /\ held' = None
  /\ pc' = "select"
  /\ UNCHANGED <<producerVars, failures, pending, partitions, credit, opaque, requests, ownerVars>>

----------------------------------------------------------------------------
(* The owner of the DcpStream.                                             *)

Read ==
  /\ owner = "reading"
  /\ output # <<>>
  /\ output' = Tail(output)
  /\ delivered' = IF Head(output).kind \in StreamKinds
                  THEN [delivered EXCEPT ![Head(output).vb] = Append(@, Head(output))]
                  ELSE delivered
  /\ UNCHANGED <<producerVars, failures, workerVars, requests, command, reply, owner>>

\* close_vbucket and shutdown send a command and wait.  A worker that has ended
\* takes no command.
close_vbucket(vb) ==
  /\ owner = "reading"
  /\ pc # "done"
  /\ opaque < MaxCloses
  /\ owner' = "closing"
  /\ command' = [kind |-> "close", vb |-> vb]
  /\ UNCHANGED <<producerVars, failures, workerVars, requests, output, reply, delivered>>

CloseReturns ==
  /\ owner = "closing"
  /\ reply # "none" \/ pc = "done"
  /\ owner' = "reading"
  /\ command' = None
  /\ reply' = "none"
  /\ UNCHANGED <<producerVars, failures, workerVars, requests, output, delivered>>

shutdown ==
  /\ owner = "reading"
  /\ owner' = "stopping"
  /\ command' = IF pc = "done" THEN None ELSE [kind |-> "shutdown", vb |-> None]
  /\ UNCHANGED <<producerVars, failures, workerVars, requests, output, reply, delivered>>

\* The worker has replied, or dropped the command when it ended, and is joined.
ShutdownReturns ==
  /\ owner = "stopping"
  /\ pc = "done"
  /\ owner' = "stopped"
  /\ command' = None
  /\ UNCHANGED <<producerVars, failures, workerVars, requests, output, reply, delivered>>

\* DcpStream::drop aborts the worker wherever it waits, also when the owner gives up
\* on a call.
drop ==
  /\ owner \in {"reading", "closing", "stopping"}
  /\ owner' = "dropped"
  /\ pc' = "done"
  /\ output' = <<>>
  /\ command' = None
  /\ UNCHANGED <<producerVars, failures, pending, held, partitions, credit, opaque, requests,
                 reply, delivered>>

----------------------------------------------------------------------------

Producer ==
  \/ \E vb \in VBuckets : SendMarker(vb) \/ SendEvent(vb) \/ SendEnd(vb) \/ SendFaulty(vb)
  \/ \E kind \in ExtraKinds : SendExtra(kind)
  \/ AnswerClose
  \/ Disconnect

Worker ==
  \/ HandleFrame \/ QueueFrame \/ QueueError \/ ConnectionFails \/ AllStreamsEnded
  \/ HandleShutdown \/ HandleClose \/ SetAside \/ CloseAnswered \/ CloseFails
  \/ QueueClosed

Owner ==
  \/ Read \/ CloseReturns \/ shutdown \/ ShutdownReturns \/ drop
  \/ \E vb \in VBuckets : close_vbucket(vb)

Next == Producer \/ Worker \/ Owner

Spec == Init /\ [][Next]_vars

(* The worker runs whenever it can, and select! picks its branch at random, *)
(* so a command that keeps waiting is taken.  Calls return when they can,   *)
(* and the producer answers requests.                                       *)
RuntimeFairness ==
  /\ WF_vars(HandleFrame) /\ WF_vars(QueueFrame) /\ WF_vars(QueueError)
  /\ WF_vars(AllStreamsEnded) /\ WF_vars(SetAside) /\ WF_vars(CloseAnswered)
  /\ WF_vars(QueueClosed)
  /\ SF_vars(HandleShutdown) /\ SF_vars(HandleClose)
  /\ WF_vars(CloseReturns) /\ WF_vars(ShutdownReturns)
  /\ WF_vars(AnswerClose)

RuntimeSpec == Spec /\ RuntimeFairness

\* An owner that keeps reading while nothing else keeps it.
FairSpec == RuntimeSpec /\ WF_vars(Read)

----------------------------------------------------------------------------
(* Properties.                                                             *)

\* Every variable keeps its type, and the queue its bound.
TypeOK ==
  /\ feed \in [VBuckets -> Feed]
  /\ outstanding \in Nat
  /\ net \in Seq(Frame)
  /\ eof \in BOOLEAN
  /\ pending \in Seq(Frame)
  /\ pc \in {"select", "queue", "error", "request", "closed", "done"}
  /\ held \in Frame \cup {None}
  /\ partitions \in [VBuckets -> PartitionProgress \cup {None}]
  /\ credit \in Nat
  /\ opaque \in Nat
  /\ requests \in Seq(VBuckets \X Nat)
  /\ output \in Seq(Frame) /\ Len(output) <= Capacity
  /\ command \in [kind: {"close", "shutdown"}, vb: VBuckets \cup {None}] \cup {None}
  /\ reply \in {"none", "ok", "err"}
  /\ owner \in {"reading", "closing", "stopping", "stopped", "dropped"}
  /\ stream_end_on_close \in BOOLEAN
  /\ extra \in Nat /\ faults \in Nat /\ failures \in Nat
  /\ sent \in [VBuckets -> Seq(Frame)]
  /\ delivered \in [VBuckets -> Seq(Frame)]

Held == IF pc = "queue" THEN <<held>> ELSE <<>>

\* The frames of one stream among others.
Of(vb, frames) ==
  LET of[i \in 0..Len(frames)] ==
        IF i = 0 THEN <<>>
        ELSE IF frames[i].vb = vb /\ frames[i].kind \in StreamKinds
             THEN Append(of[i - 1], frames[i])
             ELSE of[i - 1]
  IN  of[Len(frames)]

\* Until the worker fails or ends, every frame of a stream is in exactly one place and
\* in order: delivered, queued, held, set aside during a request, or on the wire.
NothingLostOrReordered ==
  pc \notin {"error", "done"} =>
    \A vb \in VBuckets :
      sent[vb] = delivered[vb] \o Of(vb, output \o Held \o pending \o net)

\* What the owner reads of a stream is always a prefix of what the producer sent, also
\* after failures, time-outs and closes.
DeliveredIsPrefix ==
  \A vb \in VBuckets :
    /\ Len(delivered[vb]) <= Len(sent[vb])
    /\ delivered[vb] = SubSeq(sent[vb], 1, Len(delivered[vb]))

\* The flow-controlled bytes of the frames.
Bytes(frames) ==
  LET bytes[i \in 0..Len(frames)] ==
        IF i = 0 THEN 0 ELSE bytes[i - 1] + WireSize(frames[i])
  IN  bytes[Len(frames)]

\* No credit is lost or granted twice: what the producer counts as outstanding is on the
\* wire, set aside, held for the queue, or counted by the worker.
CreditConserved ==
  pc \notin {"error", "done"} =>
    outstanding = Bytes(net) + Bytes(pending) + Bytes(Held) + credit

\* A producer that must not send any more waits for something the worker still has to
\* take: with the wire, the frames set aside and its hands empty, the worker has returned
\* so much credit that the producer has room, also when the threshold is the whole buffer
\* (FlowCredit::new, record).
ProducerHasRoom ==
  pc \notin {"error", "done"} /\ outstanding >= BufferSize =>
    Bytes(net) + Bytes(pending) + Bytes(Held) > 0

\* Whatever the producer sends, the events the owner gets of a stream have increasing
\* sequence numbers and lie in the snapshot announced last.
DeliveredInSnapshots ==
  \A vb \in VBuckets : \A j \in DOMAIN delivered[vb] :
    LET e == delivered[vb][j] IN e.kind = "event" =>
      /\ \A i \in 1..(j - 1) :
           delivered[vb][i].kind = "event" => delivered[vb][i].seqno < e.seqno
      /\ \E i \in 1..(j - 1) :
           /\ delivered[vb][i].kind = "marker"
           /\ delivered[vb][i].seqno <= e.seqno /\ e.seqno <= delivered[vb][i].end
           /\ \A k \in (i + 1)..(j - 1) : delivered[vb][k].kind # "marker"

\* close_vbucket closes "one vBucket stream on the connection": a producer that keeps to
\* the protocol and ends the streams that are closed, on a connection that works, never
\* makes the worker fail.
CloseLeavesOtherStreams ==
  stream_end_on_close /\ faults = 0 /\ failures = 0 => pc # "error"

\* While the owner reads, everything sent is delivered, unless the worker fails: a stream
\* has an end, so what is undelivered of it clears.
EverythingDelivered ==
  \A vb \in VBuckets :
    Len(delivered[vb]) < Len(sent[vb]) ~>
      (Len(delivered[vb]) = Len(sent[vb]) \/ owner # "reading")

(* A claim of the documentation that does not hold. *)

\* shutdown "stops the worker".
ShutdownStopsWorker == owner = "stopping" ~> pc = "done"

=============================================================================

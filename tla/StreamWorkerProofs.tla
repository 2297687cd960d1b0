------------------------- MODULE StreamWorkerProofs -------------------------
(***************************************************************************)
(* Theorems about StreamWorker, for any number of streams and frames, any  *)
(* capacity of the queue, any buffer size and ratio, and any number of     *)
(* failures, faults and closes: no frame is lost or reordered on its way   *)
(* to the owner, and no credit is lost or returned twice.                  *)
(*                                                                         *)
(* The property about the order says nothing of a worker that has failed;  *)
(* the invariant (Ordered) says that what is queued then still continues   *)
(* what was delivered, and with what is left of it makes up what was sent. *)
(***************************************************************************)
EXTENDS FrameProofs

\* For the steps that name no prover: an SMT solver, then Zenon.
USE SMTT(30), ZenonT(30)

\* The variables that are the producer's alone.
ProducerType ==
  /\ feed \in [VBuckets -> Feed]
  /\ requests \in Seq(VBuckets \X Nat)
  /\ extra \in Nat /\ faults \in Nat

WorkerType ==
  /\ pc \in {"select", "queue", "error", "request", "closed", "done"}
  /\ held \in Frame \cup {None}
  /\ partitions \in [VBuckets -> PartitionProgress \cup {None}]
  /\ credit \in Nat /\ opaque \in Nat
  /\ pc = "queue" => held \in Frame /\ held.kind # "closed"
  /\ pc = "closed" => held \in Frame /\ held.kind = "closed"

\* A command is there until the worker has replied to it, and a close waits for its own.
OwnerType ==
  /\ command \in [kind: {"close"}, vb: VBuckets] \cup [kind: {"shutdown"}, vb: {None}]
                   \cup {None}
  /\ reply \in {"none", "ok", "err"}
  /\ owner \in {"reading", "closing", "stopping", "stopped", "dropped"}
  /\ owner = "reading" => command = None /\ reply = "none"
  /\ command # None => reply = "none"
  /\ pc = "request" => command # None /\ command \in [kind: {"close"}, vb: VBuckets]

WireType ==
  /\ outstanding \in Nat
  /\ net \in Seq(Frame) /\ pending \in Seq(Frame)
  /\ output \in Seq(Frame) /\ Len(output) <= Capacity
  /\ eof \in BOOLEAN /\ stream_end_on_close \in BOOLEAN /\ failures \in Nat
  /\ sent \in [VBuckets -> Seq(Frame)]
  /\ delivered \in [VBuckets -> Seq(Frame)]

Working == pc \notin {"error", "done"}

\* What is sent of a stream is delivered, queued, or left; while the worker works, what is
\* left is held, set aside or on the wire.
Ordered ==
  \A vb \in VBuckets : \E rest \in Seq(Frame) :
    /\ sent[vb] = (delivered[vb] \o Of(vb, output)) \o rest
    /\ Working => rest = Of(vb, Held) \o (Of(vb, pending) \o Of(vb, net))

WorkerInv ==
  ProducerType /\ WorkerType /\ OwnerType /\ WireType /\ Ordered /\ CreditConserved

-----------------------------------------------------------------------------
(* Frames.                                                                 *)

\* The fields of a frame.
LEMMA FrameFields ==
  ASSUME NEW f \in Frame
  PROVE  /\ f.seqno \in Nat /\ f.end \in Nat
         /\ f.kind \in StreamKinds \cup {"closed"} => f.vb \in VBuckets
         /\ f.kind \notin StreamKinds \cup {"closed"} => f.vb = None
         /\ f.kind \in StreamKinds \cup ExtraKinds \cup ResponseKinds \cup {"closed", "error"}
  BY DEF Frame, StreamKinds, ExtraKinds, ResponseKinds

\* A frame of a stream.
LEMMA StreamFrame ==
  ASSUME NEW kind \in StreamKinds \cup {"closed"}, NEW vb \in VBuckets,
         NEW seqno \in Nat, NEW end \in Nat
  PROVE  [kind |-> kind, vb |-> vb, seqno |-> seqno, end |-> end] \in Frame
  BY DEF Frame

\* A frame of no stream.
LEMMA OtherFrame ==
  ASSUME NEW kind \in ExtraKinds \cup ResponseKinds \cup {"error"}, NEW seqno \in Nat
  PROVE  [kind |-> kind, vb |-> None, seqno |-> seqno, end |-> 0] \in Frame
  BY DEF Frame

\* Concatenation of frames.
LEMMA Concat ==
  ASSUME NEW a \in Seq(Frame), NEW b \in Seq(Frame)
  PROVE  /\ a \o b \in Seq(Frame)
         /\ \A c \in Seq(Frame) : (a \o b) \o c = a \o (b \o c)
  OBVIOUS

\* Concatenation with no frames.
LEMMA ConcatEmpty ==
  ASSUME NEW a \in Seq(Frame)
  PROVE  a \o <<>> = a /\ <<>> \o a = a
  OBVIOUS

-----------------------------------------------------------------------------
(* The producer.                                                           *)

\* A frame that is sent comes after all others of its stream.
LEMMA SendStep ==
  ASSUME WorkerInv, NEW f \in Frame, f.kind # "closed", Send(f)
  PROVE  (WorkerType /\ OwnerType /\ WireType /\ Ordered /\ CreditConserved)'
<1>0. /\ WorkerType /\ OwnerType /\ WireType /\ Ordered /\ CreditConserved
      /\ net' = Append(net, f) /\ outstanding' = outstanding + WireSize(f)
      /\ sent' = IF f.vb = None THEN sent ELSE [sent EXCEPT ![f.vb] = Append(@, f)]
      /\ UNCHANGED <<eof, stream_end_on_close, failures, pending, pc, held, partitions, credit,
                     opaque, output, command, reply, owner, delivered>>
  BY ZenonT(30) DEF WorkerInv, Send, workerVars, ownerVars
<1>1. WorkerType' /\ OwnerType'
  BY <1>0, ZenonT(30) DEF WorkerType, OwnerType
<1>2. net' \in Seq(Frame) /\ net \in Seq(Frame) /\ pending \in Seq(Frame)
  BY <1>0 DEF WireType
<1>3. f.vb \in VBuckets => f.kind \in StreamKinds
  BY FrameFields, NoneAssumption, ZenonT(30)
<1>4. f.vb = None \/ f.vb \in VBuckets
  BY FrameFields, ZenonT(30)
<1>5. WireType'
  <2>1. outstanding' \in Nat
    BY <1>0, WireSizeType DEF WireType
  <2>2. sent' \in [VBuckets -> Seq(Frame)]
    <3>1. ASSUME f.vb \in VBuckets PROVE Append(sent[f.vb], f) \in Seq(Frame)
      BY <1>0, <3>1 DEF WireType
    <3> QED
      BY <1>0, <1>4, <3>1, ZenonT(30) DEF WireType
  <2> QED
    BY <1>0, <1>2, <2>1, <2>2, ZenonT(30) DEF WireType
<1>6. Held' = Held /\ Working' = Working
  BY <1>0, ZenonT(30) DEF Held, Working
<1>7. Ordered'
  <2> SUFFICES ASSUME NEW vb \in VBuckets
               PROVE  \E rest \in Seq(Frame) :
                        /\ sent'[vb] = (delivered[vb] \o Of(vb, output)) \o rest
                        /\ Working => rest = Of(vb, Held) \o (Of(vb, pending) \o Of(vb, net'))
    BY <1>0, <1>6, ZenonT(30) DEF Ordered
  <2>1. PICK rest \in Seq(Frame) :
          /\ sent[vb] = (delivered[vb] \o Of(vb, output)) \o rest
          /\ Working => rest = Of(vb, Held) \o (Of(vb, pending) \o Of(vb, net))
    BY <1>0, ZenonT(30) DEF Ordered
  <2>2. CASE vb # f.vb
    <3>1. sent'[vb] = sent[vb]
      BY <1>0, <2>2, ZenonT(30) DEF WireType
    <3>2. Of(vb, net') = Of(vb, net)
      BY <1>0, <1>2, <2>2, OfAppend, ZenonT(30) DEF IsOf
    <3> QED
      BY <2>1, <3>1, <3>2, ZenonT(30)
  <2>3. CASE vb = f.vb
    <3>0. Of(vb, net') = Append(Of(vb, net), f)
      BY <1>0, <1>2, <1>3, <2>3, OfAppend, ZenonT(30) DEF IsOf
    <3>1. sent'[vb] = Append(sent[vb], f)
      BY <1>0, <2>3, NoneAssumption, ZenonT(30) DEF WireType
    <3> DEFINE a == delivered[vb] \o Of(vb, output)
               h == Of(vb, Held)
               p == Of(vb, pending)
               n == Of(vb, net)
    <3>2. a \in Seq(Frame) /\ h \in Seq(Frame) /\ p \in Seq(Frame) /\ n \in Seq(Frame)
      <4>1. delivered[vb] \in Seq(Frame) /\ output \in Seq(Frame)
        BY <1>0, ZenonT(30) DEF WireType
      <4>2. Held \in Seq(Frame)
        BY <1>0 DEF Held, WorkerType
      <4> QED
        BY <1>2, <4>1, <4>2, OfType, Concat, ZenonT(30)
    <3> HIDE DEF a, h, p, n
    <3>3. Append(rest, f) \in Seq(Frame) /\ Append(a \o rest, f) = a \o Append(rest, f)
      <4>1. Append(rest, f) \in Seq(Frame)
        OBVIOUS
      <4> QED
        BY <3>2, <4>1, AppendConcat, ZenonT(60)
    <3>4. Append(h \o (p \o n), f) = h \o (p \o Append(n, f))
      <4>1. p \o n \in Seq(Frame)
        BY <3>2, Concat, ZenonT(30)
      <4>2. Append(h \o (p \o n), f) = h \o Append(p \o n, f)
        BY <3>2, <4>1, AppendConcat, ZenonT(30)
      <4>3. Append(p \o n, f) = p \o Append(n, f)
        BY <3>2, AppendConcat, ZenonT(30)
      <4> QED
        BY <4>2, <4>3, ZenonT(30)
    <3>5. sent'[vb] = a \o Append(rest, f)
      BY <2>1, <3>1, <3>3, ZenonT(30) DEF a
    <3>6. Working => Append(rest, f) = h \o (p \o Of(vb, net'))
      BY <2>1, <3>0, <3>4, ZenonT(30) DEF h, p, n
    <3> QED
      BY <3>3, <3>5, <3>6, ZenonT(30) DEF a, h, p
  <2> QED
    BY <2>2, <2>3, ZenonT(30)
<1>8. CreditConserved'
  <2>1. Bytes(net') = Bytes(net) + WireSize(f)
    BY <1>0, <1>2, BytesAppend, ZenonT(30)
  <2>2. /\ Bytes(net) \in Nat /\ Bytes(pending) \in Nat /\ Bytes(Held) \in Nat
        /\ credit \in Nat /\ WireSize(f) \in Nat
    <3>1. Held \in Seq(Frame)
      BY <1>0 DEF Held, WorkerType
    <3> QED
      BY <1>0, <1>2, <3>1, BytesType, WireSizeType, ZenonT(30) DEF WorkerType
  <2>3. Working => outstanding = Bytes(net) + Bytes(pending) + Bytes(Held) + credit
    BY <1>0, ZenonT(30) DEF CreditConserved, Working
  <2>4. Working => outstanding' = Bytes(net') + Bytes(pending) + Bytes(Held) + credit
    BY <1>0, <2>1, <2>2, <2>3
  <2> QED
    BY <1>0, <1>6, <2>4, ZenonT(30) DEF CreditConserved, Working
<1> QED
  BY <1>1, <1>5, <1>7, <1>8, ZenonT(30)

\* A frame of a stream is sent.
LEMMA StreamSends ==
  ASSUME WorkerInv, NEW vb \in VBuckets,
         SendMarker(vb) \/ SendEvent(vb) \/ SendEnd(vb) \/ SendFaulty(vb)
  PROVE  WorkerInv'
<1>0. /\ ProducerType /\ EndSeqno \in Nat
      /\ feed[vb] \in Feed
  BY BoundsAssumption, ZenonT(30) DEF WorkerInv, ProducerType
<1>1. CASE SendMarker(vb)
  <2>1. PICK end \in (feed[vb].last + 1)..EndSeqno :
          /\ Send([kind |-> "marker", vb |-> vb, seqno |-> feed[vb].last + 1, end |-> end])
          /\ feed' = [feed EXCEPT ![vb].window = end]
    BY <1>1, ZenonT(30) DEF SendMarker
  <2>2. /\ UNCHANGED <<extra, faults, requests>>
    BY <1>1, ZenonT(30) DEF SendMarker
  <2>3. end \in Nat /\ feed[vb].last + 1 \in Nat
    BY <1>0 DEF Feed
  <2> DEFINE f == [kind |-> "marker", vb |-> vb, seqno |-> feed[vb].last + 1, end |-> end]
  <2>4. f \in Frame /\ f.kind # "closed"
    BY <2>3, StreamFrame DEF StreamKinds
  <2> HIDE DEF f
  <2>5. (WorkerType /\ OwnerType /\ WireType /\ Ordered /\ CreditConserved)'
    BY <2>1, <2>4, SendStep, ZenonT(30) DEF f
  <2>6. ProducerType'
    <3>1. [feed[vb] EXCEPT !.window = end] \in Feed
      BY <1>0, <2>3 DEF Feed
    <3>2. feed' = [feed EXCEPT ![vb] = [feed[vb] EXCEPT !.window = end]]
      BY <2>1, ZenonT(30)
    <3> QED
      BY <1>0, <2>2, <3>1, <3>2, ZenonT(30) DEF ProducerType
  <2> QED
    BY <2>5, <2>6, ZenonT(30) DEF WorkerInv
<1>2. CASE SendEvent(vb)
  <2>1. PICK seqno \in (feed[vb].last + 1)..feed[vb].window :
          /\ Send([kind |-> "event", vb |-> vb, seqno |-> seqno, end |-> 0])
          /\ feed' = [feed EXCEPT ![vb].last = seqno]
    BY <1>2, ZenonT(30) DEF SendEvent
  <2>2. UNCHANGED <<extra, faults, requests>>
    BY <1>2, ZenonT(30) DEF SendEvent
  <2>3. seqno \in Nat
    BY <1>0 DEF Feed
  <2> DEFINE f == [kind |-> "event", vb |-> vb, seqno |-> seqno, end |-> 0]
  <2>4. f \in Frame /\ f.kind # "closed"
    BY <2>3, StreamFrame DEF StreamKinds
  <2> HIDE DEF f
  <2>5. (WorkerType /\ OwnerType /\ WireType /\ Ordered /\ CreditConserved)'
    BY <2>1, <2>4, SendStep, ZenonT(30) DEF f
  <2>6. ProducerType'
    <3>1. [feed[vb] EXCEPT !.last = seqno] \in Feed
      BY <1>0, <2>3 DEF Feed
    <3>2. feed' = [feed EXCEPT ![vb] = [feed[vb] EXCEPT !.last = seqno]]
      BY <2>1, ZenonT(30)
    <3> QED
      BY <1>0, <2>2, <3>1, <3>2, ZenonT(30) DEF ProducerType
  <2> QED
    BY <2>5, <2>6, ZenonT(30) DEF WorkerInv
<1>3. CASE SendEnd(vb)
  <2> DEFINE f == [kind |-> "end", vb |-> vb, seqno |-> 0, end |-> 0]
  <2>1. Send(f) /\ feed' = [feed EXCEPT ![vb].state = "ended"]
        /\ UNCHANGED <<extra, faults, requests>>
    BY <1>3, ZenonT(30) DEF SendEnd
  <2>2. f \in Frame /\ f.kind # "closed"
    BY StreamFrame DEF StreamKinds
  <2> HIDE DEF f
  <2>3. (WorkerType /\ OwnerType /\ WireType /\ Ordered /\ CreditConserved)'
    BY <2>1, <2>2, SendStep, ZenonT(30)
  <2>4. ProducerType'
    <3>1. [feed[vb] EXCEPT !.state = "ended"] \in Feed
      BY <1>0 DEF Feed
    <3>2. feed' = [feed EXCEPT ![vb] = [feed[vb] EXCEPT !.state = "ended"]]
      BY <2>1, ZenonT(30)
    <3> QED
      BY <1>0, <2>1, <3>1, <3>2, ZenonT(30) DEF ProducerType
  <2> QED
    BY <2>3, <2>4, ZenonT(30) DEF WorkerInv
<1>4. CASE SendFaulty(vb)
  <2>1. PICK f \in FaultyFrames(vb) : Send(f)
    BY <1>4, ZenonT(30) DEF SendFaulty
  <2>2. f \in Frame /\ f.kind # "closed"
    <3>1. f \in [kind: {"event", "marker", "foreign"}, vb: {vb}, seqno: 0..EndSeqno,
                  end: 0..(EndSeqno + 1)]
      BY <2>1, ZenonT(30) DEF FaultyFrames
    <3> QED
      BY <1>0, <3>1 DEF StreamKinds, Frame
  <2>3. (WorkerType /\ OwnerType /\ WireType /\ Ordered /\ CreditConserved)'
    BY <2>1, <2>2, SendStep, ZenonT(30)
  <2>4. ProducerType'
    BY <1>0, <1>4 DEF ProducerType, SendFaulty
  <2> QED
    BY <2>3, <2>4, ZenonT(30) DEF WorkerInv
<1> QED
  BY <1>1, <1>2, <1>3, <1>4, ZenonT(30)

\* A frame of no stream is sent, a close is answered, or the connection breaks.
LEMMA OtherSends ==
  ASSUME WorkerInv, (\E kind \in ExtraKinds : SendExtra(kind)) \/ AnswerClose \/ Disconnect
  PROVE  WorkerInv'
<1>0. ProducerType
  BY ZenonT(30) DEF WorkerInv
<1>1. CASE \E kind \in ExtraKinds : SendExtra(kind)
  <2>1. PICK kind \in ExtraKinds : SendExtra(kind)
    BY <1>1
  <2> DEFINE f == [kind |-> kind, vb |-> None, seqno |-> 0, end |-> 0]
  <2>2. Send(f) /\ extra' = extra + 1 /\ UNCHANGED <<feed, faults, requests>>
    BY <2>1, ZenonT(30) DEF SendExtra
  <2>3. f \in Frame /\ f.kind # "closed"
    BY OtherFrame DEF ExtraKinds
  <2> HIDE DEF f
  <2>4. (WorkerType /\ OwnerType /\ WireType /\ Ordered /\ CreditConserved)'
    BY <2>2, <2>3, SendStep, ZenonT(30)
  <2>5. ProducerType'
    BY <1>0, <2>2 DEF ProducerType
  <2> QED
    BY <2>4, <2>5, ZenonT(30) DEF WorkerInv
<1>2. CASE AnswerClose
  <2> DEFINE vb == requests[1][1]
             active == feed[vb].state = "open"
             f == [kind |-> IF active THEN "ok" ELSE "refused", vb |-> None,
                   seqno |-> requests[1][2], end |-> 0]
  <2>1. /\ requests # <<>> /\ Send(f) /\ requests' = Tail(requests)
        /\ UNCHANGED <<extra, faults>>
        /\ feed' = IF active
                   THEN [feed EXCEPT ![vb].state =
                           IF stream_end_on_close THEN "ending" ELSE "ended"]
                   ELSE feed
    BY <1>2, ZenonT(30) DEF AnswerClose
  <2>2. vb \in VBuckets /\ requests[1][2] \in Nat /\ requests' \in Seq(VBuckets \X Nat)
    BY <1>0, <2>1 DEF ProducerType
  <2>3. f \in Frame /\ f.kind # "closed"
    BY <2>2, OtherFrame DEF ResponseKinds
  <2>4. feed' \in [VBuckets -> Feed]
    <3> DEFINE state == IF stream_end_on_close THEN "ending" ELSE "ended"
    <3>1. feed[vb] \in Feed
      BY <1>0, <2>2, ZenonT(30) DEF ProducerType
    <3> HIDE DEF vb
    <3>2. [feed[vb] EXCEPT !.state = state] \in Feed
      BY <3>1 DEF Feed
    <3>3. CASE active
      <4>1. feed' = [feed EXCEPT ![vb] = [feed[vb] EXCEPT !.state = state]]
        BY <2>1, <3>3, ZenonT(30)
      <4> QED
        BY <1>0, <2>2, <3>2, <4>1, ZenonT(30) DEF ProducerType
    <3>4. CASE ~active
      BY <1>0, <2>1, <3>4, ZenonT(30) DEF ProducerType
    <3> QED
      BY <3>3, <3>4, ZenonT(30)
  <2> HIDE DEF f
  <2>5. (WorkerType /\ OwnerType /\ WireType /\ Ordered /\ CreditConserved)'
    BY <2>1, <2>3, SendStep, ZenonT(30)
  <2>6. ProducerType'
    BY <1>0, <2>1, <2>2, <2>4, ZenonT(30) DEF ProducerType
  <2> QED
    BY <2>5, <2>6, ZenonT(30) DEF WorkerInv
<1>3. CASE Disconnect
  <2>1. /\ eof' = TRUE /\ failures' = failures + 1
        /\ UNCHANGED <<feed, stream_end_on_close, extra, faults, sent, outstanding, net, pending,
                       pc, held, partitions, credit, opaque, requests, output, command, reply,
                       owner, delivered>>
    BY <1>3, ZenonT(30) DEF Disconnect, workerVars, ownerVars
  <2>2. failures' \in Nat
    BY <2>1 DEF WorkerInv, WireType
  <2>3. /\ ProducerType /\ WorkerType /\ OwnerType /\ WireType /\ Ordered
        /\ CreditConserved
    BY ZenonT(30) DEF WorkerInv
  <2>4. ProducerType' /\ WorkerType'
    BY <2>1, <2>3, ZenonT(30) DEF ProducerType, WorkerType
  <2>5. OwnerType' /\ WireType'
    BY <2>1, <2>2, <2>3, ZenonT(30) DEF OwnerType, WireType
  <2>6. Ordered' /\ CreditConserved'
    BY <2>1, <2>3, ZenonT(30) DEF Ordered, CreditConserved, Working, Held
  <2> QED
    BY <2>4, <2>5, <2>6, ZenonT(30) DEF WorkerInv
<1> QED
  BY <1>1, <1>2, <1>3, ZenonT(30)

-----------------------------------------------------------------------------
(* The worker.                                                             *)

\* The frame that is received is the first of what is set aside and on the wire.
LEMMA ReceiveStep ==
  ASSUME WireType, NEW f, Receive(f)
  PROVE  /\ f \in Frame /\ pending' \in Seq(Frame) /\ net' \in Seq(Frame)
         /\ \A vb : Of(vb, pending) \o Of(vb, net)
                      = Of(vb, <<f>>) \o (Of(vb, pending') \o Of(vb, net'))
         /\ Bytes(net) + Bytes(pending) = WireSize(f) + (Bytes(net') + Bytes(pending'))
<1>0. net \in Seq(Frame) /\ pending \in Seq(Frame)
  BY ZenonT(30) DEF WireType
<1>1. ASSUME NEW q \in Seq(Frame), q # <<>>
      PROVE  /\ Head(q) \in Frame /\ Tail(q) \in Seq(Frame)
             /\ \A vb : Of(vb, q) = Of(vb, <<Head(q)>>) \o Of(vb, Tail(q))
             /\ Bytes(q) = WireSize(Head(q)) + Bytes(Tail(q))
  <2>1. Head(q) \in Frame /\ Tail(q) \in Seq(Frame)
    BY <1>1
  <2>2. Bytes(q) = WireSize(Head(q)) + Bytes(Tail(q))
    BY <1>1, BytesHead, ZenonT(30)
  <2>3. ASSUME NEW vb PROVE Of(vb, q) = Of(vb, <<Head(q)>>) \o Of(vb, Tail(q))
    <3>1. Of(vb, q) = (IF IsOf(vb, Head(q)) THEN <<Head(q)>> ELSE <<>>) \o Of(vb, Tail(q))
      BY <1>1, OfHead, ZenonT(30)
    <3>2. Of(vb, <<Head(q)>>) = IF IsOf(vb, Head(q)) THEN <<Head(q)>> ELSE <<>>
      BY <2>1, OfOne, ZenonT(30)
    <3> QED
      BY <3>1, <3>2, ZenonT(30)
  <2> QED
    BY <2>1, <2>2, <2>3, ZenonT(30)
<1>2. CASE pending # <<>> /\ f = Head(pending) /\ pending' = Tail(pending) /\ UNCHANGED net
  <2>1. /\ f \in Frame /\ pending' \in Seq(Frame)
        /\ \A vb : Of(vb, pending) = Of(vb, <<f>>) \o Of(vb, pending')
        /\ Bytes(pending) = WireSize(f) + Bytes(pending')
    BY <1>0, <1>1, <1>2, ZenonT(30)
  <2>2. ASSUME NEW vb PROVE Of(vb, pending) \o Of(vb, net)
                              = Of(vb, <<f>>) \o (Of(vb, pending') \o Of(vb, net'))
    <3>1. <<f>> \in Seq(Frame)
      BY <2>1
    <3>2. Of(vb, <<f>>) \in Seq(Frame) /\ Of(vb, pending') \in Seq(Frame) /\ Of(vb, net) \in Seq(Frame)
      BY <1>0, <2>1, <3>1, OfType, ZenonT(30)
    <3>3. (Of(vb, <<f>>) \o Of(vb, pending')) \o Of(vb, net)
            = Of(vb, <<f>>) \o (Of(vb, pending') \o Of(vb, net))
      BY <3>2, Concat, ZenonT(60)
    <3> QED
      BY <1>2, <2>1, <3>3, ZenonT(30)
  <2>3. Bytes(net) \in Nat /\ WireSize(f) \in Nat /\ Bytes(pending') \in Nat /\ net' = net
    BY <1>0, <1>2, <2>1, BytesType, WireSizeType, ZenonT(30)
  <2>4. Bytes(net) + Bytes(pending) = WireSize(f) + (Bytes(net) + Bytes(pending'))
    BY <2>1, <2>3
  <2> QED
    BY <1>0, <2>1, <2>2, <2>3, <2>4, ZenonT(30)
<1>3. CASE /\ pending = <<>> /\ net # <<>> /\ f = Head(net)
           /\ net' = Tail(net) /\ UNCHANGED pending
  <2>1. /\ f \in Frame /\ net' \in Seq(Frame)
        /\ \A vb : Of(vb, net) = Of(vb, <<f>>) \o Of(vb, net')
        /\ Bytes(net) = WireSize(f) + Bytes(net')
    BY <1>0, <1>1, <1>3, ZenonT(30)
  <2>2. ASSUME NEW vb PROVE Of(vb, pending) \o Of(vb, net)
                              = Of(vb, <<f>>) \o (Of(vb, pending') \o Of(vb, net'))
    <3>1. Of(vb, pending) = <<>> /\ pending' = pending
      BY <1>3, OfEmpty
    <3>2. Of(vb, net) \in Seq(Frame) /\ Of(vb, net') \in Seq(Frame)
      BY <1>0, <2>1, OfType, ZenonT(30)
    <3>3. <<>> \o Of(vb, net) = Of(vb, net) /\ <<>> \o Of(vb, net') = Of(vb, net')
      BY <3>2
    <3> QED
      BY <2>1, <3>1, <3>3, ZenonT(30)
  <2>3. Bytes(pending) \in Nat /\ WireSize(f) \in Nat /\ Bytes(net') \in Nat /\ pending' = pending
    BY <1>0, <1>3, <2>1, BytesType, WireSizeType, ZenonT(30)
  <2>4. Bytes(net) + Bytes(pending) = WireSize(f) + (Bytes(net') + Bytes(pending))
    BY <2>1, <2>3
  <2> QED
    BY <1>0, <2>1, <2>2, <2>3, <2>4, ZenonT(30)
<1> QED
  BY <1>2, <1>3, ZenonT(30) DEF Receive

\* A step of the worker that reads nothing from the queue and adds nothing to it.
LEMMA KeepsOrder ==
  ASSUME Ordered, UNCHANGED <<sent, delivered, output>>,
         Working' => /\ Working
                     /\ \A vb \in VBuckets :
                          Of(vb, Held') \o (Of(vb, pending') \o Of(vb, net'))
                            = Of(vb, Held) \o (Of(vb, pending) \o Of(vb, net))
  PROVE  Ordered'
<1> SUFFICES ASSUME NEW vb \in VBuckets
             PROVE  \E rest \in Seq(Frame) :
                      /\ sent[vb] = (delivered[vb] \o Of(vb, output)) \o rest
                      /\ Working' => rest = Of(vb, Held') \o (Of(vb, pending') \o Of(vb, net'))
  BY ZenonT(30) DEF Ordered
<1>1. PICK rest \in Seq(Frame) :
        /\ sent[vb] = (delivered[vb] \o Of(vb, output)) \o rest
        /\ Working => rest = Of(vb, Held) \o (Of(vb, pending) \o Of(vb, net))
  BY ZenonT(30) DEF Ordered
<1> QED
  BY <1>1, ZenonT(30)

\* PartitionProgress::observe keeps the type.
LEMMA ObserveType ==
  ASSUME WorkerType, NEW f \in Frame, Observed(f)
  PROVE  observe(f) \in [VBuckets -> PartitionProgress \cup {None}]
<1>0. /\ f.kind \in {"marker", "event", "end"} /\ f.vb \in VBuckets
      /\ f.seqno \in Nat /\ f.end \in Nat
      /\ partitions \in [VBuckets -> PartitionProgress \cup {None}]
      /\ partitions[f.vb] \in PartitionProgress
  <2>1. f.kind \in {"marker", "event", "end"} /\ partitions[f.vb] # None
    BY ZenonT(30) DEF Observed
  <2>2. f.vb \in VBuckets /\ f.seqno \in Nat /\ f.end \in Nat
    BY <2>1, FrameFields DEF StreamKinds
  <2> QED
    BY <2>1, <2>2, ZenonT(30) DEF WorkerType
<1>1. CASE f.kind = "marker"
  <2>1. observe(f) = [partitions EXCEPT ![f.vb] = [partitions[f.vb] EXCEPT !.snapshot = <<f.seqno, f.end>>]]
    BY <1>1 DEF observe
  <2>2. [partitions[f.vb] EXCEPT !.snapshot = <<f.seqno, f.end>>] \in PartitionProgress
    BY <1>0 DEF PartitionProgress
  <2> QED
    BY <1>0, <2>1, <2>2, ZenonT(30)
<1>2. CASE f.kind = "event"
  <2>1. observe(f) = [partitions EXCEPT ![f.vb] = [partitions[f.vb] EXCEPT !.last_seqno = f.seqno]]
    BY <1>2 DEF observe
  <2>2. [partitions[f.vb] EXCEPT !.last_seqno = f.seqno] \in PartitionProgress
    BY <1>0 DEF PartitionProgress
  <2> QED
    BY <1>0, <2>1, <2>2, ZenonT(30)
<1>3. CASE f.kind = "end"
  BY <1>0, <1>3 DEF observe
<1> QED
  BY <1>0, <1>1, <1>2, <1>3, ZenonT(30)

\* A frame is taken and held for the queue, answered, or refused.
LEMMA HandleFrameStep ==
  ASSUME WorkerInv, HandleFrame
  PROVE  WorkerInv'
<1>0. /\ ProducerType /\ WorkerType /\ OwnerType /\ WireType /\ Ordered /\ CreditConserved
      /\ pc = "select"
      /\ UNCHANGED <<feed, eof, stream_end_on_close, extra, faults, sent, failures,
                     outstanding, credit, opaque, requests, output, command, reply, owner,
                     delivered>>
  BY ZenonT(30) DEF WorkerInv, HandleFrame, environment, ownerVars
<1>1. PICK f : Receive(f) /\ handle_frame(f)
  BY ZenonT(30) DEF HandleFrame
<1>2. /\ f \in Frame /\ pending' \in Seq(Frame) /\ net' \in Seq(Frame)
      /\ \A vb : Of(vb, pending) \o Of(vb, net)
                   = Of(vb, <<f>>) \o (Of(vb, pending') \o Of(vb, net'))
      /\ Bytes(net) + Bytes(pending) = WireSize(f) + (Bytes(net') + Bytes(pending'))
  BY <1>0, <1>1, ReceiveStep, ZenonT(30)
<1>3. \/ pc' = "select" /\ f.kind = "noop"
      \/ pc' = "queue" /\ held' = f /\ f.kind # "closed"
      \/ pc' = "error"
  <2>1. Observed(f) => f.kind # "closed"
    BY ZenonT(30) DEF Observed
  <2>2. CASE f.kind = "noop" /\ pc' \in {"select"} \cup IF eof THEN {"error"} ELSE {}
    BY <2>2
  <2> QED
    BY <1>1, <2>1, <2>2, ZenonT(30) DEF handle_frame
<1>4. WorkerType'
  <2>1. partitions' = partitions \/ (Observed(f) /\ partitions' = observe(f))
    BY <1>1, ZenonT(30) DEF handle_frame
  <2>2. partitions' \in [VBuckets -> PartitionProgress \cup {None}]
    BY <1>0, <1>2, <2>1, ObserveType, ZenonT(30) DEF WorkerType
  <2>3. held' \in Frame \cup {None}
    BY <1>0, <1>1, <1>2, ZenonT(30) DEF WorkerType, handle_frame
  <2> QED
    BY <1>0, <1>2, <1>3, <2>2, <2>3 DEF WorkerType
<1>5. ProducerType' /\ OwnerType' /\ WireType'
  BY <1>0, <1>2, <1>3, ZenonT(30) DEF ProducerType, OwnerType, WireType
<1>6. Held = <<>> /\ Working
  BY <1>0 DEF Held, Working
<1>7. Working' =>
        \/ Held' = <<>> /\ f.kind = "noop"
        \/ Held' = <<f>>
  BY <1>3 DEF Held, Working
<1>8. Ordered'
  <2>1. ASSUME Working', NEW vb \in VBuckets
        PROVE  Of(vb, Held') \o (Of(vb, pending') \o Of(vb, net'))
                 = Of(vb, Held) \o (Of(vb, pending) \o Of(vb, net))
    <3>1. /\ Of(vb, pending') \in Seq(Frame) /\ Of(vb, net') \in Seq(Frame)
          /\ Of(vb, pending) \in Seq(Frame) /\ Of(vb, net) \in Seq(Frame)
      BY <1>0, <1>2, OfType, ZenonT(30) DEF WireType
    <3>2. /\ Of(vb, pending') \o Of(vb, net') \in Seq(Frame)
          /\ Of(vb, pending) \o Of(vb, net) \in Seq(Frame)
      BY <3>1, Concat, ZenonT(30)
    <3>3. Of(vb, Held) \o (Of(vb, pending) \o Of(vb, net)) = Of(vb, pending) \o Of(vb, net)
      <4>1. Of(vb, Held) = <<>>
        BY <1>6, OfEmpty
      <4> QED
        BY <3>2, <4>1, ConcatEmpty
    <3>4. Of(vb, Held') = Of(vb, <<f>>)
      <4>1. CASE Held' = <<>> /\ f.kind = "noop"
        <5>1. ~IsOf(vb, f)
          BY <4>1 DEF IsOf, StreamKinds
        <5>2. Of(vb, <<f>>) = <<>>
          BY <1>2, <5>1, OfOne
        <5> QED
          BY <4>1, <5>2, OfEmpty
      <4>2. CASE Held' = <<f>>
        BY <4>2, ZenonT(30)
      <4> QED
        BY <1>7, <2>1, <4>1, <4>2, ZenonT(30)
    <3> QED
      BY <1>2, <3>3, <3>4, ZenonT(30)
  <2> QED
    BY <1>0, <1>6, <2>1, KeepsOrder, ZenonT(30)
<1>9. CreditConserved'
  <2> SUFFICES ASSUME Working'
               PROVE  outstanding = Bytes(net') + Bytes(pending') + Bytes(Held') + credit
    BY <1>0, ZenonT(30) DEF CreditConserved, Working
  <2>1. outstanding = Bytes(net) + Bytes(pending) + Bytes(Held) + credit
    BY <1>0, <1>6, ZenonT(30) DEF CreditConserved, Working
  <2>2. Bytes(Held) = 0
    BY <1>6, BytesEmpty
  <2>3. Bytes(Held') = WireSize(f)
    <3>1. CASE Held' = <<>> /\ f.kind = "noop"
      BY <3>1, BytesEmpty DEF WireSize
    <3>2. CASE Held' = <<f>>
      BY <1>2, <3>2, BytesOne, ZenonT(30)
    <3> QED
      BY <1>7, <3>1, <3>2, ZenonT(30)
  <2>4. /\ Bytes(net) \in Nat /\ Bytes(pending) \in Nat /\ Bytes(net') \in Nat
        /\ Bytes(pending') \in Nat /\ WireSize(f) \in Nat /\ credit \in Nat
    BY <1>0, <1>2, BytesType, WireSizeType, ZenonT(30) DEF WireType, WorkerType
  <2> QED
    BY <1>2, <2>1, <2>2, <2>3, <2>4
<1> QED
  BY <1>4, <1>5, <1>8, <1>9, ZenonT(30) DEF WorkerInv

\* The first of what is left goes to the end of the queue.
LEMMA QueuesInOrder ==
  ASSUME WireType, Ordered, Working, NEW x \in Frame,
         output' = Append(output, x), UNCHANGED <<sent, delivered, pending, net>>,
         \A vb \in VBuckets : Of(vb, Held) = Of(vb, <<x>>),
         Held' = <<>>
  PROVE  Ordered'
<1> SUFFICES ASSUME NEW vb \in VBuckets
             PROVE  \E rest \in Seq(Frame) :
                      /\ sent[vb] = (delivered[vb] \o Of(vb, output')) \o rest
                      /\ Working' => rest = Of(vb, Held') \o (Of(vb, pending) \o Of(vb, net))
  BY ZenonT(30) DEF Ordered
<1> DEFINE d == delivered[vb]
           o == Of(vb, output)
           y == Of(vb, <<x>>)
           r == Of(vb, pending) \o Of(vb, net)
<1>0. output \in Seq(Frame) /\ <<x>> \in Seq(Frame) /\ output' = output \o <<x>>
  BY DEF WireType
<1>1. d \in Seq(Frame) /\ o \in Seq(Frame) /\ y \in Seq(Frame) /\ r \in Seq(Frame)
  <2>1. d \in Seq(Frame) /\ pending \in Seq(Frame) /\ net \in Seq(Frame)
    BY ZenonT(30) DEF WireType
  <2>2. Of(vb, pending) \in Seq(Frame) /\ Of(vb, net) \in Seq(Frame)
    BY <2>1, OfType, ZenonT(30)
  <2> QED
    BY <1>0, <2>1, <2>2, OfType, Concat, ZenonT(30)
<1>2. sent[vb] = (d \o o) \o (y \o r)
  BY ZenonT(30) DEF Ordered
<1>3. Of(vb, output') = o \o y
  BY <1>0, OfConcat, ZenonT(30)
<1>4. Of(vb, Held') \o r = r
  <2>1. Of(vb, Held') = <<>>
    BY OfEmpty
  <2> HIDE DEF r
  <2> QED
    BY <1>1, <2>1, ConcatEmpty
<1>5. (d \o o) \o (y \o r) = (d \o (o \o y)) \o r
  <2> HIDE DEF d, o, y, r
  <2>1. d \o o \in Seq(Frame)
    BY <1>1, Concat, ZenonT(30)
  <2>2. (d \o o) \o (y \o r) = ((d \o o) \o y) \o r
    BY <1>1, <2>1, Concat, ZenonT(30)
  <2>3. \A c \in Seq(Frame) : (d \o o) \o c = d \o (o \o c)
    BY <1>1, Concat, ZenonT(30)
  <2> QED
    BY <1>1, <2>2, <2>3, ZenonT(30)
<1> QED
  BY <1>1, <1>2, <1>3, <1>4, <1>5, ZenonT(30)

\* Every byte of a queued frame is counted, and returned at most once.
LEMMA QueueFrameStep ==
  ASSUME WorkerInv, QueueFrame
  PROVE  WorkerInv'
<1>0. /\ ProducerType /\ WorkerType /\ OwnerType /\ WireType /\ Ordered /\ CreditConserved
      /\ pc = "queue" /\ Len(output) < Capacity /\ output' = Append(output, held)
      /\ held' = None /\ record(credit + WireSize(held))
      /\ UNCHANGED <<feed, eof, stream_end_on_close, extra, faults, sent, failures, net, pending,
                     opaque, requests, command, reply, owner, delivered>>
  BY ZenonT(30) DEF WorkerInv, QueueFrame, environment, ownerVars
<1>1. held \in Frame /\ held.kind # "closed"
  BY <1>0, ZenonT(30) DEF WorkerType
<1> DEFINE bytes == credit + WireSize(held)
<1>2. \/ pc' = "select" /\ credit' = bytes /\ outstanding' = outstanding
      \/ pc' = "select" /\ credit' = 0 /\ outstanding' = outstanding - bytes
      \/ pc' = "error" /\ credit' = bytes /\ outstanding' = outstanding
  BY <1>0, ZenonT(30) DEF record, FlushCredit
<1>3. Held = <<held>> /\ Working /\ Held' = <<>> /\ pc' \in {"select", "error"}
  BY <1>0, <1>2 DEF Held, Working
<1>4. /\ Bytes(net) \in Nat /\ Bytes(pending) \in Nat /\ WireSize(held) \in Nat
      /\ credit \in Nat /\ bytes \in Nat /\ Bytes(Held) = WireSize(held) /\ Bytes(Held') = 0
      /\ outstanding = Bytes(net) + Bytes(pending) + WireSize(held) + credit
  <2>1. Bytes(net) \in Nat /\ Bytes(pending) \in Nat /\ WireSize(held) \in Nat /\ credit \in Nat
    BY <1>0, BytesType, WireSizeType, ZenonT(30) DEF WireType, WorkerType
  <2>2. Bytes(Held) = WireSize(held)
    BY <1>1, <1>3, BytesOne, ZenonT(30)
  <2>3. outstanding = Bytes(net) + Bytes(pending) + Bytes(Held) + credit
    BY <1>0, <1>3, ZenonT(30) DEF CreditConserved, Working
  <2>4. Bytes(Held') = 0
    BY <1>3, BytesEmpty
  <2> QED
    BY <2>1, <2>2, <2>3, <2>4
<1>5. CreditConserved' /\ outstanding' \in Nat /\ credit' \in Nat
  <2>1. outstanding' = Bytes(net) + Bytes(pending) + Bytes(Held') + credit'
    BY <1>2, <1>4
  <2>2. outstanding' \in Nat /\ credit' \in Nat
    BY <1>2, <1>4
  <2> QED
    BY <1>0, <2>1, <2>2, ZenonT(30) DEF CreditConserved
<1>6. WorkerType'
  <2>1. partitions' \in [VBuckets -> PartitionProgress \cup {None}]
    <3>1. \/ partitions' = partitions
          \/ partitions' = [partitions EXCEPT ![held.vb] = None]
      BY ZenonT(30) DEF QueueFrame
    <3> QED
      BY <1>0, <3>1, ZenonT(30) DEF WorkerType
  <2> QED
    BY <1>0, <1>3, <1>5, <2>1 DEF WorkerType
<1>7. WireType'
  <2>1. output' \in Seq(Frame) /\ Len(output') <= Capacity
    BY <1>0, <1>1, BoundsAssumption DEF WireType
  <2> QED
    BY <1>0, <1>5, <2>1, ZenonT(30) DEF WireType
<1>8. ProducerType' /\ OwnerType'
  BY <1>0, <1>3, ZenonT(30) DEF ProducerType, OwnerType
<1>9. Ordered'
  BY <1>0, <1>1, <1>3, QueuesInOrder, ZenonT(30)
<1> QED
  BY <1>5, <1>6, <1>7, <1>8, <1>9, ZenonT(30) DEF WorkerInv

\* The worker queues the end of a stream it closed itself, which the producer did not send.
LEMMA QueueClosedStep ==
  ASSUME WorkerInv, QueueClosed
  PROVE  WorkerInv'
<1>0. /\ ProducerType /\ WorkerType /\ OwnerType /\ WireType /\ Ordered /\ CreditConserved
      /\ pc = "closed" /\ Len(output) < Capacity /\ output' = Append(output, held)
      /\ held' = None /\ pc' = "select"
      /\ UNCHANGED <<feed, eof, stream_end_on_close, extra, faults, sent, outstanding, failures,
                     net, pending, partitions, credit, opaque, requests, command, reply, owner,
                     delivered>>
  BY ZenonT(30) DEF WorkerInv, QueueClosed, producerVars, environment, ownerVars
<1>1. held \in Frame /\ held.kind = "closed"
  BY <1>0, ZenonT(30) DEF WorkerType
<1>2. Held = <<>> /\ Working /\ Held' = <<>>
  BY <1>0 DEF Held, Working
<1>3. WorkerType' /\ ProducerType' /\ OwnerType'
  BY <1>0 DEF WorkerType, ProducerType, OwnerType
<1>4. WireType'
  <2>1. output' \in Seq(Frame) /\ Len(output') <= Capacity
    BY <1>0, <1>1, BoundsAssumption DEF WireType
  <2> QED
    BY <1>0, <2>1, ZenonT(30) DEF WireType
<1>5. CreditConserved'
  BY <1>0, <1>2, ZenonT(30) DEF CreditConserved, Working
<1>6. ASSUME NEW vb \in VBuckets PROVE Of(vb, Held) = Of(vb, <<held>>)
  <2>1. ~IsOf(vb, held)
    BY <1>1 DEF IsOf, StreamKinds
  <2>2. Of(vb, <<held>>) = <<>>
    BY <1>1, <2>1, OfOne
  <2> QED
    BY <1>2, <2>2, OfEmpty
<1>7. Ordered'
  BY <1>0, <1>1, <1>2, <1>6, QueuesInOrder, ZenonT(30)
<1> QED
  BY <1>3, <1>4, <1>5, <1>7, ZenonT(30) DEF WorkerInv

\* The error is queued after everything else, and belongs to no stream.
LEMMA QueueErrorStep ==
  ASSUME WorkerInv, QueueError
  PROVE  WorkerInv'
<1> DEFINE x == [kind |-> "error", vb |-> None, seqno |-> 0, end |-> 0]
<1>0. /\ ProducerType /\ WorkerType /\ OwnerType /\ WireType /\ Ordered
      /\ pc = "error" /\ Len(output) < Capacity /\ output' = Append(output, x)
      /\ pc' = "done"
      /\ UNCHANGED <<feed, eof, stream_end_on_close, extra, faults, sent, outstanding, failures,
                     net, pending, held, partitions, credit, opaque, requests, command, reply,
                     owner, delivered>>
  BY ZenonT(30) DEF WorkerInv, QueueError, producerVars, environment, ownerVars
<1>1. x \in Frame /\ x.kind = "error"
  BY OtherFrame
<1> HIDE DEF x
<1>2. WorkerType' /\ ProducerType' /\ OwnerType'
  BY <1>0 DEF WorkerType, ProducerType, OwnerType
<1>3. WireType'
  <2>1. output' \in Seq(Frame) /\ Len(output') <= Capacity
    BY <1>0, <1>1, BoundsAssumption DEF WireType
  <2> QED
    BY <1>0, <2>1, ZenonT(30) DEF WireType
<1>4. ~Working'
  BY <1>0 DEF Working
<1>5. \A vb \in VBuckets : Of(vb, output') = Of(vb, output)
  <2>1. \A vb \in VBuckets : ~IsOf(vb, x)
    BY <1>1 DEF IsOf, StreamKinds
  <2>2. output \in Seq(Frame)
    BY <1>0, ZenonT(30) DEF WireType
  <2> QED
    BY <1>0, <1>1, <2>1, <2>2, OfAppend, ZenonT(30)
<1>6. Ordered' /\ CreditConserved'
  BY <1>0, <1>4, <1>5, ZenonT(30) DEF Ordered, CreditConserved, Working
<1> QED
  BY <1>2, <1>3, <1>6, ZenonT(30) DEF WorkerInv

\* The worker fails, or returns all credit and ends.
LEMMA WorkerEnds ==
  ASSUME WorkerInv, ConnectionFails \/ AllStreamsEnded \/ HandleShutdown
  PROVE  WorkerInv'
<1>0. /\ ProducerType /\ WorkerType /\ OwnerType /\ WireType /\ Ordered /\ CreditConserved
      /\ pc = "select"
      /\ UNCHANGED <<feed, eof, stream_end_on_close, extra, faults, sent, net, pending, held,
                     partitions, opaque, requests, output, owner, delivered>>
  BY ZenonT(30) DEF WorkerInv, ConnectionFails, AllStreamsEnded, HandleShutdown, producerVars,
               environment, ownerVars
<1>1. /\ pc' \in {"error", "done"}
      /\ failures' \in {failures, failures + 1}
      /\ \/ credit' = credit /\ outstanding' = outstanding
         \/ credit' = 0 /\ outstanding' = outstanding - credit
      /\ \/ command' = command /\ reply' = reply
         \/ /\ command # None /\ command.kind = "shutdown"
            /\ command' = None /\ reply' \in {"ok", "err"}
  <2>1. CASE ConnectionFails
    BY <2>1 DEF ConnectionFails, producerVars, ownerVars
  <2>2. CASE AllStreamsEnded
    BY <2>2 DEF AllStreamsEnded, FlushCredit, ownerVars
  <2>3. CASE HandleShutdown
    BY <2>3 DEF HandleShutdown, FlushCredit
  <2> QED
    BY <2>1, <2>2, <2>3, ZenonT(30)
<1>2. ~Working' /\ Working
  BY <1>0, <1>1 DEF Working
<1>3. outstanding' \in Nat /\ credit' \in Nat /\ failures' \in Nat
  <2>1. outstanding = Bytes(net) + Bytes(pending) + Bytes(Held) + credit
    BY <1>0, <1>2, ZenonT(30) DEF CreditConserved, Working
  <2>2. /\ Bytes(net) \in Nat /\ Bytes(pending) \in Nat /\ Bytes(Held) = 0 /\ credit \in Nat
        /\ failures \in Nat
    <3>1. Bytes(Held) = 0
      BY <1>0, BytesEmpty DEF Held
    <3> QED
      BY <1>0, <3>1, BytesType, ZenonT(30) DEF WireType, WorkerType
  <2> QED
    BY <1>1, <2>1, <2>2
<1>4. ProducerType' /\ WireType'
  BY <1>0, <1>3, ZenonT(30) DEF ProducerType, WireType
<1>5. WorkerType'
  BY <1>0, <1>1, <1>3 DEF WorkerType
<1>6. OwnerType'
  <2>1. pc' # "request"
    BY <1>1
  <2> QED
    BY <1>0, <1>1, <2>1, ZenonT(30) DEF OwnerType
<1>7. Ordered' /\ CreditConserved'
  BY <1>0, <1>2, KeepsOrder, ZenonT(30) DEF CreditConserved, Working
<1> QED
  BY <1>4, <1>5, <1>6, <1>7, ZenonT(30) DEF WorkerInv

\* A close request goes out, is answered, or fails.
LEMMA CloseStep ==
  ASSUME WorkerInv, HandleClose \/ CloseFails
  PROVE  WorkerInv'
<1>0. /\ ProducerType /\ WorkerType /\ OwnerType /\ WireType /\ Ordered /\ CreditConserved
      /\ pc \in {"select", "request"}
      /\ UNCHANGED <<feed, eof, stream_end_on_close, extra, faults, sent, outstanding, net,
                     pending, held, partitions, credit, output, owner, delivered>>
  BY ZenonT(30) DEF WorkerInv, HandleClose, CloseFails, producerVars, environment
<1>1. /\ pc' \in {"select", "request"}
      /\ pc' = "request" => /\ command' = command /\ reply' = reply
                            /\ command # None /\ command \in [kind: {"close"}, vb: VBuckets]
      /\ pc' = "select" => command' = None /\ reply' = "err" /\ command # None
      /\ opaque' \in Nat /\ failures' \in Nat
      /\ requests' \in Seq(VBuckets \X Nat)
  <2>0. opaque \in Nat /\ failures \in Nat /\ requests \in Seq(VBuckets \X Nat)
    BY <1>0, ZenonT(30) DEF WorkerType, WireType, ProducerType
  <2>1. CASE CloseFails
    <3>1. command # None
      BY <1>0, <2>1, ZenonT(30) DEF OwnerType, CloseFails
    <3> QED
      BY <2>0, <2>1, <3>1 DEF CloseFails
  <2>2. CASE HandleClose
    <3>0. pc = "select" /\ command # None /\ command.kind = "close" /\ failures' = failures
      BY <2>2, ZenonT(30) DEF HandleClose
    <3>1. command \in [kind: {"close"}, vb: VBuckets]
      BY <1>0, <3>0 DEF OwnerType
    <3>2. CASE reply' = "err" /\ command' = None /\ UNCHANGED <<pc, opaque, requests>>
      BY <2>0, <3>0, <3>2
    <3>3. CASE /\ pc' = "request" /\ opaque' = opaque + 1
               /\ requests' = Append(requests, <<command.vb, opaque + 1>>)
               /\ UNCHANGED <<reply, command>>
      BY <2>0, <3>0, <3>1, <3>3
    <3> QED
      BY <2>2, <3>2, <3>3, ZenonT(30) DEF HandleClose
  <2> QED
    BY <2>1, <2>2, ZenonT(30)
<1>2. Held = <<>> /\ Held' = <<>> /\ Working /\ Working'
  BY <1>0, <1>1 DEF Held, Working
<1>3. ProducerType' /\ WireType'
  BY <1>0, <1>1, ZenonT(30) DEF ProducerType, WireType
<1>4. WorkerType'
  BY <1>0, <1>1 DEF WorkerType
<1>5. OwnerType'
  <2>1. CASE pc' = "request"
    BY <1>0, <1>1, <2>1, ZenonT(30) DEF OwnerType
  <2>2. CASE pc' = "select"
    BY <1>0, <1>1, <2>2, ZenonT(30) DEF OwnerType
  <2> QED
    BY <1>1, <2>1, <2>2
<1>6. Ordered' /\ CreditConserved'
  BY <1>0, <1>2, KeepsOrder, ZenonT(30) DEF CreditConserved, Working
<1> QED
  BY <1>3, <1>4, <1>5, <1>6, ZenonT(30) DEF WorkerInv

\* A frame that is not the answer is set aside after those that were.
LEMMA SetAsideStep ==
  ASSUME WorkerInv, SetAside
  PROVE  WorkerInv'
<1> DEFINE f == Head(net)
<1>0. /\ ProducerType /\ WorkerType /\ OwnerType /\ WireType /\ Ordered /\ CreditConserved
      /\ pc = "request" /\ net # <<>> /\ net' = Tail(net) /\ pending' = Append(pending, f)
      /\ UNCHANGED <<feed, eof, stream_end_on_close, extra, faults, sent, failures, outstanding,
                     pc, held, partitions, credit, opaque, requests, output, command, reply,
                     owner, delivered>>
  BY ZenonT(30) DEF WorkerInv, SetAside, environment, ownerVars
<1>1. /\ net \in Seq(Frame) /\ pending \in Seq(Frame) /\ f \in Frame /\ <<f>> \in Seq(Frame)
      /\ net' \in Seq(Frame) /\ pending' \in Seq(Frame) /\ pending' = pending \o <<f>>
      /\ net = <<f>> \o net'
  BY <1>0 DEF WireType
<1> HIDE DEF f
<1>2. Held' = Held /\ Held = <<>> /\ Working' /\ Working
  BY <1>0 DEF Held, Working
<1>3. ProducerType' /\ WorkerType' /\ OwnerType' /\ WireType'
  BY <1>0, <1>1, ZenonT(30) DEF ProducerType, WorkerType, OwnerType, WireType
<1>4. ASSUME NEW vb \in VBuckets
      PROVE  Of(vb, pending') \o Of(vb, net') = Of(vb, pending) \o Of(vb, net)
  <2> DEFINE a == Of(vb, pending)
             b == Of(vb, <<f>>)
             c == Of(vb, net')
  <2>1. Of(vb, pending') = a \o b /\ Of(vb, net) = b \o c
    BY <1>1, OfConcat, ZenonT(30)
  <2>2. a \in Seq(Frame) /\ b \in Seq(Frame) /\ c \in Seq(Frame)
    BY <1>1, OfType, ZenonT(30)
  <2> HIDE DEF a, b, c
  <2>3. (a \o b) \o c = a \o (b \o c)
    BY <2>2, Concat, ZenonT(60)
  <2> QED
    BY <2>1, <2>3, ZenonT(30) DEF a, c
<1>5. Ordered'
  BY <1>0, <1>2, <1>4, KeepsOrder, ZenonT(30)
<1>6. CreditConserved'
  <2>1. /\ Bytes(pending') = Bytes(pending) + Bytes(<<f>>)
        /\ Bytes(net) = Bytes(<<f>>) + Bytes(net')
    BY <1>1, BytesConcat, ZenonT(30)
  <2>2. /\ Bytes(pending) \in Nat /\ Bytes(<<f>>) \in Nat /\ Bytes(net') \in Nat
        /\ credit \in Nat /\ Bytes(Held) = 0
    <3>1. Bytes(Held) = 0
      BY <1>2, BytesEmpty
    <3> QED
      BY <1>0, <1>1, <3>1, BytesType, ZenonT(30) DEF WorkerType
  <2>3. outstanding = Bytes(net) + Bytes(pending) + Bytes(Held) + credit
    BY <1>0, <1>2, ZenonT(30) DEF CreditConserved, Working
  <2>4. outstanding = Bytes(net') + Bytes(pending') + Bytes(Held) + credit
    BY <2>1, <2>2, <2>3
  <2> QED
    BY <1>0, <1>2, <2>4, ZenonT(30) DEF CreditConserved
<1> QED
  BY <1>3, <1>5, <1>6, ZenonT(30) DEF WorkerInv

\* The answer belongs to no stream and is not flow-controlled.
LEMMA CloseAnsweredStep ==
  ASSUME WorkerInv, CloseAnswered
  PROVE  WorkerInv'
<1> DEFINE f == Head(net)
<1>0. /\ ProducerType /\ WorkerType /\ OwnerType /\ WireType /\ Ordered /\ CreditConserved
      /\ pc = "request" /\ net # <<>> /\ net' = Tail(net) /\ f.kind \in ResponseKinds
      /\ command' = None /\ reply' = IF f.kind = "ok" THEN "ok" ELSE "err"
      /\ UNCHANGED <<feed, eof, stream_end_on_close, extra, faults, sent, failures, outstanding,
                     pending, credit, opaque, requests, output, owner, delivered>>
  BY ZenonT(30) DEF WorkerInv, CloseAnswered, environment
<1>1. /\ net \in Seq(Frame) /\ pending \in Seq(Frame) /\ f \in Frame /\ <<f>> \in Seq(Frame)
      /\ net' \in Seq(Frame) /\ net = <<f>> \o net'
  BY <1>0 DEF WireType
<1> HIDE DEF f
<1>2. command # None /\ command \in [kind: {"close"}, vb: VBuckets] /\ command.vb \in VBuckets
  <2>1. command # None /\ command \in [kind: {"close"}, vb: VBuckets]
    BY <1>0, ZenonT(30) DEF OwnerType
  <2> QED
    BY <2>1
<1> DEFINE closed == [kind |-> "closed", vb |-> command.vb, seqno |-> 0, end |-> 0]
<1>3. closed \in Frame /\ closed.kind = "closed"
  BY <1>2, StreamFrame
<1> HIDE DEF closed
<1>4. \/ /\ partitions' = [partitions EXCEPT ![command.vb] = None]
         /\ held' = closed /\ pc' = "closed"
      \/ pc' = "select" /\ partitions' = partitions /\ held' = held
  BY ZenonT(30) DEF CloseAnswered, closed
<1>5. WorkerType'
  <2>1. partitions' \in [VBuckets -> PartitionProgress \cup {None}]
    BY <1>0, <1>4, ZenonT(30) DEF WorkerType
  <2> QED
    BY <1>0, <1>3, <1>4, <2>1 DEF WorkerType
<1>6. ProducerType' /\ WireType'
  BY <1>0, <1>1, ZenonT(30) DEF ProducerType, WireType
<1>7. OwnerType'
  <2>1. pc' # "request" /\ reply' \in {"none", "ok", "err"}
    BY <1>0, <1>4
  <2> QED
    BY <1>0, <1>2, <2>1, ZenonT(30) DEF OwnerType
<1>8. Held' = Held /\ Held = <<>> /\ Working' /\ Working
  BY <1>0, <1>4 DEF Held, Working
<1>9. ASSUME NEW vb \in VBuckets PROVE Of(vb, net') = Of(vb, net)
  <2>1. ~IsOf(vb, f)
    BY <1>0 DEF IsOf, StreamKinds, ResponseKinds
  <2>2. Of(vb, <<f>>) = <<>>
    BY <1>1, <2>1, OfOne
  <2>3. Of(vb, net) = Of(vb, <<f>>) \o Of(vb, net') /\ Of(vb, net') \in Seq(Frame)
    BY <1>1, OfConcat, OfType, ZenonT(30)
  <2> QED
    BY <2>2, <2>3, ConcatEmpty
<1>10. Ordered'
  BY <1>0, <1>8, <1>9, KeepsOrder, ZenonT(30)
<1>11. CreditConserved'
  <2>1. Bytes(net) = Bytes(<<f>>) + Bytes(net') /\ Bytes(<<f>>) = WireSize(f) /\ Bytes(net') \in Nat
    BY <1>1, BytesConcat, BytesOne, BytesType, ZenonT(30)
  <2>2. WireSize(f) = 0
    BY <1>0 DEF WireSize, ResponseKinds
  <2>3. Bytes(net') = Bytes(net)
    BY <2>1, <2>2
  <2> QED
    BY <1>0, <1>8, <2>3, ZenonT(30) DEF CreditConserved, Working
<1> QED
  BY <1>5, <1>6, <1>7, <1>10, <1>11, ZenonT(30) DEF WorkerInv

-----------------------------------------------------------------------------
(* The owner.                                                              *)

\* The owner takes the first of the queue, or calls and returns.
LEMMA ReadStep ==
  ASSUME WorkerInv, Read
  PROVE  WorkerInv'
<1> DEFINE x == Head(output)
<1>0. /\ ProducerType /\ WorkerType /\ OwnerType /\ WireType /\ Ordered /\ CreditConserved
      /\ output # <<>> /\ output' = Tail(output)
      /\ delivered' = IF x.kind \in StreamKinds
                      THEN [delivered EXCEPT ![x.vb] = Append(@, x)] ELSE delivered
      /\ UNCHANGED <<feed, eof, stream_end_on_close, extra, faults, sent, outstanding, net,
                     failures, pending, pc, held, partitions, credit, opaque, requests, command,
                     reply, owner>>
  BY ZenonT(30) DEF WorkerInv, Read, producerVars, environment, workerVars
<1>1. /\ output \in Seq(Frame) /\ x \in Frame /\ <<x>> \in Seq(Frame)
      /\ output' \in Seq(Frame) /\ output = <<x>> \o output' /\ Len(output') <= Capacity
  BY <1>0, BoundsAssumption DEF WireType
<1> HIDE DEF x
<1>2. x.kind \in StreamKinds => x.vb \in VBuckets
  BY <1>1, FrameFields, ZenonT(30)
<1>3. \A vb \in VBuckets : /\ delivered[vb] \in Seq(Frame)
                           /\ delivered'[vb] = delivered[vb] \o Of(vb, <<x>>)
  <2> SUFFICES ASSUME NEW vb \in VBuckets
               PROVE  /\ delivered[vb] \in Seq(Frame)
                      /\ delivered'[vb] = delivered[vb] \o Of(vb, <<x>>)
    BY ZenonT(30)
  <2>1. delivered[vb] \in Seq(Frame)
    BY <1>0, ZenonT(30) DEF WireType
  <2>2. CASE IsOf(vb, x)
    <3>1. delivered'[vb] = Append(delivered[vb], x)
      BY <1>0, <2>2, ZenonT(30) DEF WireType, IsOf
    <3>2. Of(vb, <<x>>) = <<x>>
      BY <1>1, <2>2, OfOne
    <3> QED
      BY <1>1, <2>1, <3>1, <3>2, AppendOne, ZenonT(30)
  <2>3. CASE ~IsOf(vb, x)
    <3>1. delivered'[vb] = delivered[vb]
      BY <1>0, <2>3, ZenonT(30) DEF WireType, IsOf
    <3>2. Of(vb, <<x>>) = <<>>
      BY <1>1, <2>3, OfOne
    <3> QED
      BY <2>1, <3>1, <3>2
  <2> QED
    BY <2>1, <2>2, <2>3, ZenonT(30)
<1>4. delivered' \in [VBuckets -> Seq(Frame)]
  <2>1. ASSUME x.kind \in StreamKinds PROVE Append(delivered[x.vb], x) \in Seq(Frame)
    BY <1>1, <1>2, <1>3, <2>1
  <2> QED
    BY <1>0, <1>2, <2>1, ZenonT(30) DEF WireType
<1>5. ProducerType' /\ WorkerType' /\ OwnerType' /\ WireType'
  <2>1. ProducerType' /\ WorkerType'
    BY <1>0, ZenonT(30) DEF ProducerType, WorkerType
  <2>2. OwnerType' /\ WireType'
    BY <1>0, <1>1, <1>4, ZenonT(30) DEF OwnerType, WireType
  <2> QED
    BY <2>1, <2>2
<1>6. Held' = Held /\ Working' = Working
  BY <1>0, ZenonT(30) DEF Held, Working
<1>7. Ordered'
  <2> SUFFICES ASSUME NEW vb \in VBuckets
               PROVE  delivered[vb] \o Of(vb, output) = delivered'[vb] \o Of(vb, output')
    BY <1>0, <1>6, ZenonT(30) DEF Ordered
  <2> DEFINE a == delivered[vb]
             b == Of(vb, <<x>>)
             c == Of(vb, output')
  <2>1. Of(vb, output) = b \o c
    BY <1>1, OfConcat, ZenonT(30)
  <2>2. a \in Seq(Frame) /\ b \in Seq(Frame) /\ c \in Seq(Frame) /\ delivered'[vb] = a \o b
    BY <1>1, <1>3, OfType, ZenonT(30)
  <2> HIDE DEF a, b, c
  <2>3. (a \o b) \o c = a \o (b \o c)
    BY <2>2, Concat, ZenonT(60)
  <2> QED
    BY <2>1, <2>2, <2>3, ZenonT(30) DEF a, c
<1>8. CreditConserved'
  BY <1>0, <1>6, ZenonT(30) DEF CreditConserved, Working
<1> QED
  BY <1>5, <1>7, <1>8, ZenonT(30) DEF WorkerInv

\* Calls of the owner only leave a command, and take the reply.
LEMMA CallStep ==
  ASSUME WorkerInv,
         CloseReturns \/ shutdown \/ ShutdownReturns \/ \E vb \in VBuckets : close_vbucket(vb)
  PROVE  WorkerInv'
<1>0. /\ ProducerType /\ WorkerType /\ OwnerType /\ WireType /\ Ordered /\ CreditConserved
      /\ UNCHANGED <<feed, eof, stream_end_on_close, extra, faults, sent, outstanding, net,
                     failures, pending, pc, held, partitions, credit, opaque, requests, output,
                     delivered>>
  BY ZenonT(30) DEF WorkerInv, CloseReturns, shutdown, ShutdownReturns, close_vbucket, producerVars,
               environment, workerVars
<1>1. Held' = Held /\ Working' = Working
  BY <1>0, ZenonT(30) DEF Held, Working
<1>2. ProducerType' /\ WorkerType' /\ WireType' /\ Ordered' /\ CreditConserved'
  BY <1>0, <1>1, ZenonT(30) DEF ProducerType, WorkerType, WireType, Ordered, CreditConserved, Working
<1>3. OwnerType'
  <2>1. CASE CloseReturns
    <3>1. pc # "request"
      BY <1>0, <2>1 DEF OwnerType, CloseReturns
    <3> QED
      BY <1>0, <2>1, <3>1, ZenonT(30) DEF OwnerType, CloseReturns
  <2>2. CASE ShutdownReturns
    <3>1. pc # "request"
      BY <2>2 DEF ShutdownReturns
    <3> QED
      BY <1>0, <2>2, <3>1, ZenonT(30) DEF OwnerType, ShutdownReturns
  <2>3. CASE shutdown
    <3>1. command = None /\ reply = "none" /\ pc # "request" /\ owner' = "stopping"
      BY <1>0, <2>3, ZenonT(30) DEF OwnerType, shutdown
    <3>2. command' \in [kind: {"shutdown"}, vb: {None}] \cup {None} /\ reply' = reply
      BY <2>3 DEF shutdown
    <3> QED
      BY <1>0, <3>1, <3>2, ZenonT(30) DEF OwnerType
  <2>4. ASSUME NEW vb \in VBuckets, close_vbucket(vb) PROVE OwnerType'
    <3>1. command = None /\ reply = "none" /\ pc # "request" /\ owner' = "closing"
      BY <1>0, <2>4, ZenonT(30) DEF OwnerType, close_vbucket
    <3>2. command' \in [kind: {"close"}, vb: VBuckets] /\ reply' = reply
      BY <2>4 DEF close_vbucket
    <3> QED
      BY <1>0, <3>1, <3>2, ZenonT(30) DEF OwnerType
  <2> QED
    BY <2>1, <2>2, <2>3, <2>4, ZenonT(30)
<1> QED
  BY <1>2, <1>3, ZenonT(30) DEF WorkerInv

\* What is queued when the stream is dropped is not delivered.
LEMMA DropStep ==
  ASSUME WorkerInv, drop
  PROVE  WorkerInv'
<1>0. /\ ProducerType /\ WorkerType /\ OwnerType /\ WireType /\ Ordered
      /\ owner' = "dropped" /\ pc' = "done" /\ output' = <<>> /\ command' = None
      /\ UNCHANGED <<feed, eof, stream_end_on_close, extra, faults, sent, outstanding, net,
                     failures, pending, held, partitions, credit, opaque, requests, reply,
                     delivered>>
  BY ZenonT(30) DEF WorkerInv, drop, producerVars, environment
<1>1. ~Working'
  BY <1>0 DEF Working
<1>2. ProducerType' /\ WorkerType' /\ OwnerType'
  BY <1>0 DEF ProducerType, WorkerType, OwnerType
<1>3. WireType'
  <2>1. output' \in Seq(Frame) /\ Len(output') <= Capacity
    BY <1>0, BoundsAssumption
  <2> QED
    BY <1>0, <2>1, ZenonT(30) DEF WireType
<1>4. Ordered'
  <2> SUFFICES ASSUME NEW vb \in VBuckets
               PROVE  \E rest \in Seq(Frame) :
                        sent[vb] = (delivered[vb] \o Of(vb, output')) \o rest
    BY <1>0, <1>1, ZenonT(30) DEF Ordered
  <2>1. PICK rest \in Seq(Frame) : sent[vb] = (delivered[vb] \o Of(vb, output)) \o rest
    BY <1>0, ZenonT(30) DEF Ordered
  <2> DEFINE d == delivered[vb]
             o == Of(vb, output)
  <2>2. d \in Seq(Frame) /\ o \in Seq(Frame)
    BY <1>0, OfType, ZenonT(30) DEF WireType
  <2> HIDE DEF d, o
  <2>3. o \o rest \in Seq(Frame) /\ sent[vb] = d \o (o \o rest)
    BY <2>1, <2>2, Concat, ZenonT(30) DEF d, o
  <2>4. d \o Of(vb, output') = d
    BY <1>0, <2>2, OfEmpty, ConcatEmpty
  <2> QED
    BY <2>3, <2>4, ZenonT(30) DEF d
<1>5. CreditConserved'
  BY <1>0, <1>1, ZenonT(30) DEF CreditConserved, Working
<1> QED
  BY <1>2, <1>3, <1>4, <1>5, ZenonT(30) DEF WorkerInv

-----------------------------------------------------------------------------
(* The theorems.                                                           *)

\* The invariant holds when the streams have been opened.
LEMMA WorkerInit == Init => WorkerInv
<1> SUFFICES ASSUME Init PROVE WorkerInv
  OBVIOUS
<1>1. ProducerType
  <2>1. PICK streams \in (SUBSET VBuckets) \ {{}} :
          feed = [vb \in VBuckets |->
                   [state |-> IF vb \in streams THEN "open" ELSE "ended", last |-> 0,
                    window |-> 0]]
    BY ZenonT(30) DEF Init
  <2>2. \A vb \in VBuckets :
          [state |-> IF vb \in streams THEN "open" ELSE "ended", last |-> 0, window |-> 0] \in Feed
    BY DEF Feed
  <2>3. feed \in [VBuckets -> Feed]
    BY <2>1, <2>2, ZenonT(30)
  <2>4. requests \in Seq(VBuckets \X Nat) /\ extra \in Nat /\ faults \in Nat
    BY DEF Init
  <2> QED
    BY <2>3, <2>4, ZenonT(30) DEF ProducerType
<1>2. WorkerType
  <2>1. PICK streams \in (SUBSET VBuckets) \ {{}} :
          partitions = [vb \in VBuckets |->
                         IF vb \in streams THEN [last_seqno |-> 0, snapshot |-> <<>>] ELSE None]
    BY ZenonT(30) DEF Init
  <2>2. [last_seqno |-> 0, snapshot |-> <<>>] \in PartitionProgress
    BY DEF PartitionProgress
  <2>3. partitions \in [VBuckets -> PartitionProgress \cup {None}]
    BY <2>1, <2>2, ZenonT(30)
  <2>4. pc = "select" /\ held = None /\ credit \in Nat /\ opaque \in Nat
    BY DEF Init
  <2> QED
    BY <2>3, <2>4 DEF WorkerType
<1>3. OwnerType
  BY DEF Init, OwnerType
<1>4. WireType
  <2>1. /\ outstanding \in Nat /\ net \in Seq(Frame) /\ pending \in Seq(Frame)
        /\ output \in Seq(Frame) /\ Len(output) <= Capacity /\ failures \in Nat
    BY BoundsAssumption DEF Init
  <2>2. eof \in BOOLEAN /\ stream_end_on_close \in BOOLEAN
    BY ZenonT(30) DEF Init
  <2>3. <<>> \in Seq(Frame)
    OBVIOUS
  <2>4. sent \in [VBuckets -> Seq(Frame)] /\ delivered \in [VBuckets -> Seq(Frame)]
    BY <2>3, ZenonT(30) DEF Init
  <2> QED
    BY <2>1, <2>2, <2>4, ZenonT(30) DEF WireType
<1>5. Held = <<>>
  BY DEF Init, Held
<1>6. Ordered
  <2> SUFFICES ASSUME NEW vb \in VBuckets
               PROVE  \E rest \in Seq(Frame) :
                        /\ sent[vb] = (delivered[vb] \o Of(vb, output)) \o rest
                        /\ rest = Of(vb, Held) \o (Of(vb, pending) \o Of(vb, net))
    BY ZenonT(30) DEF Ordered
  <2>1. /\ Of(vb, output) = <<>> /\ Of(vb, pending) = <<>> /\ Of(vb, net) = <<>>
        /\ Of(vb, Held) = <<>>
    BY <1>5, OfEmpty DEF Init
  <2>2. sent[vb] = <<>> /\ delivered[vb] = <<>>
    BY DEF Init
  <2>3. <<>> \in Seq(Frame) /\ <<>> \o <<>> = <<>>
    OBVIOUS
  <2> QED
    BY <2>1, <2>2, <2>3
<1>7. CreditConserved
  <2>1. Bytes(net) = 0 /\ Bytes(pending) = 0 /\ Bytes(Held) = 0
    BY <1>5, BytesEmpty DEF Init
  <2> QED
    BY <2>1 DEF CreditConserved, Init
<1> QED
  BY <1>1, <1>2, <1>3, <1>4, <1>6, <1>7, ZenonT(30) DEF WorkerInv

\* Every step keeps the invariant.
LEMMA WorkerStep == WorkerInv /\ [Next]_vars => WorkerInv'
<1> SUFFICES ASSUME WorkerInv, [Next]_vars PROVE WorkerInv'
  OBVIOUS
<1>1. CASE UNCHANGED vars
  <2>0. UNCHANGED <<feed, eof, stream_end_on_close, extra, faults, sent, outstanding, net,
                    failures, pending, pc, held, partitions, credit, opaque, requests, output,
                    command, reply, owner, delivered>>
    BY <1>1, ZenonT(30) DEF vars, producerVars, environment, workerVars, ownerVars
  <2>1. /\ ProducerType /\ WorkerType /\ OwnerType /\ WireType /\ Ordered /\ CreditConserved
    BY ZenonT(30) DEF WorkerInv
  <2>2. ProducerType' /\ WorkerType'
    BY <2>0, <2>1, ZenonT(30) DEF ProducerType, WorkerType
  <2>3. OwnerType' /\ WireType'
    BY <2>0, <2>1, ZenonT(30) DEF OwnerType, WireType
  <2>4. Ordered' /\ CreditConserved'
    BY <2>0, <2>1, ZenonT(30) DEF Ordered, CreditConserved, Working, Held
  <2> QED
    BY <2>2, <2>3, <2>4, ZenonT(30) DEF WorkerInv
<1>2. CASE Producer
  BY <1>2, StreamSends, OtherSends, ZenonT(30) DEF Producer
<1>3. CASE Worker
  BY <1>3, HandleFrameStep, QueueFrameStep, QueueErrorStep, WorkerEnds, CloseStep, SetAsideStep,
     CloseAnsweredStep, QueueClosedStep, ZenonT(30) DEF Worker
<1>4. CASE Owner
  BY <1>4, ReadStep, CallStep, DropStep, ZenonT(30) DEF Owner
<1> QED
  BY <1>1, <1>2, <1>3, <1>4, ZenonT(30) DEF Next

\* What the invariant says of the order.
LEMMA OrderedSent ==
  ASSUME WorkerInv
  PROVE  NothingLostOrReordered /\ DeliveredIsPrefix
<1>0. WorkerType /\ WireType /\ Ordered
  BY ZenonT(30) DEF WorkerInv
<1>1. ASSUME NEW vb \in VBuckets, Working
      PROVE  sent[vb] = delivered[vb] \o Of(vb, output \o Held \o pending \o net)
  <2>1. output \in Seq(Frame) /\ pending \in Seq(Frame) /\ net \in Seq(Frame)
        /\ delivered[vb] \in Seq(Frame)
    BY <1>0, ZenonT(30) DEF WireType
  <2>2. Held \in Seq(Frame)
    BY <1>0 DEF WorkerType, Held
  <2>3. output \o Held \in Seq(Frame) /\ (output \o Held) \o pending \in Seq(Frame)
    BY <2>1, <2>2, Concat, ZenonT(30)
  <2> DEFINE d == delivered[vb]
             o == Of(vb, output)
             h == Of(vb, Held)
             p == Of(vb, pending)
             n == Of(vb, net)
  <2>4. Of(vb, ((output \o Held) \o pending) \o net) = ((o \o h) \o p) \o n
    <3>1. Of(vb, output \o Held) = o \o h
      BY <2>1, <2>2, OfConcat, ZenonT(30)
    <3> DEFINE a == output \o Held
    <3> HIDE DEF a
    <3>2. Of(vb, a \o pending) = Of(vb, a) \o p
      BY <2>1, <2>3, OfConcat, ZenonT(30) DEF a
    <3> DEFINE b == a \o pending
    <3> HIDE DEF b
    <3>3. Of(vb, b \o net) = Of(vb, b) \o n
      BY <2>1, <2>3, OfConcat, ZenonT(30) DEF a, b
    <3> QED
      BY <3>1, <3>2, <3>3, ZenonT(30) DEF a, b
  <2>5. sent[vb] = (d \o o) \o (h \o (p \o n))
    BY <1>0, <1>1, ZenonT(30) DEF Ordered
  <2>6. d \in Seq(Frame) /\ o \in Seq(Frame) /\ h \in Seq(Frame) /\ p \in Seq(Frame) /\ n \in Seq(Frame)
    BY <2>1, <2>2, OfType, ZenonT(30)
  <2> HIDE DEF d, o, h, p, n
  <2>7. p \o n \in Seq(Frame) /\ o \o h \in Seq(Frame)
    BY <2>6, Concat, ZenonT(30)
  <2> DEFINE q == p \o n
             r == h \o q
             g == o \o h
  <2>8. q \in Seq(Frame) /\ g \in Seq(Frame)
    BY <2>7, ZenonT(30)
  <2> HIDE DEF q, g
  <2>9. r \in Seq(Frame)
    BY <2>6, <2>8, Concat, ZenonT(30)
  <2> HIDE DEF r
  <2>10. (d \o o) \o r = d \o (o \o r)
    <3>1. d \in Seq(Frame) /\ o \in Seq(Frame)
      BY <2>6, <2>9, ZenonT(30)
    <3>2. \A c \in Seq(Frame) : (d \o o) \o c = d \o (o \o c)
      BY <3>1, Concat, ZenonT(30)
    <3> QED
      BY <3>2, <2>6, <2>9, ZenonT(30)
  <2>11. (o \o h) \o q = o \o (h \o q)
    <3>1. o \in Seq(Frame) /\ h \in Seq(Frame)
      BY <2>6, <2>8, ZenonT(30)
    <3>2. \A c \in Seq(Frame) : (o \o h) \o c = o \o (h \o c)
      BY <3>1, Concat, ZenonT(30)
    <3> QED
      BY <3>2, <2>6, <2>8, ZenonT(30)
  <2>12. (g \o p) \o n = g \o (p \o n)
    <3>1. g \in Seq(Frame) /\ p \in Seq(Frame)
      BY <2>6, <2>8, ZenonT(30)
    <3>2. \A c \in Seq(Frame) : (g \o p) \o c = g \o (p \o c)
      BY <3>1, Concat, ZenonT(30)
    <3> QED
      BY <3>2, <2>6, <2>8, ZenonT(30)
  <2> QED
    BY <2>4, <2>5, <2>10, <2>11, <2>12, ZenonT(30) DEF d, q, r, g
<1>2. ASSUME NEW vb \in VBuckets
      PROVE  /\ Len(delivered[vb]) <= Len(sent[vb])
             /\ delivered[vb] = SubSeq(sent[vb], 1, Len(delivered[vb]))
  <2>1. PICK rest \in Seq(Frame) : sent[vb] = (delivered[vb] \o Of(vb, output)) \o rest
    BY <1>0, ZenonT(30) DEF Ordered
  <2> DEFINE d == delivered[vb]
             o == Of(vb, output)
             s == sent[vb]
  <2>2. d \in Seq(Frame) /\ o \in Seq(Frame)
    BY <1>0, OfType, ZenonT(30) DEF WireType
  <2>3. s = d \o (o \o rest) /\ o \o rest \in Seq(Frame)
    BY <2>1, <2>2, Concat, ZenonT(60)
  <2> HIDE DEF d, o, s
  <2>4. Len(d) <= Len(s) /\ d = SubSeq(s, 1, Len(d))
    BY <2>2, <2>3
  <2> QED
    BY <2>4, ZenonT(30) DEF d, s
<1> QED
  BY <1>1, <1>2, ZenonT(30) DEF NothingLostOrReordered, DeliveredIsPrefix, Working

\* Until the worker fails or ends, every frame of a stream is delivered, queued, held, set
\* aside or on the wire, once and in the order it was sent, however the steps of the
\* producer, the worker and its owner interleave.
THEOREM OrderTheorem == Spec => []NothingLostOrReordered
<1> QED
  BY WorkerInit, WorkerStep, OrderedSent, PTL DEF Spec

\* What the owner has read of a stream is always a prefix of what was sent, also after the
\* worker has failed.
THEOREM PrefixTheorem == Spec => []DeliveredIsPrefix
<1> QED
  BY WorkerInit, WorkerStep, OrderedSent, PTL DEF Spec

\* No credit is lost or returned twice.
THEOREM CreditTheorem == Spec => []CreditConserved
<1>1. WorkerInv => CreditConserved
  BY ZenonT(30) DEF WorkerInv
<1> QED
  BY <1>1, WorkerInit, WorkerStep, PTL DEF Spec

\* Every variable of the worker, its connection and its owner keeps its type, and the queue
\* its capacity.
THEOREM WorkerTypes == Spec => []TypeOK
<1>1. WorkerInv => TypeOK
  <2> SUFFICES ASSUME ProducerType, WorkerType, OwnerType, WireType PROVE TypeOK
    BY ZenonT(30) DEF WorkerInv
  <2>1. command \in [kind: {"close", "shutdown"}, vb: VBuckets \cup {None}] \cup {None}
    BY DEF OwnerType
  <2> QED
    BY <2>1, ZenonT(30) DEF ProducerType, WorkerType, OwnerType, WireType, TypeOK
<1> QED
  BY <1>1, WorkerInit, WorkerStep, PTL DEF Spec

=============================================================================

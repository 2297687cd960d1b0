------------------------ MODULE StreamProtocolProofs ------------------------
(***************************************************************************)
(* Closes do no harm, for every value of the constants of StreamWorker: a  *)
(* worker whose producer keeps to the protocol and whose connection works  *)
(* never fails, however closes and frames interleave.                      *)
(*                                                                         *)
(* The invariant relates three records of a stream: what the producer      *)
(* remembers (feed), what the worker remembers (partitions), and the       *)
(* frames between them.                                                    *)
(***************************************************************************)
EXTENDS StreamSnapshotProofs

\* For the steps that name no prover: an SMT solver, then Zenon.
USE SMTT(30), ZenonT(30)

\* What a producer that keeps to the protocol sends of a stream.
Lawful(s) ==
  /\ InSnapshots(s)
  /\ \A j \in DOMAIN s :
       /\ s[j].kind # "foreign"
       /\ s[j].kind = "end" => j = Len(s)
       /\ s[j].kind = "event" => s[j].seqno > 0 /\ s[j].seqno <= EndSeqno
       /\ s[j].kind = "marker" =>
            /\ s[j].end <= EndSeqno
            /\ \A i \in 1..(j - 1) : s[i].kind = "event" => s[i].seqno <= s[j].end

\* What the producer remembers of the frames it has sent.
Remembers(r, s) ==
  /\ r.last <= r.window /\ r.window <= EndSeqno
  /\ \A i \in DOMAIN s : s[i].kind = "event" => s[i].seqno <= r.last
  /\ \A i \in DOMAIN s : s[i].kind = "end" => r.state = "ended"
  /\ r.window > 0 => \E i \in DOMAIN s :
       LastMarker(s, i) /\ s[i].seqno <= r.last + 1 /\ s[i].end = r.window

ByProtocol ==
  faults = 0 => \A vb \in VBuckets : Lawful(sent[vb]) /\ Remembers(feed[vb], sent[vb])

NoResponse(s) == \A i \in DOMAIN s : s[i].kind \notin ResponseKinds

OneResponse(s, o) ==
  \E i \in DOMAIN s :
    /\ s[i].seqno = o /\ s[i].kind \in ResponseKinds
    /\ \A j \in DOMAIN s : j # i => s[j].kind \notin ResponseKinds

\* On a connection that works, the worker meets a response only while it waits for it.
Answers ==
  failures = 0 =>
    /\ ~eof
    /\ NoResponse(pending)
    /\ pc \in {"select", "queue", "closed"} => Len(requests) = 0 /\ NoResponse(net)
    /\ pc = "request" =>
         \/ Len(requests) = 1 /\ requests[1][2] = opaque /\ NoResponse(net)
         \/ Len(requests) = 0 /\ OneResponse(net, opaque)

\* The producer keeps to the protocol and the connection works.
Good == stream_end_on_close /\ faults = 0 /\ failures = 0

\* A stream that the worker has dropped has ended, and nothing of it is left.
Ends ==
  Good /\ Working => \A vb \in VBuckets :
    partitions[vb] = None => sent[vb] = Accepted(vb) /\ feed[vb].state = "ended"

ProtocolInv == Accepting /\ ByProtocol /\ Answers /\ Ends /\ CloseLeavesOtherStreams

-----------------------------------------------------------------------------
(* A producer that keeps to the protocol.                                  *)

\* The next frame of a stream whose producer keeps to the protocol passes the checks.
LEMMA LawfulNext ==
  ASSUME NEW s \in Seq(Frame), NEW r \in Seq(Frame), NEW f \in Frame, f.kind \in StreamKinds,
         NEW p \in PartitionProgress, Follows(p, s), Lawful(s \o (<<f>> \o r))
  PROVE  /\ f.kind \in {"marker", "event", "end"}
         /\ f.kind = "marker" => f.end >= p.last_seqno /\ f.end <= EndSeqno
         /\ f.kind = "event" => /\ p.snapshot # <<>>
                                /\ f.seqno >= p.snapshot[1] /\ f.seqno <= p.snapshot[2]
                                /\ f.seqno <= EndSeqno
                                /\ f.seqno > p.last_seqno
<1> DEFINE t == s \o (<<f>> \o r)
           n == Len(s)
           m == n + 1
<1>1. /\ n \in Nat /\ m \in Nat /\ m - 1 = n /\ DOMAIN s = 1..n /\ m \in DOMAIN t
      /\ t[m] = f /\ \A i \in 1..n : t[i] = s[i] /\ s[i] \in Frame
  OBVIOUS
<1>2. Len(s) = n /\ Lawful(t)
  OBVIOUS
<1> HIDE DEF t, n, m
<1>3. /\ p.last_seqno \in Nat /\ f.seqno \in Nat /\ f.end \in Nat
      /\ \A i \in 1..n : s[i].seqno \in Nat /\ s[i].end \in Nat
  <2>1. \A i \in 1..n : s[i].seqno \in Nat /\ s[i].end \in Nat
    BY <1>1, FrameFields, ZenonT(30)
  <2>2. f.seqno \in Nat /\ f.end \in Nat
    BY FrameFields, ZenonT(30)
  <2> QED
    BY <2>1, <2>2 DEF PartitionProgress
<1>4. /\ f.kind # "foreign"
      /\ f.kind = "event" => f.seqno > 0 /\ f.seqno <= EndSeqno
      /\ f.kind = "marker" =>
           f.end <= EndSeqno /\ \A i \in 1..n : t[i].kind = "event" => t[i].seqno <= f.end
  BY <1>1, <1>2, ZenonT(30) DEF Lawful
<1>5. p.last_seqno = 0 \/ \E i \in 1..n : t[i].kind = "event" /\ t[i].seqno = p.last_seqno
  BY <1>1, ZenonT(30) DEF Follows
<1>6. CASE f.kind = "marker"
  <2>1. f.end >= p.last_seqno
    <3>1. CASE p.last_seqno = 0
      BY <1>3, <3>1
    <3>2. CASE p.last_seqno # 0
      <4>1. PICK i \in 1..n : t[i].kind = "event" /\ t[i].seqno = p.last_seqno
        BY <1>5, <3>2, ZenonT(30)
      <4>2. p.last_seqno <= f.end
        BY <1>4, <1>6, <4>1, ZenonT(30)
      <4> QED
        BY <1>3, <4>2
    <3> QED
      BY <3>1, <3>2, ZenonT(30)
  <2> QED
    BY <1>4, <1>6, <2>1
<1>7. CASE f.kind = "event"
  <2>1. /\ \A i \in 1..n : t[i].kind = "event" => t[i].seqno < f.seqno
        /\ \E i \in 1..n :
             /\ t[i].kind = "marker"
             /\ t[i].seqno <= f.seqno /\ f.seqno <= t[i].end
             /\ \A k \in (i + 1)..n : t[k].kind # "marker"
    BY <1>1, <1>2, <1>7, ZenonT(30) DEF Lawful, InSnapshots
  <2>2. PICK i \in 1..n :
          /\ t[i].kind = "marker"
          /\ t[i].seqno <= f.seqno /\ f.seqno <= t[i].end
          /\ \A k \in (i + 1)..n : t[k].kind # "marker"
    BY <2>1, ZenonT(30)
  <2>3. \A k \in (i + 1)..n : k \in 1..n
    BY <1>1
  <2>4. LastMarker(s, i)
    BY <1>1, <1>2, <2>2, <2>3, ZenonT(30) DEF LastMarker
  <2>5. p.snapshot = <<s[i].seqno, s[i].end>>
    BY <1>1, <2>4, ZenonT(30) DEF Follows
  <2>6. s[i].seqno <= f.seqno /\ f.seqno <= s[i].end
    BY <1>1, <2>2, ZenonT(30)
  <2>7. p.snapshot # <<>> /\ f.seqno >= p.snapshot[1] /\ f.seqno <= p.snapshot[2]
    BY <1>3, <2>5, <2>6
  <2>8. f.seqno > p.last_seqno
    <3>1. p.last_seqno # 0 => p.last_seqno < f.seqno
      BY <1>5, <2>1, ZenonT(30)
    <3> QED
      BY <1>3, <1>4, <1>7, <3>1
  <2> QED
    BY <1>4, <1>7, <2>7, <2>8
<1>8. CASE f.kind = "end"
  BY <1>8
<1> QED
  BY <1>4, <1>6, <1>7, <1>8 DEF StreamKinds

\* What the producer sends next, and remembers of it, keeps to the protocol.
LEMMA LawfulSends ==
  ASSUME NEW s \in Seq(Frame), NEW f \in Frame, NEW r \in Feed, NEW q \in Feed,
         Lawful(s), Remembers(r, s), r.state # "ended",
         \/ /\ f.kind = "marker" /\ r.last = r.window /\ f.seqno = r.last + 1
            /\ f.end \in (r.last + 1)..EndSeqno
            /\ q.last = r.last /\ q.window = f.end
         \/ /\ f.kind = "event" /\ f.seqno \in (r.last + 1)..r.window
            /\ q.last = f.seqno /\ q.window = r.window
         \/ f.kind = "end" /\ q.last = r.last /\ q.window = r.window /\ q.state = "ended"
  PROVE  Lawful(Append(s, f)) /\ Remembers(q, Append(s, f))
<1> DEFINE t == Append(s, f)
           n == Len(s)
           m == n + 1
<1>1. /\ Len(t) = m /\ n \in Nat /\ m \in Nat /\ DOMAIN t = 1..m /\ DOMAIN s = 1..n
      /\ t[m] = f /\ \A i \in 1..n : t[i] = s[i] /\ s[i] \in Frame
  BY AppendFacts
<1>2. /\ f.kind # "marker" => \A i : LastMarker(t, i) <=> LastMarker(s, i)
      /\ f.kind = "marker" => \A i : LastMarker(t, i) <=> i = m
  BY LastMarkerAppend, ZenonT(30)
<1>3. Len(s) = n
  OBVIOUS
<1> HIDE DEF t, n, m
<1>4. /\ \A i \in 1..m : i \in 1..n \/ i = m
      /\ \A i \in 1..n : i \in 1..m
      /\ m \in 1..m /\ m - 1 = n
  BY <1>1, <1>3 DEF m
<1>5. /\ \A i \in 1..n : s[i].seqno \in Nat
      /\ f.seqno \in Nat /\ f.end \in Nat
  BY <1>1, FrameFields, ZenonT(30)
<1>6. r.last \in Nat /\ r.window \in Nat /\ q.last \in Nat /\ q.window \in Nat /\ EndSeqno \in Nat
  BY BoundsAssumption DEF Feed
<1>7. /\ r.last <= r.window /\ r.window <= EndSeqno
      /\ \A i \in 1..n : s[i].kind = "event" => s[i].seqno <= r.last
      /\ \A i \in 1..n : s[i].kind # "end"
      /\ r.window > 0 => \E i \in 1..n :
           LastMarker(s, i) /\ s[i].seqno <= r.last + 1 /\ s[i].end = r.window
  BY <1>1, ZenonT(30) DEF Remembers
<1>8. /\ f.kind \in {"marker", "event", "end"}
      /\ f.kind = "marker" => /\ f.seqno = r.last + 1 /\ r.last <= f.end /\ 0 < f.end
                              /\ f.end <= EndSeqno /\ q.last = r.last /\ q.window = f.end
      /\ f.kind = "event" => /\ r.last < f.seqno /\ f.seqno <= r.window /\ f.seqno > 0
                             /\ f.seqno <= EndSeqno /\ r.window > 0 /\ r.last + 1 <= f.seqno
                             /\ q.last = f.seqno /\ q.window = r.window
      /\ f.kind = "end" => q.last = r.last /\ q.window = r.window /\ q.state = "ended"
  BY <1>5, <1>6, <1>7
<1>9. InSnapshots(t)
  <2>1. ASSUME f.kind = "event", NEW i \in 1..n, s[i].kind = "event" PROVE s[i].seqno < f.seqno
    <3>1. s[i].seqno <= r.last
      BY <1>7, <2>1, ZenonT(30)
    <3> QED
      BY <1>5, <1>6, <1>8, <2>1, <3>1
  <2>2. ASSUME f.kind = "event"
        PROVE  \E i \in 1..n : LastMarker(s, i) /\ s[i].seqno <= f.seqno /\ f.seqno <= s[i].end
    <3>1. PICK i \in 1..n : LastMarker(s, i) /\ s[i].seqno <= r.last + 1 /\ s[i].end = r.window
      BY <1>7, <1>8, <2>2, ZenonT(30)
    <3>2. s[i].seqno <= f.seqno /\ f.seqno <= s[i].end
      BY <1>5, <1>6, <1>8, <2>2, <3>1
    <3> QED
      BY <3>1, <3>2, ZenonT(30)
  <2>3. InSnapshots(s)
    BY ZenonT(30) DEF Lawful
  <2> QED
    BY <1>1, <2>1, <2>2, <2>3, SnapshotsAppend, ZenonT(30) DEF t
<1>10. ASSUME NEW j \in 1..m
       PROVE  /\ t[j].kind # "foreign"
              /\ t[j].kind = "end" => j = m
              /\ t[j].kind = "event" => t[j].seqno > 0 /\ t[j].seqno <= EndSeqno
              /\ t[j].kind = "marker" =>
                   /\ t[j].end <= EndSeqno
                   /\ \A i \in 1..(j - 1) : t[i].kind = "event" => t[i].seqno <= t[j].end
  <2>1. CASE j \in 1..n
    <3>1. /\ s[j].kind # "foreign"
          /\ s[j].kind # "end"
          /\ s[j].kind = "event" => s[j].seqno > 0 /\ s[j].seqno <= EndSeqno
          /\ s[j].kind = "marker" =>
               /\ s[j].end <= EndSeqno
               /\ \A i \in 1..(j - 1) : s[i].kind = "event" => s[i].seqno <= s[j].end
      BY <1>1, <1>7, <2>1, ZenonT(30) DEF Lawful
    <3>2. \A i \in 1..(j - 1) : i \in 1..n
      BY <1>1, <2>1
    <3> QED
      BY <1>1, <2>1, <3>1, <3>2, ZenonT(30)
  <2>2. CASE j = m
    <3>1. t[j] = f /\ j - 1 = n
      BY <1>1, <1>4, <2>2, ZenonT(30)
    <3>2. ASSUME f.kind = "marker", NEW i \in 1..n, s[i].kind = "event" PROVE s[i].seqno <= f.end
      <4>1. s[i].seqno <= r.last
        BY <1>7, <3>2, ZenonT(30)
      <4> QED
        BY <1>5, <1>6, <1>8, <3>2, <4>1
    <3>3. f.kind # "foreign"
      BY <1>8
    <3> QED
      BY <1>1, <1>8, <2>2, <3>1, <3>2, <3>3, ZenonT(30)
  <2> QED
    BY <1>4, <2>1, <2>2, ZenonT(30)
<1>11. Lawful(t)
  BY <1>1, <1>9, <1>10, ZenonT(30) DEF Lawful
<1>12. q.last <= q.window /\ q.window <= EndSeqno /\ r.last <= q.last
  BY <1>5, <1>6, <1>7, <1>8
<1>13. ASSUME NEW i \in 1..m, t[i].kind = "event" PROVE t[i].seqno <= q.last
  <2>1. CASE i \in 1..n
    <3>1. t[i] = s[i] /\ s[i].seqno <= r.last
      BY <1>1, <1>7, <1>13, <2>1, ZenonT(30)
    <3> QED
      BY <1>5, <1>6, <1>12, <2>1, <3>1
  <2>2. CASE i = m
    <3>1. t[i] = f /\ f.kind = "event"
      BY <1>1, <1>13, <2>2, ZenonT(30)
    <3> QED
      BY <1>5, <1>6, <1>8, <3>1
  <2> QED
    BY <1>4, <2>1, <2>2, ZenonT(30)
<1>14. ASSUME NEW i \in 1..m, t[i].kind = "end" PROVE q.state = "ended"
  BY <1>1, <1>4, <1>7, <1>8, <1>14, ZenonT(30)
<1>15. ASSUME q.window > 0
       PROVE  \E i \in 1..m : LastMarker(t, i) /\ t[i].seqno <= q.last + 1 /\ t[i].end = q.window
  <2>1. CASE f.kind = "marker"
    <3>1. f.seqno <= q.last + 1
      BY <1>6, <1>8, <2>1
    <3> QED
      BY <1>1, <1>2, <1>4, <1>8, <2>1, <3>1, ZenonT(30)
  <2>2. CASE f.kind # "marker"
    <3>1. q.window = r.window /\ r.window > 0
      BY <1>8, <1>15, <2>2
    <3>2. PICK i \in 1..n : LastMarker(s, i) /\ s[i].seqno <= r.last + 1 /\ s[i].end = r.window
      BY <1>7, <3>1, ZenonT(30)
    <3>3. s[i].seqno <= q.last + 1
      BY <1>5, <1>6, <1>12, <3>2
    <3> QED
      BY <1>1, <1>2, <1>4, <2>2, <3>1, <3>2, <3>3, ZenonT(30)
  <2> QED
    BY <2>1, <2>2, ZenonT(30)
<1>16. Remembers(q, t)
  BY <1>1, <1>12, <1>13, <1>14, <1>15, ZenonT(30) DEF Remembers
<1> QED
  BY <1>11, <1>16, ZenonT(30) DEF t

\* Only the producer sends, and remembers.
LEMMA EnvironmentStep ==
  ASSUME [Next]_vars
  PROVE  /\ stream_end_on_close' = stream_end_on_close
         /\ (Producer /\ ~Disconnect) \/ UNCHANGED <<feed, sent, faults>>
<1>1. ASSUME NEW f, Send(f) PROVE stream_end_on_close' = stream_end_on_close
  BY <1>1, ZenonT(30) DEF Send
<1>2. CASE Producer
  <2>1. CASE Disconnect
    BY <2>1, ZenonT(30) DEF Disconnect
  <2>2. CASE ~Disconnect
    <3>1. stream_end_on_close' = stream_end_on_close
      BY <1>1, <1>2, <2>2, ZenonT(30) DEF Producer, SendMarker, SendEvent, SendEnd, SendFaulty,
                                      SendExtra, AnswerClose
    <3> QED
      BY <1>2, <2>2, <3>1, ZenonT(30)
  <2> QED
    BY <2>1, <2>2, ZenonT(30)
<1>3. CASE HandleFrame \/ QueueFrame \/ QueueError \/ ConnectionFails \/ AllStreamsEnded
  BY <1>3, ZenonT(30) DEF HandleFrame, QueueFrame, QueueError, ConnectionFails, AllStreamsEnded,
                     producerVars, environment
<1>4. CASE HandleShutdown \/ HandleClose \/ SetAside \/ CloseAnswered \/ CloseFails \/ QueueClosed
  BY <1>4, ZenonT(30) DEF HandleShutdown, HandleClose, SetAside, CloseAnswered, CloseFails,
                     QueueClosed, producerVars, environment
<1>5. CASE Owner
  BY <1>5, ZenonT(30) DEF Owner, Read, CloseReturns, shutdown, ShutdownReturns, drop, close_vbucket,
                     producerVars, environment
<1>6. CASE UNCHANGED vars
  BY <1>6, ZenonT(30) DEF vars, producerVars, environment
<1> QED
  BY <1>2, <1>3, <1>4, <1>5, <1>6, ZenonT(30) DEF Next, Worker

\* A frame of a stream is sent after the others of its stream.
LEMMA SentStep ==
  ASSUME WorkerInv, NEW w \in VBuckets, NEW f, f.vb = w, Send(f)
  PROVE  /\ sent'[w] = Append(sent[w], f)
         /\ \A vb \in VBuckets : vb # w => sent'[vb] = sent[vb]
<1>1. sent \in [VBuckets -> Seq(Frame)]
  BY ZenonT(30) DEF WorkerInv, WireType
<1>2. sent' = [sent EXCEPT ![w] = Append(sent[w], f)]
  BY NoneAssumption, ZenonT(30) DEF Send
<1> QED
  BY <1>1, <1>2, ZenonT(30)

\* The frames of a stream that the producer sends keep to the protocol.
LEMMA StreamSendsLawful ==
  ASSUME WorkerInv, NEW w \in VBuckets, SendMarker(w) \/ SendEvent(w) \/ SendEnd(w),
         NEW vb \in VBuckets, Lawful(sent[vb]), Remembers(feed[vb], sent[vb])
  PROVE  Lawful(sent'[vb]) /\ Remembers(feed'[vb], sent'[vb])
<1>0. /\ feed \in [VBuckets -> Feed] /\ sent \in [VBuckets -> Seq(Frame)]
      /\ feed[w] \in Feed /\ sent[w] \in Seq(Frame) /\ EndSeqno \in Nat
  BY BoundsAssumption, ZenonT(30) DEF WorkerInv, ProducerType, WireType
<1> DEFINE r == feed[w]
<1>1. ASSUME NEW f \in Frame, f.vb = w, Send(f), NEW q \in Feed, r.state # "ended",
             feed' = [feed EXCEPT ![w] = q],
             \/ /\ f.kind = "marker" /\ r.last = r.window /\ f.seqno = r.last + 1
                /\ f.end \in (r.last + 1)..EndSeqno
                /\ q.last = r.last /\ q.window = f.end
             \/ /\ f.kind = "event" /\ f.seqno \in (r.last + 1)..r.window
                /\ q.last = f.seqno /\ q.window = r.window
             \/ f.kind = "end" /\ q.last = r.last /\ q.window = r.window /\ q.state = "ended"
      PROVE  Lawful(sent'[vb]) /\ Remembers(feed'[vb], sent'[vb])
  <2>1. /\ sent'[w] = Append(sent[w], f)
        /\ \A v \in VBuckets : v # w => sent'[v] = sent[v]
    BY <1>1, SentStep, ZenonT(30)
  <2>2. feed'[w] = q /\ \A v \in VBuckets : v # w => feed'[v] = feed[v]
    BY <1>0, <1>1, ZenonT(30)
  <2>3. CASE vb # w
    BY <2>1, <2>2, <2>3, ZenonT(30)
  <2>4. CASE vb = w
    <3>1. r \in Feed /\ Lawful(sent[w]) /\ Remembers(r, sent[w])
      BY <1>0, <2>4, ZenonT(30)
    <3> HIDE DEF r
    <3>2. Lawful(Append(sent[w], f)) /\ Remembers(q, Append(sent[w], f))
      BY <1>0, <1>1, <3>1, LawfulSends, ZenonT(30)
    <3> QED
      BY <2>1, <2>2, <2>4, <3>2, ZenonT(30)
  <2> QED
    BY <2>3, <2>4, ZenonT(30)
<1>2. r.last \in Nat /\ r.window \in Nat
  BY <1>0 DEF Feed
<1>3. CASE SendMarker(w)
  <2>1. PICK end \in (r.last + 1)..EndSeqno :
          /\ Send([kind |-> "marker", vb |-> w, seqno |-> r.last + 1, end |-> end])
          /\ feed' = [feed EXCEPT ![w].window = end]
    BY <1>3, ZenonT(30) DEF SendMarker
  <2>2. r.state = "open" /\ r.last = r.window
    BY <1>3, ZenonT(30) DEF SendMarker
  <2>3. end \in Nat /\ r.last + 1 \in Nat
    BY <1>0, <1>2
  <2> DEFINE f == [kind |-> "marker", vb |-> w, seqno |-> r.last + 1, end |-> end]
             q == [feed[w] EXCEPT !.window = end]
  <2>4. f \in Frame
    BY <2>3, StreamFrame DEF StreamKinds
  <2>5. f.kind = "marker" /\ f.vb = w /\ f.seqno = r.last + 1 /\ f.end = end /\ Send(f)
    BY <2>1
  <2>6. q \in Feed /\ q.last = r.last /\ q.window = end
    BY <1>0, <2>3 DEF Feed
  <2>7. feed' = [feed EXCEPT ![w] = q]
    BY <2>1, ZenonT(30)
  <2>8. r.state # "ended"
    BY <2>2
  <2> HIDE DEF f, q, r
  <2>9. /\ f.kind = "marker" /\ r.last = r.window /\ f.seqno = r.last + 1
        /\ f.end \in (r.last + 1)..EndSeqno
        /\ q.last = r.last /\ q.window = f.end
    BY <2>2, <2>5, <2>6, ZenonT(30)
  <2> QED
    BY <1>1, <2>4, <2>5, <2>6, <2>7, <2>8, <2>9, ZenonT(30)
<1>4. CASE SendEvent(w)
  <2>1. PICK seqno \in (r.last + 1)..r.window :
          /\ Send([kind |-> "event", vb |-> w, seqno |-> seqno, end |-> 0])
          /\ feed' = [feed EXCEPT ![w].last = seqno]
    BY <1>4, ZenonT(30) DEF SendEvent
  <2>2. r.state # "ended"
    BY <1>4 DEF SendEvent
  <2>3. seqno \in Nat
    BY <1>2
  <2> DEFINE f == [kind |-> "event", vb |-> w, seqno |-> seqno, end |-> 0]
             q == [feed[w] EXCEPT !.last = seqno]
  <2>4. f \in Frame
    BY <2>3, StreamFrame DEF StreamKinds
  <2>5. f.kind = "event" /\ f.vb = w /\ f.seqno = seqno /\ Send(f)
    BY <2>1
  <2>6. q \in Feed /\ q.last = seqno /\ q.window = r.window
    BY <1>0, <2>3 DEF Feed
  <2>7. feed' = [feed EXCEPT ![w] = q]
    BY <2>1, ZenonT(30)
  <2> HIDE DEF f, q, r
  <2>8. /\ f.kind = "event" /\ f.seqno \in (r.last + 1)..r.window
        /\ q.last = f.seqno /\ q.window = r.window
    BY <2>5, <2>6, ZenonT(30)
  <2> QED
    BY <1>1, <2>2, <2>4, <2>5, <2>6, <2>7, <2>8, ZenonT(30)
<1>5. CASE SendEnd(w)
  <2> DEFINE f == [kind |-> "end", vb |-> w, seqno |-> 0, end |-> 0]
             q == [feed[w] EXCEPT !.state = "ended"]
  <2>1. Send(f) /\ feed' = [feed EXCEPT ![w] = q]
    BY <1>5, ZenonT(30) DEF SendEnd
  <2>2. r.state # "ended"
    BY <1>5 DEF SendEnd
  <2>3. f \in Frame
    BY StreamFrame DEF StreamKinds
  <2>4. f.kind = "end" /\ f.vb = w
    OBVIOUS
  <2>5. q \in Feed /\ q.last = r.last /\ q.window = r.window /\ q.state = "ended"
    BY <1>0 DEF Feed
  <2> HIDE DEF f, q
  <2> QED
    BY <1>1, <2>1, <2>2, <2>3, <2>4, <2>5, ZenonT(30)
<1> QED
  BY <1>3, <1>4, <1>5, ZenonT(30)

\* An answer to a close sends nothing of a stream, and ends no stream that had not ended.
LEMMA AnswerCloseFeed ==
  ASSUME WorkerInv, AnswerClose
  PROVE  /\ sent' = sent /\ faults' = faults
         /\ \A vb \in VBuckets :
              \/ feed'[vb] = feed[vb]
              \/ /\ feed[vb].state = "open"
                 /\ feed'[vb].last = feed[vb].last /\ feed'[vb].window = feed[vb].window
<1> DEFINE w == requests[1][1]
           active == feed[w].state = "open"
           f == [kind |-> IF active THEN "ok" ELSE "refused", vb |-> None,
                 seqno |-> requests[1][2], end |-> 0]
           state == IF stream_end_on_close THEN "ending" ELSE "ended"
<1>1. /\ requests # <<>> /\ requests \in Seq(VBuckets \X Nat)
      /\ feed \in [VBuckets -> Feed]
  BY ZenonT(30) DEF AnswerClose, WorkerInv, ProducerType
<1>2. w \in VBuckets
  BY <1>1
<1>3. /\ Send(f) /\ faults' = faults
      /\ feed' = IF active THEN [feed EXCEPT ![w].state = state] ELSE feed
  BY ZenonT(30) DEF AnswerClose
<1>4. f.vb = None
  OBVIOUS
<1>5. sent' = sent
  <2> HIDE DEF f
  <2> QED
    BY <1>3, <1>4, ZenonT(30) DEF Send
<1> DEFINE q == [feed[w] EXCEPT !.state = state]
<1>6. q.last = feed[w].last /\ q.window = feed[w].window
  BY <1>1, <1>2 DEF Feed
<1>7. feed' = IF active THEN [feed EXCEPT ![w] = q] ELSE feed
  BY <1>3, ZenonT(30)
<1> HIDE DEF w, q
<1>8. ASSUME NEW vb \in VBuckets
      PROVE  \/ feed'[vb] = feed[vb]
             \/ /\ feed[vb].state = "open"
                /\ feed'[vb].last = feed[vb].last /\ feed'[vb].window = feed[vb].window
  BY <1>1, <1>2, <1>6, <1>7, ZenonT(30)
<1> QED
  BY <1>3, <1>5, <1>8, ZenonT(30)

\* A producer that has not broken the protocol keeps to it.
LEMMA ByProtocolStep ==
  ASSUME WorkerInv, [Next]_vars, ByProtocol
  PROVE  ByProtocol'
<1> SUFFICES ASSUME faults' = 0, NEW vb \in VBuckets
             PROVE  Lawful(sent'[vb]) /\ Remembers(feed'[vb], sent'[vb])
  BY ZenonT(30) DEF ByProtocol
<1>0. faults \in Nat
  BY ZenonT(30) DEF WorkerInv, ProducerType
<1>1. CASE UNCHANGED <<feed, sent, faults>>
  BY <1>1, ZenonT(30) DEF ByProtocol
<1>2. CASE \E w \in VBuckets : SendMarker(w) \/ SendEvent(w) \/ SendEnd(w)
  <2>1. PICK w \in VBuckets : SendMarker(w) \/ SendEvent(w) \/ SendEnd(w)
    BY <1>2, ZenonT(30)
  <2>2. faults = 0
    BY <2>1, ZenonT(30) DEF SendMarker, SendEvent, SendEnd
  <2>3. Lawful(sent[vb]) /\ Remembers(feed[vb], sent[vb])
    BY <2>2, ZenonT(30) DEF ByProtocol
  <2> QED
    BY <2>1, <2>3, StreamSendsLawful, ZenonT(30)
<1>3. CASE \E w \in VBuckets : SendFaulty(w)
  <2>1. faults' = faults + 1
    BY <1>3, ZenonT(30) DEF SendFaulty
  <2> QED
    BY <1>0, <2>1
<1>4. CASE \E kind \in ExtraKinds : SendExtra(kind)
  <2>1. PICK kind \in ExtraKinds : SendExtra(kind)
    BY <1>4, ZenonT(30)
  <2> DEFINE f == [kind |-> kind, vb |-> None, seqno |-> 0, end |-> 0]
  <2>2. Send(f) /\ UNCHANGED <<feed, faults>> /\ f.vb = None
    BY <2>1 DEF SendExtra
  <2> HIDE DEF f
  <2>3. sent' = sent
    BY <2>2, ZenonT(30) DEF Send
  <2> QED
    BY <2>2, <2>3, ZenonT(30) DEF ByProtocol
<1>5. CASE AnswerClose
  <2>1. /\ sent' = sent /\ faults' = faults
        /\ \/ feed'[vb] = feed[vb]
           \/ /\ feed[vb].state = "open"
              /\ feed'[vb].last = feed[vb].last /\ feed'[vb].window = feed[vb].window
    BY <1>5, AnswerCloseFeed, ZenonT(30)
  <2>2. Lawful(sent[vb]) /\ Remembers(feed[vb], sent[vb])
    BY <2>1, ZenonT(30) DEF ByProtocol
  <2>3. feed[vb].state = "open" => \A i \in DOMAIN sent[vb] : sent[vb][i].kind # "end"
    BY <2>2 DEF Remembers
  <2> QED
    BY <2>1, <2>2, <2>3, ZenonT(30) DEF Remembers
<1> QED
  BY <1>1, <1>2, <1>3, <1>4, <1>5, EnvironmentStep, ZenonT(30) DEF Producer

-----------------------------------------------------------------------------
(* Requests and their answers.                                             *)

\* Frames that come after the others.
LEMMA ResponsesAppend ==
  ASSUME NEW s \in Seq(Frame), NEW f \in Frame, NEW o
  PROVE  /\ NoResponse(s) /\ f.kind \notin ResponseKinds => NoResponse(Append(s, f))
         /\ OneResponse(s, o) /\ f.kind \notin ResponseKinds => OneResponse(Append(s, f), o)
         /\ NoResponse(s) /\ f.kind \in ResponseKinds /\ f.seqno = o => OneResponse(Append(s, f), o)
<1> DEFINE t == Append(s, f)
           n == Len(s)
           m == n + 1
<1>1. /\ n \in Nat /\ DOMAIN t = 1..m /\ DOMAIN s = 1..n
      /\ t[m] = f /\ \A i \in 1..n : t[i] = s[i]
  BY AppendFacts
<1>2. /\ \A i \in 1..m : i \in 1..n \/ i = m
      /\ \A i \in 1..n : i \in 1..m /\ i # m
      /\ m \in 1..m
  BY <1>1
<1> HIDE DEF t, n, m
<1>3. ASSUME NoResponse(s), f.kind \notin ResponseKinds PROVE NoResponse(t)
  BY <1>1, <1>2, <1>3, ZenonT(30) DEF NoResponse
<1>4. ASSUME OneResponse(s, o), f.kind \notin ResponseKinds PROVE OneResponse(t, o)
  <2>1. PICK i \in 1..n : /\ s[i].seqno = o /\ s[i].kind \in ResponseKinds
                          /\ \A j \in 1..n : j # i => s[j].kind \notin ResponseKinds
    BY <1>1, <1>4, ZenonT(30) DEF OneResponse
  <2>2. ASSUME NEW j \in 1..m, j # i PROVE t[j].kind \notin ResponseKinds
    BY <1>1, <1>2, <1>4, <2>1, <2>2, ZenonT(30)
  <2> QED
    BY <1>1, <1>2, <2>1, <2>2, ZenonT(30) DEF OneResponse
<1>5. ASSUME NoResponse(s), f.kind \in ResponseKinds, f.seqno = o PROVE OneResponse(t, o)
  <2>1. ASSUME NEW j \in 1..m, j # m PROVE t[j].kind \notin ResponseKinds
    BY <1>1, <1>2, <1>5, <2>1, ZenonT(30) DEF NoResponse
  <2> QED
    BY <1>1, <1>2, <1>5, <2>1, ZenonT(30) DEF OneResponse
<1> QED
  BY <1>3, <1>4, <1>5, ZenonT(30) DEF t

\* The first frame is taken.
LEMMA ResponsesTail ==
  ASSUME NEW s \in Seq(Frame), s # <<>>, NEW o
  PROVE  /\ NoResponse(s) => NoResponse(Tail(s)) /\ Head(s).kind \notin ResponseKinds
         /\ OneResponse(s, o) /\ Head(s).kind \in ResponseKinds =>
              Head(s).seqno = o /\ NoResponse(Tail(s))
         /\ OneResponse(s, o) /\ Head(s).kind \notin ResponseKinds => OneResponse(Tail(s), o)
<1> DEFINE t == Tail(s)
           n == Len(s)
           m == n - 1
<1>1. /\ n \in Nat /\ n # 0 /\ m \in Nat /\ DOMAIN t = 1..m /\ DOMAIN s = 1..n /\ Head(s) = s[1]
      /\ \A i \in 1..m : t[i] = s[i + 1]
  OBVIOUS
<1>2. /\ \A i \in 1..m : i + 1 \in 1..n /\ i + 1 # 1
      /\ \A i \in 1..n : i # 1 => i - 1 \in 1..m /\ (i - 1) + 1 = i
      /\ 1 \in 1..n
  BY <1>1
<1> HIDE DEF t, n, m
<1>3. ASSUME NoResponse(s) PROVE NoResponse(t) /\ Head(s).kind \notin ResponseKinds
  BY <1>1, <1>2, <1>3, ZenonT(30) DEF NoResponse
<1>4. ASSUME OneResponse(s, o), Head(s).kind \in ResponseKinds
      PROVE  Head(s).seqno = o /\ NoResponse(t)
  <2>1. PICK i \in 1..n : /\ s[i].seqno = o /\ s[i].kind \in ResponseKinds
                          /\ \A j \in 1..n : j # i => s[j].kind \notin ResponseKinds
    BY <1>1, <1>4, ZenonT(30) DEF OneResponse
  <2>2. i = 1
    BY <1>1, <1>2, <1>4, <2>1, ZenonT(30)
  <2>3. ASSUME NEW j \in 1..m PROVE t[j].kind \notin ResponseKinds
    <3>1. j + 1 \in 1..n /\ j + 1 # i /\ t[j] = s[j + 1]
      BY <1>1, <1>2, <2>2, ZenonT(30)
    <3> QED
      BY <2>1, <3>1, ZenonT(30)
  <2> QED
    BY <1>1, <2>1, <2>2, <2>3, ZenonT(30) DEF NoResponse
<1>5. ASSUME OneResponse(s, o), Head(s).kind \notin ResponseKinds PROVE OneResponse(t, o)
  <2>1. PICK i \in 1..n : /\ s[i].seqno = o /\ s[i].kind \in ResponseKinds
                          /\ \A j \in 1..n : j # i => s[j].kind \notin ResponseKinds
    BY <1>1, <1>5, ZenonT(30) DEF OneResponse
  <2>2. i # 1
    BY <1>1, <1>2, <1>5, <2>1, ZenonT(30)
  <2> DEFINE k == i - 1
  <2>3. k \in 1..m /\ k + 1 = i /\ \A j \in 1..m : j # k => j + 1 # i
    BY <1>1, <1>2, <2>2
  <2>5. t[k] = s[i]
    BY <1>1, <2>3
  <2> HIDE DEF k
  <2>4. ASSUME NEW j \in 1..m, j # k PROVE t[j].kind \notin ResponseKinds
    <3>1. j + 1 \in 1..n /\ t[j] = s[j + 1]
      BY <1>1, <1>2, ZenonT(30)
    <3> QED
      BY <2>1, <2>3, <2>4, <3>1, ZenonT(30)
  <2> QED
    BY <1>1, <2>1, <2>3, <2>4, <2>5, ZenonT(30) DEF OneResponse
<1> QED
  BY <1>3, <1>4, <1>5, ZenonT(30) DEF t

\* What counts as a failure of the connection or a fault of the producer stays counted.
LEMMA GoodBefore ==
  ASSUME WorkerInv, [Next]_vars
  PROVE  /\ failures' = 0 => failures = 0 /\ failures' = failures
         /\ faults' = 0 => faults = 0
         /\ Good' => Good
<1>0. failures \in Nat /\ faults \in Nat
  BY ZenonT(30) DEF WorkerInv, ProducerType, WireType
<1>1. failures' = failures \/ failures' = failures + 1
  <2>1. ASSUME NEW f, Send(f) PROVE failures' = failures
    BY <2>1, ZenonT(30) DEF Send
  <2>2. CASE Producer
    BY <2>1, <2>2, ZenonT(30) DEF Producer, SendMarker, SendEvent, SendEnd, SendFaulty, SendExtra,
                             AnswerClose, Disconnect
  <2>3. CASE HandleFrame \/ QueueFrame \/ QueueError \/ ConnectionFails \/ AllStreamsEnded
    BY <2>3, ZenonT(30) DEF HandleFrame, QueueFrame, QueueError, ConnectionFails, AllStreamsEnded
  <2>4. CASE HandleShutdown \/ HandleClose \/ SetAside \/ CloseAnswered \/ CloseFails \/ QueueClosed
    BY <2>4, ZenonT(30) DEF HandleShutdown, HandleClose, SetAside, CloseAnswered, CloseFails,
                       QueueClosed
  <2>5. CASE Owner
    BY <2>5, ZenonT(30) DEF Owner, Read, CloseReturns, shutdown, ShutdownReturns, drop, close_vbucket
  <2>6. CASE UNCHANGED vars
    BY <2>6, ZenonT(30) DEF vars
  <2> QED
    BY <2>2, <2>3, <2>4, <2>5, <2>6, ZenonT(30) DEF Next, Worker
<1>2. faults' = faults \/ faults' = faults + 1
  <2>1. CASE Producer /\ ~Disconnect
    BY <2>1, ZenonT(30) DEF Producer, SendMarker, SendEvent, SendEnd, SendFaulty, SendExtra,
                       AnswerClose
  <2> QED
    BY <2>1, EnvironmentStep, ZenonT(30)
<1>3. /\ failures' = 0 => failures = 0 /\ failures' = failures
      /\ faults' = 0 => faults = 0
  BY <1>0, <1>1, <1>2
<1>4. stream_end_on_close' = stream_end_on_close
  BY EnvironmentStep, ZenonT(30)
<1> QED
  BY <1>3, <1>4, ZenonT(30) DEF Good

\* All that the producer sends but its answers.
LEMMA PlainSends ==
  ASSUME WorkerInv, Producer, ~AnswerClose, ~Disconnect
  PROVE  \E f \in Frame : f.kind \notin ResponseKinds /\ Send(f) /\ requests' = requests
<1>0. EndSeqno \in Nat /\ feed \in [VBuckets -> Feed]
  BY BoundsAssumption, ZenonT(30) DEF WorkerInv, ProducerType
<1>1. ASSUME NEW kind \in StreamKinds, NEW vb \in VBuckets, NEW seqno \in Nat, NEW end \in Nat
      PROVE  /\ [kind |-> kind, vb |-> vb, seqno |-> seqno, end |-> end] \in Frame
             /\ [kind |-> kind, vb |-> vb, seqno |-> seqno, end |-> end].kind \notin ResponseKinds
  BY StreamFrame DEF StreamKinds, ResponseKinds
<1>2. CASE \E vb \in VBuckets : SendMarker(vb)
  <2>1. PICK vb \in VBuckets : SendMarker(vb)
    BY <1>2
  <2>2. PICK end \in (feed[vb].last + 1)..EndSeqno :
          Send([kind |-> "marker", vb |-> vb, seqno |-> feed[vb].last + 1, end |-> end])
    BY <2>1, ZenonT(30) DEF SendMarker
  <2>3. feed[vb].last + 1 \in Nat /\ end \in Nat /\ "marker" \in StreamKinds
    BY <1>0 DEF Feed, StreamKinds
  <2> QED
    BY <1>1, <2>1, <2>2, <2>3, ZenonT(30) DEF SendMarker
<1>3. CASE \E vb \in VBuckets : SendEvent(vb)
  <2>1. PICK vb \in VBuckets : SendEvent(vb)
    BY <1>3
  <2>2. PICK seqno \in (feed[vb].last + 1)..feed[vb].window :
          Send([kind |-> "event", vb |-> vb, seqno |-> seqno, end |-> 0])
    BY <2>1, ZenonT(30) DEF SendEvent
  <2>3. seqno \in Nat /\ 0 \in Nat /\ "event" \in StreamKinds
    BY <1>0 DEF Feed, StreamKinds
  <2> QED
    BY <1>1, <2>1, <2>2, <2>3, ZenonT(30) DEF SendEvent
<1>4. CASE \E vb \in VBuckets : SendEnd(vb)
  <2>1. 0 \in Nat /\ "end" \in StreamKinds
    BY DEF StreamKinds
  <2> QED
    BY <1>1, <1>4, <2>1, ZenonT(30) DEF SendEnd
<1>5. CASE \E vb \in VBuckets : SendFaulty(vb)
  <2>1. PICK vb \in VBuckets : SendFaulty(vb)
    BY <1>5
  <2>2. PICK f \in FaultyFrames(vb) : Send(f)
    BY <2>1, ZenonT(30) DEF SendFaulty
  <2>3. f \in [kind: {"event", "marker", "foreign"}, vb: {vb}, seqno: 0..EndSeqno,
                end: 0..(EndSeqno + 1)]
    BY ZenonT(30) DEF FaultyFrames
  <2>4. f \in Frame /\ f.kind \notin ResponseKinds
    BY <1>0, <2>3 DEF StreamKinds, ResponseKinds, Frame
  <2> QED
    BY <2>1, <2>2, <2>4, ZenonT(30) DEF SendFaulty
<1>6. CASE \E kind \in ExtraKinds : SendExtra(kind)
  <2>1. PICK kind \in ExtraKinds : SendExtra(kind)
    BY <1>6
  <2> DEFINE f == [kind |-> kind, vb |-> None, seqno |-> 0, end |-> 0]
  <2>2. f \in Frame /\ f.kind \notin ResponseKinds
    BY OtherFrame DEF ExtraKinds, ResponseKinds
  <2>3. Send(f) /\ requests' = requests
    BY <2>1, ZenonT(30) DEF SendExtra
  <2> QED
    BY <2>2, <2>3, ZenonT(30)
<1> QED
  BY <1>2, <1>3, <1>4, <1>5, <1>6, ZenonT(30) DEF Producer

\* Neither the queue nor the owner nor the end of the worker brings a response.
LEMMA NoRequestStep ==
  ASSUME [Next]_vars, ~Producer, ~HandleFrame, ~HandleClose, ~SetAside, ~CloseAnswered,
         ~CloseFails
  PROVE  /\ UNCHANGED <<eof, net, pending, requests, opaque>>
         /\ \/ pc' = pc \/ pc' \in {"error", "done"}
            \/ pc \in {"queue", "closed"} /\ pc' = "select"
<1>1. CASE QueueFrame
  BY <1>1, ZenonT(30) DEF QueueFrame, record, environment
<1>2. CASE QueueError \/ ConnectionFails \/ AllStreamsEnded
  BY <1>2, ZenonT(30) DEF QueueError, ConnectionFails, AllStreamsEnded, producerVars, environment
<1>3. CASE HandleShutdown \/ QueueClosed
  BY <1>3, ZenonT(30) DEF HandleShutdown, QueueClosed, producerVars, environment
<1>4. CASE Owner
  BY <1>4, ZenonT(30) DEF Owner, Read, CloseReturns, shutdown, ShutdownReturns, drop, close_vbucket,
                     producerVars, environment, workerVars
<1>5. CASE UNCHANGED vars
  BY <1>5, ZenonT(30) DEF vars, producerVars, environment, workerVars
<1> QED
  BY <1>1, <1>2, <1>3, <1>4, <1>5, ZenonT(30) DEF Next, Worker

\* On a connection that works every response is the one the worker waits for.
LEMMA AnswersStep ==
  ASSUME WorkerInv, [Next]_vars, Answers
  PROVE  Answers'
<1> SUFFICES ASSUME failures' = 0
             PROVE  /\ ~eof' /\ NoResponse(pending')
                    /\ pc' \in {"select", "queue", "closed"} => Len(requests') = 0 /\ NoResponse(net')
                    /\ pc' = "request" =>
                         \/ Len(requests') = 1 /\ requests'[1][2] = opaque' /\ NoResponse(net')
                         \/ Len(requests') = 0 /\ OneResponse(net', opaque')
  BY ZenonT(30) DEF Answers
<1>1. failures = 0 /\ failures' = failures
  BY GoodBefore, ZenonT(30)
<1>2. /\ ~eof /\ NoResponse(pending)
      /\ pc \in {"select", "queue", "closed"} => Len(requests) = 0 /\ NoResponse(net)
      /\ pc = "request" =>
           \/ Len(requests) = 1 /\ requests[1][2] = opaque /\ NoResponse(net)
           \/ Len(requests) = 0 /\ OneResponse(net, opaque)
  BY <1>1, ZenonT(30) DEF Answers
<1>3. /\ net \in Seq(Frame) /\ pending \in Seq(Frame) /\ requests \in Seq(VBuckets \X Nat)
      /\ opaque \in Nat
  BY ZenonT(30) DEF WorkerInv, WireType, ProducerType, WorkerType
<1>4. CASE Producer /\ ~AnswerClose /\ ~Disconnect
  <2>1. PICK f \in Frame : f.kind \notin ResponseKinds /\ Send(f) /\ requests' = requests
    BY <1>4, PlainSends, ZenonT(30)
  <2>2. net' = Append(net, f) /\ UNCHANGED <<eof, pending, pc, opaque>>
    BY <2>1, ZenonT(30) DEF Send, workerVars
  <2>3. /\ NoResponse(net) => NoResponse(net')
        /\ OneResponse(net, opaque) => OneResponse(net', opaque)
    BY <1>3, <2>1, <2>2, ResponsesAppend, ZenonT(30)
  <2> QED
    BY <1>2, <2>1, <2>2, <2>3, ZenonT(30)
<1>5. CASE AnswerClose
  <2> DEFINE k == IF feed[requests[1][1]].state = "open" THEN "ok" ELSE "refused"
             f == [kind |-> k, vb |-> None, seqno |-> requests[1][2], end |-> 0]
  <2>1. requests # <<>> /\ Send(f) /\ requests' = Tail(requests)
    BY <1>5, ZenonT(30) DEF AnswerClose
  <2>2. requests[1][2] \in Nat /\ Len(requests) \in Nat /\ Len(requests) # 0
        /\ (Len(requests) = 1 => Len(requests') = 0)
    BY <1>3, <2>1
  <2>3. f \in Frame /\ f.kind \in ResponseKinds /\ f.seqno = requests[1][2]
    BY <2>2, OtherFrame DEF ResponseKinds
  <2> HIDE DEF f
  <2>4. net' = Append(net, f) /\ UNCHANGED <<eof, pending, pc, opaque>>
    BY <2>1, ZenonT(30) DEF Send, workerVars
  <2>5. pc \notin {"select", "queue", "closed"}
    BY <1>2, <2>2, ZenonT(30)
  <2>6. CASE pc = "request"
    <3>1. Len(requests) = 1 /\ requests[1][2] = opaque /\ NoResponse(net)
      BY <1>2, <2>2, <2>6, ZenonT(30)
    <3>2. OneResponse(net', opaque)
      BY <1>3, <2>3, <2>4, <3>1, ResponsesAppend, ZenonT(30)
    <3>3. pc' \notin {"select", "queue", "closed"}
      BY <2>4, <2>5, ZenonT(30)
    <3> QED
      BY <1>2, <2>2, <2>4, <3>1, <3>2, <3>3, ZenonT(30)
  <2> QED
    BY <1>2, <2>4, <2>5, <2>6, ZenonT(30)
<1>6. CASE Disconnect
  <2>1. failures' = failures + 1
    BY <1>6, ZenonT(30) DEF Disconnect
  <2> QED
    BY <1>1, <2>1
<1>7. CASE HandleFrame
  <2>1. pc = "select" /\ UNCHANGED <<eof, requests, opaque>>
    BY <1>7, ZenonT(30) DEF HandleFrame, environment
  <2>2. PICK f : Receive(f) /\ handle_frame(f)
    BY <1>7, ZenonT(30) DEF HandleFrame
  <2>3. pc' \in {"select", "queue", "error"}
    BY <2>2 DEF handle_frame
  <2>4. NoResponse(pending') /\ NoResponse(net')
    <3>1. NoResponse(pending) /\ NoResponse(net)
      BY <1>2, <2>1
    <3>2. CASE pending # <<>> /\ pending' = Tail(pending) /\ net' = net
      <4>1. NoResponse(Tail(pending))
        BY <1>3, <3>1, <3>2, ResponsesTail
      <4> QED
        BY <3>1, <3>2, <4>1
    <3>3. CASE net # <<>> /\ net' = Tail(net) /\ pending' = pending
      <4>1. NoResponse(Tail(net))
        BY <1>3, <3>1, <3>3, ResponsesTail
      <4> QED
        BY <3>1, <3>3, <4>1
    <3> QED
      BY <2>2, <3>2, <3>3, ZenonT(30) DEF Receive
  <2>5. Len(requests) = 0
    BY <1>2, <2>1
  <2>6. pc' # "request"
    BY <2>3
  <2> QED
    BY <1>2, <2>1, <2>4, <2>5, <2>6, ZenonT(30)
<1>8. CASE HandleClose
  <2>1. pc = "select" /\ UNCHANGED <<eof, net, pending>>
    BY <1>8, ZenonT(30) DEF HandleClose, producerVars, environment
  <2>2. Len(requests) = 0 /\ NoResponse(net)
    BY <1>2, <2>1
  <2>3. CASE UNCHANGED <<pc, opaque, requests>>
    BY <1>2, <2>1, <2>3, ZenonT(30)
  <2>4. CASE /\ pc' = "request" /\ opaque' = opaque + 1
             /\ requests' = Append(requests, <<command.vb, opaque + 1>>)
    <3>1. command.vb \in VBuckets
      BY <1>8, <2>4 DEF HandleClose, Active
    <3>2. <<command.vb, opaque + 1>> \in VBuckets \X Nat
      BY <1>3, <3>1
    <3>3. Len(requests') = 1 /\ requests'[1] = <<command.vb, opaque + 1>>
      BY <1>3, <2>2, <2>4, <3>2
    <3>4. requests'[1][2] = opaque'
      BY <2>4, <3>3
    <3>5. pc' \notin {"select", "queue", "closed"}
      BY <2>4
    <3> QED
      BY <1>2, <2>1, <2>2, <3>3, <3>4, <3>5, ZenonT(30)
  <2> QED
    BY <1>8, <2>3, <2>4, ZenonT(30) DEF HandleClose
<1>9. CASE SetAside
  <2>1. /\ pc = "request" /\ net # <<>> /\ pending' = Append(pending, Head(net))
        /\ net' = Tail(net) /\ UNCHANGED <<eof, pc, opaque, requests>>
        /\ ~(Head(net).kind \in ResponseKinds /\ Head(net).seqno = opaque)
    BY <1>9, ZenonT(30) DEF SetAside, environment
  <2>2. Head(net) \in Frame
    BY <1>3, <2>1
  <2>3. /\ NoResponse(net) => NoResponse(net') /\ Head(net).kind \notin ResponseKinds
        /\ OneResponse(net, opaque) =>
             OneResponse(net', opaque) /\ Head(net).kind \notin ResponseKinds
    BY <1>3, <2>1, ResponsesTail
  <2>4. Head(net).kind \notin ResponseKinds
    BY <1>2, <2>1, <2>3
  <2>5. NoResponse(pending')
    <3>1. NoResponse(Append(pending, Head(net)))
      BY <1>2, <1>3, <2>2, <2>4, ResponsesAppend, ZenonT(30)
    <3> QED
      BY <2>1, <3>1
  <2>6. pc' \notin {"select", "queue", "closed"}
    BY <2>1
  <2>7. UNCHANGED <<eof, pc, opaque, requests>> /\ pc = "request"
    BY <2>1
  <2> QED
    BY <1>2, <2>3, <2>5, <2>6, <2>7, ZenonT(30)
<1>10. CASE CloseAnswered
  <2>1. /\ pc = "request" /\ net # <<>> /\ net' = Tail(net)
        /\ pc' \in {"closed", "select"} /\ UNCHANGED <<eof, pending, requests>>
        /\ Head(net).kind \in ResponseKinds /\ Head(net).seqno = opaque
    BY <1>10, ZenonT(30) DEF CloseAnswered, environment
  <2>2. ~NoResponse(net)
    BY <1>3, <2>1, ResponsesTail
  <2>3. Len(requests) = 0 /\ OneResponse(net, opaque)
    BY <1>2, <2>1, <2>2
  <2>4. NoResponse(net')
    BY <1>3, <2>1, <2>3, ResponsesTail
  <2>5. pc' # "request" /\ UNCHANGED <<eof, pending, requests>>
    BY <2>1
  <2> QED
    BY <1>2, <2>3, <2>4, <2>5, ZenonT(30)
<1>11. CASE CloseFails
  <2>1. failures' = failures + 1
    BY <1>2, <1>11, ZenonT(30) DEF CloseFails
  <2> QED
    BY <1>1, <2>1
<1>12. CASE ~Producer /\ ~HandleFrame /\ ~HandleClose /\ ~SetAside /\ ~CloseAnswered /\ ~CloseFails
  <2>1. /\ UNCHANGED <<eof, net, pending, requests, opaque>>
        /\ \/ pc' = pc \/ pc' \in {"error", "done"}
           \/ pc \in {"queue", "closed"} /\ pc' = "select"
    BY <1>12, NoRequestStep, ZenonT(30)
  <2>2. CASE pc' = pc
    BY <1>2, <2>1, <2>2, ZenonT(30)
  <2>3. CASE pc' \in {"error", "done"}
    <3>1. pc' \notin {"select", "queue", "closed", "request"}
      BY <2>3
    <3> QED
      BY <1>2, <2>1, <3>1, ZenonT(30)
  <2>4. CASE pc \in {"queue", "closed"} /\ pc' = "select"
    <3>1. pc \in {"select", "queue", "closed"} /\ pc' # "request"
      BY <2>4
    <3> QED
      BY <1>2, <2>1, <3>1, ZenonT(30)
  <2> QED
    BY <2>1, <2>2, <2>3, <2>4, ZenonT(30)
<1> QED
  BY <1>4, <1>5, <1>6, <1>7, <1>8, <1>9, <1>10, <1>11, <1>12, ZenonT(30)

-----------------------------------------------------------------------------
(* A worker that nothing disturbs does not fail.                           *)

\* The next frame of a stream is one that handle_frame accepts, also after closes.
LEMMA NextObserved ==
  ASSUME WorkerInv, Accepting, ByProtocol, Ends, Good, pc = "select",
         NEW f, Receive(f), f.kind \in StreamKinds
  PROVE  Observed(f)
<1> DEFINE vb == f.vb
           s == Accepted(vb)
           r == Of(vb, pending') \o Of(vb, net')
           p == partitions[vb]
<1>0. WireType /\ WorkerType
  BY ZenonT(30) DEF WorkerInv
<1>1. Working
  BY DEF Working
<1>2. f \in Frame /\ pending' \in Seq(Frame) /\ net' \in Seq(Frame)
      /\ Of(vb, pending) \o Of(vb, net) = Of(vb, <<f>>) \o r
  BY <1>0, ReceiveStep, ZenonT(30)
<1>3. vb \in VBuckets
  BY <1>2, FrameFields, ZenonT(30)
<1>4. Of(vb, <<f>>) = <<f>>
  BY <1>2, OfOne DEF IsOf
<1>5. r \in Seq(Frame)
  BY <1>2, OfType, Concat, ZenonT(30)
<1>6. s \in Seq(Frame) /\ sent[vb] = s \o (Of(vb, pending) \o Of(vb, net))
  BY <1>1, <1>3, AcceptedSent, ZenonT(30)
<1>7. sent[vb] = s \o (<<f>> \o r)
  BY <1>2, <1>4, <1>6, ZenonT(30)
<1> HIDE DEF s, r
<1>8. s # s \o (<<f>> \o r)
  BY <1>2, <1>5, <1>6
<1>9. p # None
  BY <1>1, <1>3, <1>7, <1>8, ZenonT(30) DEF Ends, s
<1>10. p \in PartitionProgress /\ Follows(p, s)
  BY <1>0, <1>1, <1>3, <1>9, ZenonT(30) DEF WorkerType, Accepting, s
<1>11. Lawful(s \o (<<f>> \o r))
  BY <1>3, <1>7, ZenonT(30) DEF ByProtocol, Good
<1> HIDE DEF p
<1>12. /\ f.kind \in {"marker", "event", "end"}
       /\ f.kind = "marker" => f.end >= p.last_seqno /\ f.end <= EndSeqno
       /\ f.kind = "event" => /\ p.snapshot # <<>>
                              /\ f.seqno >= p.snapshot[1] /\ f.seqno <= p.snapshot[2]
                              /\ f.seqno <= EndSeqno
                              /\ f.seqno > p.last_seqno
  BY <1>2, <1>5, <1>6, <1>10, <1>11, LawfulNext
<1> QED
  BY <1>9, <1>12 DEF Observed, p

\* A stream that has ended stays so, and nothing more is sent of it.
LEMMA EndedStays ==
  ASSUME WorkerInv, [Next]_vars, faults' = 0, NEW vb \in VBuckets, feed[vb].state = "ended"
  PROVE  sent'[vb] = sent[vb] /\ feed'[vb].state = "ended"
<1>0. faults \in Nat /\ feed \in [VBuckets -> Feed]
  BY ZenonT(30) DEF WorkerInv, ProducerType
<1>1. CASE UNCHANGED <<feed, sent, faults>>
  BY <1>1, ZenonT(30)
<1>2. CASE \E w \in VBuckets : SendMarker(w) \/ SendEvent(w) \/ SendEnd(w)
  <2>1. PICK w \in VBuckets : SendMarker(w) \/ SendEvent(w) \/ SendEnd(w)
    BY <1>2
  <2>2. feed[w].state \in {"open", "ending"}
    BY <2>1 DEF SendMarker, SendEvent, SendEnd
  <2>3. w # vb
    BY <2>2
  <2>4. PICK f : f.vb = w /\ Send(f)
    <3>1. ASSUME NEW kind, NEW seqno, NEW end,
                 Send([kind |-> kind, vb |-> w, seqno |-> seqno, end |-> end])
          PROVE  \E f : f.vb = w /\ Send(f)
      <4> DEFINE f == [kind |-> kind, vb |-> w, seqno |-> seqno, end |-> end]
      <4>1. f.vb = w
        OBVIOUS
      <4> QED
        BY <3>1, <4>1, ZenonT(30)
    <3> QED
      BY <2>1, <3>1, ZenonT(30) DEF SendMarker, SendEvent, SendEnd
  <2>5. sent'[vb] = sent[vb]
    BY <2>3, <2>4, SentStep, ZenonT(30)
  <2>6. feed'[vb] = feed[vb]
    BY <1>0, <2>1, <2>3, ZenonT(30) DEF SendMarker, SendEvent, SendEnd
  <2> QED
    BY <2>5, <2>6, ZenonT(30)
<1>3. CASE \E w \in VBuckets : SendFaulty(w)
  <2>1. faults' = faults + 1
    BY <1>3, ZenonT(30) DEF SendFaulty
  <2> QED
    BY <1>0, <2>1
<1>4. CASE \E kind \in ExtraKinds : SendExtra(kind)
  <2>1. PICK kind \in ExtraKinds : SendExtra(kind)
    BY <1>4
  <2> DEFINE f == [kind |-> kind, vb |-> None, seqno |-> 0, end |-> 0]
  <2>2. Send(f) /\ feed' = feed /\ f.vb = None
    BY <2>1 DEF SendExtra
  <2> HIDE DEF f
  <2> QED
    BY <2>2, ZenonT(30) DEF Send
<1>5. CASE AnswerClose
  <2>1. /\ sent' = sent
        /\ feed'[vb] = feed[vb] \/ feed[vb].state = "open"
    BY <1>5, AnswerCloseFeed, ZenonT(30)
  <2>2. feed[vb].state # "open"
    OBVIOUS
  <2>3. feed'[vb] = feed[vb]
    BY <2>1, <2>2, ZenonT(30)
  <2> QED
    BY <2>1, <2>3, ZenonT(30)
<1> QED
  BY <1>1, <1>2, <1>3, <1>4, <1>5, EnvironmentStep, ZenonT(30) DEF Producer

\* The worker drops a stream when it has queued its end, or when it closed it and the
\* producer sends no end.
LEMMA DropsStream ==
  ASSUME WorkerInv, [Next]_vars, ~HandleFrame, NEW vb \in VBuckets,
         partitions'[vb] # partitions[vb]
  PROVE  \/ QueueFrame /\ held.kind = "end" /\ held.vb = vb
         \/ CloseAnswered /\ ~stream_end_on_close
<1>0. partitions \in [VBuckets -> PartitionProgress \cup {None}]
  BY ZenonT(30) DEF WorkerInv, WorkerType
<1>1. CASE Producer \/ CloseReturns \/ shutdown \/ ShutdownReturns
                    \/ \E w \in VBuckets : close_vbucket(w)
  BY <1>1, OtherPartiesStep, ZenonT(30)
<1>2. CASE Read \/ drop \/ QueueError \/ QueueClosed \/ HandleClose \/ CloseFails
  BY <1>2, ZenonT(30) DEF Read, drop, QueueError, QueueClosed, HandleClose, CloseFails, workerVars
<1>3. CASE ConnectionFails \/ AllStreamsEnded \/ HandleShutdown \/ SetAside
  BY <1>3, ZenonT(30) DEF ConnectionFails, AllStreamsEnded, HandleShutdown, SetAside
<1>4. CASE QueueFrame
  BY <1>0, <1>4, ZenonT(30) DEF QueueFrame
<1>5. CASE CloseAnswered
  BY <1>5, ZenonT(30) DEF CloseAnswered
<1>6. CASE UNCHANGED vars
  BY <1>6, ZenonT(30) DEF vars, workerVars
<1> QED
  BY <1>1, <1>2, <1>3, <1>4, <1>5, <1>6, ZenonT(30) DEF Next, Worker, Owner

\* The end of a stream is the last that is sent of it.
LEMMA EndIsLast ==
  ASSUME WorkerInv, ByProtocol, faults = 0, pc = "queue", held.kind = "end"
  PROVE  sent[held.vb] = Accepted(held.vb) /\ feed[held.vb].state = "ended"
<1> DEFINE vb == held.vb
           x == delivered[vb] \o Of(vb, output)
           q == Of(vb, pending) \o Of(vb, net)
<1>0. WorkerType /\ WireType /\ Working
  BY DEF WorkerInv, Working
<1>1. held \in Frame /\ held.kind \in StreamKinds /\ Held = <<held>>
  BY <1>0 DEF WorkerType, StreamKinds, Held
<1>2. vb \in VBuckets
  BY <1>1, FrameFields, ZenonT(30)
<1>3. Of(vb, Held) = <<held>>
  BY <1>1, OfOne DEF IsOf
<1>4. x \in Seq(Frame) /\ q \in Seq(Frame)
  <2>1. /\ delivered[vb] \in Seq(Frame) /\ Of(vb, output) \in Seq(Frame)
        /\ Of(vb, pending) \in Seq(Frame) /\ Of(vb, net) \in Seq(Frame)
    BY <1>0, <1>2, OfType, ZenonT(30) DEF WireType
  <2> QED
    BY <2>1, Concat, ZenonT(30)
<1>5. Accepted(vb) = x \o <<held>>
  BY <1>3, ZenonT(30) DEF Accepted
<1>6. sent[vb] = (x \o <<held>>) \o q
  BY <1>0, <1>2, <1>5, AcceptedSent, ZenonT(30)
<1>7. Lawful(sent[vb]) /\ Remembers(feed[vb], sent[vb])
  BY <1>2, ZenonT(30) DEF ByProtocol
<1> DEFINE t == sent[vb]
           m == Len(x) + 1
<1> HIDE DEF x, q
<1>8. /\ m \in DOMAIN t /\ t[m] = held
      /\ m = Len(t) => t = x \o <<held>>
  BY <1>1, <1>4, <1>6
<1> HIDE DEF t, m
<1>9. m = Len(t) /\ feed[vb].state = "ended"
  BY <1>7, <1>8, ZenonT(30) DEF Lawful, Remembers, t
<1> QED
  BY <1>5, <1>8, <1>9, ZenonT(30) DEF t

\* The worker drops only streams that have ended, and has accepted all of them.
LEMMA EndsStep ==
  ASSUME WorkerInv, [Next]_vars, Accepting, ByProtocol, Ends
  PROVE  Ends'
<1> SUFFICES ASSUME Good', Working', NEW vb \in VBuckets, partitions'[vb] = None
             PROVE  sent'[vb] = Accepted(vb)' /\ feed'[vb].state = "ended"
  BY ZenonT(30) DEF Ends
<1>0. Good /\ faults = 0 /\ faults' = 0 /\ stream_end_on_close
  BY GoodBefore, ZenonT(30) DEF Good
<1>1. CASE HandleFrame
  <2>0. /\ WorkerType /\ WireType /\ pc = "select"
        /\ UNCHANGED <<output, delivered, sent, feed>>
    BY <1>1, ZenonT(30) DEF WorkerInv, HandleFrame, ownerVars, environment
  <2>1. PICK f : Receive(f) /\ handle_frame(f)
    BY <1>1, ZenonT(30) DEF HandleFrame
  <2>2. f \in Frame
    BY <2>0, <2>1, ReceiveStep, ZenonT(30)
  <2>3. Working
    BY <2>0 DEF Working
  <2>4. ASSUME f.vb = vb, Observed(f), partitions' = observe(f) PROVE FALSE
    <3>1. partitions[vb] # None
      BY <2>4, ZenonT(30) DEF Observed
    <3> QED
      BY <2>0, <2>2, <2>4, <3>1, ObserveOthers, ZenonT(30)
  <2>5. Accepted(vb)' = Accepted(vb) /\ partitions'[vb] = partitions[vb]
    BY <2>0, <2>1, <2>2, <2>4, FrameAccepted, ZenonT(30)
  <2> QED
    BY <1>0, <2>0, <2>3, <2>5, ZenonT(30) DEF Ends
<1>2. CASE drop
  <2>1. ~Working'
    BY <1>2 DEF drop, Working
  <2> QED
    BY <2>1, ZenonT(30)
<1>3. CASE ~HandleFrame /\ ~drop
  <2>1. Accepted(vb)' = Accepted(vb) /\ Working
    BY <1>3, AcceptedStep, ZenonT(30)
  <2>2. CASE partitions[vb] = None
    <3>1. sent[vb] = Accepted(vb) /\ feed[vb].state = "ended"
      BY <1>0, <2>1, <2>2, ZenonT(30) DEF Ends
    <3>2. sent'[vb] = sent[vb] /\ feed'[vb].state = "ended"
      BY <1>0, <3>1, EndedStays, ZenonT(30)
    <3> QED
      BY <2>1, <3>1, <3>2, ZenonT(30)
  <2>3. CASE partitions[vb] # None
    <3>1. QueueFrame /\ held.kind = "end" /\ held.vb = vb
      BY <1>0, <1>3, <2>3, DropsStream, ZenonT(30)
    <3>2. pc = "queue" /\ UNCHANGED <<sent, feed>>
      BY <3>1, ZenonT(30) DEF QueueFrame, environment
    <3>3. sent[vb] = Accepted(vb) /\ feed[vb].state = "ended"
      BY <1>0, <3>1, <3>2, EndIsLast, ZenonT(30)
    <3> QED
      BY <2>1, <3>2, <3>3, ZenonT(30)
  <2> QED
    BY <2>2, <2>3, ZenonT(30)
<1> QED
  BY <1>1, <1>2, <1>3, ZenonT(30)

\* Nothing makes the worker fail.
LEMMA NoErrorStep ==
  ASSUME WorkerInv, [Next]_vars, ProtocolInv
  PROVE  CloseLeavesOtherStreams'
<1> SUFFICES ASSUME Good' PROVE pc' # "error"
  BY ZenonT(30) DEF CloseLeavesOtherStreams, Good
<1>0. /\ Good /\ failures = 0 /\ failures' = 0
      /\ Accepting /\ ByProtocol /\ Answers /\ Ends
  BY GoodBefore, ZenonT(30) DEF Good, ProtocolInv
<1>1. pc # "error"
  BY <1>0, ZenonT(30) DEF ProtocolInv, CloseLeavesOtherStreams, Good
<1>2. ~eof /\ NoResponse(pending)
  BY <1>0, ZenonT(30) DEF Answers
<1>3. CASE HandleFrame
  <2>1. pc = "select"
    BY <1>3, ZenonT(30) DEF HandleFrame
  <2>2. PICK f : Receive(f) /\ handle_frame(f)
    BY <1>3, ZenonT(30) DEF HandleFrame
  <2>3. net \in Seq(Frame) /\ pending \in Seq(Frame) /\ NoResponse(net)
    BY <1>0, <2>1 DEF Answers, WorkerInv, WireType
  <2>4. f.kind \notin ResponseKinds
    <3>1. CASE pending # <<>> /\ f = Head(pending)
      BY <1>2, <2>3, <3>1, ResponsesTail
    <3>2. CASE net # <<>> /\ f = Head(net)
      BY <2>3, <3>2, ResponsesTail
    <3> QED
      BY <2>2, <3>1, <3>2, ZenonT(30) DEF Receive
  <2>5. f.kind \in StreamKinds => Observed(f)
    BY <1>0, <2>1, <2>2, NextObserved, ZenonT(30)
  <2>6. pc' \in {"select", "queue"}
    BY <1>2, <2>2, <2>4, <2>5 DEF handle_frame
  <2> QED
    BY <2>6
<1>4. CASE QueueFrame
  <2>1. pc' = "select"
    BY <1>2, <1>4, ZenonT(30) DEF QueueFrame, record
  <2> QED
    BY <2>1
<1>5. CASE ConnectionFails
  <2>1. failures' = failures + 1
    BY <1>2, <1>5, ZenonT(30) DEF ConnectionFails
  <2> QED
    BY <1>0, <2>1
<1>6. CASE AllStreamsEnded \/ QueueError \/ HandleShutdown
  <2>1. pc' = "done"
    BY <1>2, <1>6, ZenonT(30) DEF AllStreamsEnded, QueueError, HandleShutdown
  <2> QED
    BY <2>1
<1>7. CASE HandleClose
  BY <1>1, <1>7 DEF HandleClose
<1>8. CASE SetAside \/ CloseAnswered \/ CloseFails \/ QueueClosed
  BY <1>1, <1>8 DEF SetAside, CloseAnswered, CloseFails, QueueClosed
<1>9. CASE Producer \/ CloseReturns \/ shutdown \/ ShutdownReturns
                    \/ \E vb \in VBuckets : close_vbucket(vb)
  BY <1>1, <1>9, OtherPartiesStep, ZenonT(30)
<1>10. CASE Read
  BY <1>1, <1>10, ZenonT(30) DEF Read, workerVars
<1>11. CASE drop
  BY <1>11 DEF drop
<1>12. CASE UNCHANGED vars
  BY <1>1, <1>12, ZenonT(30) DEF vars, workerVars
<1> QED
  BY <1>3, <1>4, <1>5, <1>6, <1>7, <1>8, <1>9, <1>10, <1>11, <1>12, ZenonT(30)
  DEF Next, Worker, Owner

\* The worker starts with nothing sent, asked or accepted.
LEMMA ProtocolInit == Init => ProtocolInv
<1> SUFFICES ASSUME Init PROVE ByProtocol /\ Answers /\ Ends /\ CloseLeavesOtherStreams
  BY AcceptingInit, ZenonT(30) DEF ProtocolInv
<1>1. PICK streams \in (SUBSET VBuckets) \ {{}} :
        /\ feed = [vb \in VBuckets |->
                    [state |-> IF vb \in streams THEN "open" ELSE "ended", last |-> 0,
                     window |-> 0]]
        /\ partitions = [vb \in VBuckets |->
                          IF vb \in streams THEN [last_seqno |-> 0, snapshot |-> <<>>]
                          ELSE None]
  BY DEF Init
<1>2. ByProtocol
  <2> SUFFICES ASSUME NEW vb \in VBuckets
               PROVE  Lawful(sent[vb]) /\ Remembers(feed[vb], sent[vb])
    BY ZenonT(30) DEF ByProtocol
  <2>1. sent[vb] = <<>>
    BY DEF Init
  <2>2. Lawful(<<>>)
    BY DEF Lawful, InSnapshots
  <2>3. feed[vb].last = 0 /\ feed[vb].window = 0
    BY <1>1
  <2>4. Remembers(feed[vb], <<>>)
    BY <2>3, BoundsAssumption DEF Remembers
  <2> QED
    BY <2>1, <2>2, <2>4
<1>3. Answers
  <2>1. pc = "select" /\ eof = FALSE /\ Len(requests) = 0 /\ pending = <<>> /\ net = <<>>
    BY DEF Init
  <2>2. NoResponse(<<>>)
    BY DEF NoResponse
  <2> QED
    BY <2>1, <2>2 DEF Answers
<1>4. Ends
  <2> SUFFICES ASSUME NEW vb \in VBuckets, partitions[vb] = None
               PROVE  sent[vb] = Accepted(vb) /\ feed[vb].state = "ended"
    BY ZenonT(30) DEF Ends
  <2>1. sent[vb] = Accepted(vb)
    <3>1. sent[vb] = <<>>
      BY DEF Init
    <3> QED
      BY <3>1, AcceptedInit
  <2>2. [last_seqno |-> 0, snapshot |-> <<>>] \in PartitionProgress
    BY DEF PartitionProgress
  <2>3. vb \notin streams
    BY <1>1, <2>2, NoneAssumption
  <2> QED
    BY <1>1, <2>1, <2>3
<1>5. CloseLeavesOtherStreams
  BY DEF Init, CloseLeavesOtherStreams
<1> QED
  BY <1>2, <1>3, <1>4, <1>5, ZenonT(30)

\* close_vbucket closes one stream and leaves the others alone: whatever frames and closes
\* cross on the wire, a producer that keeps to the protocol and ends the streams that are
\* closed never makes handle_frame fail while the connection works.
THEOREM CloseTheorem == Spec => []CloseLeavesOtherStreams
<1>1. WorkerInv /\ ProtocolInv /\ [Next]_vars => WorkerInv' /\ ProtocolInv'
  BY WorkerStep, AcceptingStep, ByProtocolStep, AnswersStep, EndsStep, NoErrorStep, ZenonT(30)
  DEF ProtocolInv
<1>2. ProtocolInv => CloseLeavesOtherStreams
  BY ZenonT(30) DEF ProtocolInv
<1> QED
  BY <1>1, <1>2, WorkerInit, ProtocolInit, PTL DEF Spec

=============================================================================

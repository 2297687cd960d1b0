------------------------ MODULE StreamSnapshotProofs ------------------------
(***************************************************************************)
(* What StreamWorker accepts, for every value of its constants: whatever   *)
(* the producer sends, the owner gets events that increase and lie in      *)
(* their snapshots.                                                        *)
(*                                                                         *)
(* A frame is checked against the progress of its stream alone.  The       *)
(* invariant (Accepting) says that the progress always describes what was  *)
(* accepted: delivered, queued or held.                                    *)
(***************************************************************************)
EXTENDS StreamWorkerProofs

\* For the steps that name no prover: an SMT solver, then Zenon.
USE SMTT(30), ZenonT(30)

\* The last marker among the frames.
LastMarker(s, i) ==
  /\ i \in DOMAIN s /\ s[i].kind = "marker"
  /\ \A k \in (i + 1)..Len(s) : s[k].kind # "marker"

\* Events increase and lie in the snapshot announced last.
InSnapshots(s) ==
  \A j \in DOMAIN s : s[j].kind = "event" =>
    /\ \A i \in 1..(j - 1) : s[i].kind = "event" => s[i].seqno < s[j].seqno
    /\ \E i \in 1..(j - 1) :
         /\ s[i].kind = "marker"
         /\ s[i].seqno <= s[j].seqno /\ s[j].seqno <= s[i].end
         /\ \A k \in (i + 1)..(j - 1) : s[k].kind # "marker"

\* What the worker has accepted of a stream.
Accepted(vb) == (delivered[vb] \o Of(vb, output)) \o Of(vb, Held)

\* The progress p is that of the frames: the last event and the last marker.
Follows(p, s) ==
  /\ \A i \in DOMAIN s : s[i].kind = "event" => s[i].seqno <= p.last_seqno
  /\ p.last_seqno = 0 \/ \E i \in DOMAIN s : s[i].kind = "event" /\ s[i].seqno = p.last_seqno
  /\ p.snapshot \in Nat \X Nat => \E i \in DOMAIN s : LastMarker(s, i)
  /\ \A i \in DOMAIN s : LastMarker(s, i) => p.snapshot = <<s[i].seqno, s[i].end>>

Accepting ==
  \A vb \in VBuckets :
    /\ InSnapshots(Accepted(vb))
    /\ Working /\ partitions[vb] # None => Follows(partitions[vb], Accepted(vb))

-----------------------------------------------------------------------------
(* Sequences of frames.                                                    *)

\* A frame added at the end, and what was there before it.
LEMMA AppendFacts ==
  ASSUME NEW s \in Seq(Frame), NEW f \in Frame
  PROVE  /\ Append(s, f) \in Seq(Frame) /\ Len(s) \in Nat
         /\ Len(Append(s, f)) = Len(s) + 1
         /\ DOMAIN Append(s, f) = 1..(Len(s) + 1) /\ DOMAIN s = 1..Len(s)
         /\ Append(s, f)[Len(s) + 1] = f
         /\ \A i \in 1..Len(s) : Append(s, f)[i] = s[i] /\ s[i] \in Frame
  OBVIOUS

\* A frame that is no marker leaves the last marker, a marker is the last one.
LEMMA LastMarkerAppend ==
  ASSUME NEW s \in Seq(Frame), NEW f \in Frame
  PROVE  /\ f.kind # "marker" =>
              \A i : LastMarker(Append(s, f), i) <=> LastMarker(s, i)
         /\ f.kind = "marker" =>
              \A i : LastMarker(Append(s, f), i) <=> i = Len(s) + 1
<1> DEFINE t == Append(s, f)
           n == Len(s)
<1>1. /\ Len(t) = n + 1 /\ n \in Nat /\ DOMAIN t = 1..(n + 1) /\ DOMAIN s = 1..n
      /\ t[n + 1] = f /\ \A i \in 1..n : t[i] = s[i]
  BY AppendFacts, ZenonT(60)
<1> HIDE DEF t, n
<1>2. Len(s) = n
  BY ZenonT(30) DEF n
<1>3. ASSUME f.kind # "marker", NEW i, LastMarker(t, i) PROVE LastMarker(s, i)
  <2>1. i \in 1..(n + 1) /\ t[i].kind = "marker" /\ \A k \in (i + 1)..(n + 1) : t[k].kind # "marker"
    BY <1>1, <1>3, ZenonT(30) DEF LastMarker
  <2>2. i \in 1..n
    BY <1>1, <1>3, <2>1
  <2>3. \A k \in (i + 1)..n : k \in (i + 1)..(n + 1) /\ k \in 1..n
    BY <1>1, <2>2
  <2> QED
    BY <1>1, <1>2, <2>1, <2>2, <2>3, ZenonT(30) DEF LastMarker
<1>4. ASSUME f.kind # "marker", NEW i, LastMarker(s, i) PROVE LastMarker(t, i)
  <2>1. i \in 1..n /\ s[i].kind = "marker" /\ \A k \in (i + 1)..n : s[k].kind # "marker"
    BY <1>1, <1>2, <1>4, ZenonT(30) DEF LastMarker
  <2>2. i \in 1..(n + 1)
    BY <1>1, <2>1
  <2>3. ASSUME NEW k \in (i + 1)..(n + 1) PROVE t[k].kind # "marker"
    <3>1. k = n + 1 \/ (k \in (i + 1)..n /\ k \in 1..n)
      BY <1>1, <2>1
    <3> QED
      BY <1>1, <1>4, <2>1, <3>1, ZenonT(30)
  <2> QED
    BY <1>1, <2>1, <2>2, <2>3, ZenonT(30) DEF LastMarker
<1>5. ASSUME f.kind = "marker", NEW i, LastMarker(t, i) PROVE i = n + 1
  <2>1. i \in 1..(n + 1) /\ \A k \in (i + 1)..(n + 1) : t[k].kind # "marker"
    BY <1>1, <1>5, ZenonT(30) DEF LastMarker
  <2>2. i # n + 1 => n + 1 \in (i + 1)..(n + 1)
    BY <1>1, <2>1
  <2> QED
    BY <1>1, <1>5, <2>1, <2>2, ZenonT(30)
<1>6. ASSUME f.kind = "marker" PROVE LastMarker(t, n + 1)
  <2>1. n + 1 \in 1..(n + 1) /\ (n + 1 + 1)..(n + 1) = {}
    BY <1>1
  <2> QED
    BY <1>1, <1>6, <2>1, ZenonT(30) DEF LastMarker
<1> QED
  BY <1>3, <1>4, <1>5, <1>6, ZenonT(30) DEF t, n

\* An event that is larger than those before and lies in the last snapshot may follow, and
\* any other frame.
LEMMA SnapshotsAppend ==
  ASSUME NEW s \in Seq(Frame), NEW f \in Frame, InSnapshots(s),
         f.kind = "event" =>
           /\ \A i \in DOMAIN s : s[i].kind = "event" => s[i].seqno < f.seqno
           /\ \E i \in DOMAIN s : LastMarker(s, i) /\ s[i].seqno <= f.seqno /\ f.seqno <= s[i].end
  PROVE  InSnapshots(Append(s, f))
<1> DEFINE t == Append(s, f)
           n == Len(s)
<1>1. /\ Len(t) = n + 1 /\ n \in Nat /\ DOMAIN t = 1..(n + 1) /\ DOMAIN s = 1..n
      /\ t[n + 1] = f /\ \A i \in 1..n : t[i] = s[i]
  BY AppendFacts, ZenonT(30)
<1>2. Len(s) = n
  OBVIOUS
<1> HIDE DEF t, n
<1> SUFFICES ASSUME NEW j \in 1..(n + 1), t[j].kind = "event"
             PROVE  /\ \A i \in 1..(j - 1) : t[i].kind = "event" => t[i].seqno < t[j].seqno
                    /\ \E i \in 1..(j - 1) :
                         /\ t[i].kind = "marker"
                         /\ t[i].seqno <= t[j].seqno /\ t[j].seqno <= t[i].end
                         /\ \A k \in (i + 1)..(j - 1) : t[k].kind # "marker"
  BY <1>1, ZenonT(30) DEF InSnapshots, t
<1>3. j \in 1..n \/ (j = n + 1 /\ j - 1 = n)
  BY <1>1
<1>4. CASE j \in 1..n
  <2>1. \A i \in 1..(j - 1) : i \in 1..n /\ \A k \in (i + 1)..(j - 1) : k \in 1..n
    BY <1>1, <1>4
  <2>2. /\ s[j].kind = "event"
        /\ \A i \in 1..(j - 1) : s[i].kind = "event" => s[i].seqno < s[j].seqno
    BY <1>1, <1>4, ZenonT(30) DEF InSnapshots
  <2>3. PICK i \in 1..(j - 1) :
          /\ s[i].kind = "marker"
          /\ s[i].seqno <= s[j].seqno /\ s[j].seqno <= s[i].end
          /\ \A k \in (i + 1)..(j - 1) : s[k].kind # "marker"
    BY <1>1, <1>4, ZenonT(30) DEF InSnapshots
  <2>4. /\ t[i].kind = "marker"
        /\ t[i].seqno <= t[j].seqno /\ t[j].seqno <= t[i].end
        /\ \A k \in (i + 1)..(j - 1) : t[k].kind # "marker"
    BY <1>1, <1>4, <2>1, <2>3, ZenonT(30)
  <2> QED
    BY <1>1, <1>4, <2>1, <2>2, <2>4, ZenonT(30)
<1>5. CASE j = n + 1 /\ j - 1 = n
  <2>1. t[j] = f /\ f.kind = "event"
    BY <1>1, <1>5, ZenonT(30)
  <2>2. PICK i \in 1..n : LastMarker(s, i) /\ s[i].seqno <= f.seqno /\ f.seqno <= s[i].end
    BY <1>1, <2>1, ZenonT(30)
  <2>3. s[i].kind = "marker" /\ \A k \in (i + 1)..n : s[k].kind # "marker"
    BY <1>2, <2>2, ZenonT(30) DEF LastMarker
  <2>4. \A k \in (i + 1)..n : k \in 1..n
    BY <1>1
  <2>5. /\ t[i].kind = "marker"
        /\ t[i].seqno <= t[j].seqno /\ t[j].seqno <= t[i].end
        /\ \A k \in (i + 1)..n : t[k].kind # "marker"
    BY <1>1, <2>1, <2>2, <2>3, <2>4, ZenonT(30)
  <2>6. \A l \in 1..n : t[l].kind = "event" => t[l].seqno < t[j].seqno
    BY <1>1, <2>1, ZenonT(30)
  <2> QED
    BY <1>5, <2>5, <2>6, ZenonT(30)
<1> QED
  BY <1>3, <1>4, <1>5, ZenonT(30)

\* The start of a sequence keeps what the whole has.
LEMMA SnapshotsPrefix ==
  ASSUME NEW s \in Seq(Frame), NEW r \in Seq(Frame), InSnapshots(s \o r)
  PROVE  InSnapshots(s)
<1> DEFINE t == s \o r
           n == Len(s)
<1>1. n \in Nat /\ DOMAIN s = 1..n /\ \A i \in 1..n : i \in DOMAIN t /\ t[i] = s[i]
  OBVIOUS
<1> HIDE DEF t, n
<1> SUFFICES ASSUME NEW j \in 1..n, s[j].kind = "event"
             PROVE  /\ \A i \in 1..(j - 1) : s[i].kind = "event" => s[i].seqno < s[j].seqno
                    /\ \E i \in 1..(j - 1) :
                         /\ s[i].kind = "marker"
                         /\ s[i].seqno <= s[j].seqno /\ s[j].seqno <= s[i].end
                         /\ \A k \in (i + 1)..(j - 1) : s[k].kind # "marker"
  BY <1>1, ZenonT(30) DEF InSnapshots
<1>2. \A i \in 1..(j - 1) : i \in 1..n /\ \A k \in (i + 1)..(j - 1) : k \in 1..n
  BY <1>1
<1>3. /\ t[j].kind = "event"
      /\ \A i \in 1..(j - 1) : t[i].kind = "event" => t[i].seqno < t[j].seqno
  BY <1>1, ZenonT(30) DEF InSnapshots, t
<1>4. PICK i \in 1..(j - 1) :
        /\ t[i].kind = "marker"
        /\ t[i].seqno <= t[j].seqno /\ t[j].seqno <= t[i].end
        /\ \A k \in (i + 1)..(j - 1) : t[k].kind # "marker"
  BY <1>1, ZenonT(30) DEF InSnapshots, t
<1>5. /\ s[i].kind = "marker"
      /\ s[i].seqno <= s[j].seqno /\ s[j].seqno <= s[i].end
      /\ \A k \in (i + 1)..(j - 1) : s[k].kind # "marker"
  BY <1>1, <1>2, <1>4, ZenonT(30)
<1> QED
  BY <1>1, <1>2, <1>3, <1>5, ZenonT(30)

\* A progress that follows the frames and takes account of the next one follows them all.
LEMMA FollowsAppend ==
  ASSUME NEW s \in Seq(Frame), NEW f \in Frame, NEW p \in PartitionProgress,
         NEW q \in PartitionProgress, Follows(p, s),
         \/ /\ f.kind = "marker" /\ q.last_seqno = p.last_seqno
            /\ q.snapshot = <<f.seqno, f.end>>
         \/ /\ f.kind = "event" /\ q.last_seqno = f.seqno /\ p.last_seqno < f.seqno
            /\ q.snapshot = p.snapshot
         \/ f.kind \notin {"marker", "event"} /\ q = p
  PROVE  Follows(q, Append(s, f))
<1> DEFINE t == Append(s, f)
           n == Len(s)
<1>1. /\ Len(t) = n + 1 /\ n \in Nat /\ DOMAIN t = 1..(n + 1) /\ DOMAIN s = 1..n
      /\ t[n + 1] = f /\ \A i \in 1..n : t[i] = s[i] /\ s[i] \in Frame
  BY AppendFacts, ZenonT(30)
<1>2. /\ f.kind # "marker" => \A i : LastMarker(t, i) <=> LastMarker(s, i)
      /\ f.kind = "marker" => \A i : LastMarker(t, i) <=> i = n + 1
  BY LastMarkerAppend, ZenonT(30)
<1> HIDE DEF t, n
<1>3. \A i \in 1..(n + 1) : i \in 1..n \/ i = n + 1
  BY <1>1
<1>4. \A i \in 1..n : i \in 1..(n + 1)
  BY <1>1
<1>5. n + 1 \in 1..(n + 1)
  BY <1>1
<1>6. /\ \A i \in 1..n : s[i].kind = "event" => s[i].seqno <= p.last_seqno
      /\ p.last_seqno = 0 \/ \E i \in 1..n : s[i].kind = "event" /\ s[i].seqno = p.last_seqno
      /\ p.snapshot \in Nat \X Nat => \E i \in 1..n : LastMarker(s, i)
      /\ \A i \in 1..n : LastMarker(s, i) => p.snapshot = <<s[i].seqno, s[i].end>>
  BY <1>1, ZenonT(30) DEF Follows
<1>7. p.last_seqno \in Nat /\ q.last_seqno \in Nat /\ f.seqno \in Nat /\ f.end \in Nat
      /\ \A i \in 1..n : s[i].seqno \in Nat
  <2>1. \A i \in 1..n : s[i].seqno \in Nat
    BY <1>1, FrameFields, ZenonT(30)
  <2>2. f.seqno \in Nat /\ f.end \in Nat
    BY FrameFields, ZenonT(30)
  <2> QED
    BY <2>1, <2>2 DEF PartitionProgress
<1>8. ASSUME NEW i \in 1..(n + 1), t[i].kind = "event" PROVE t[i].seqno <= q.last_seqno
  <2>1. CASE i = n + 1
    <3>1. f.kind = "event" /\ q.last_seqno = f.seqno /\ t[i] = f
      BY <1>1, <1>8, <2>1, ZenonT(30)
    <3> QED
      BY <1>7, <3>1
  <2>2. CASE i \in 1..n
    <3>1. t[i] = s[i] /\ s[i].seqno <= p.last_seqno
      BY <1>1, <1>6, <1>8, <2>2, ZenonT(30)
    <3>2. p.last_seqno <= q.last_seqno
      BY <1>7
    <3> QED
      BY <1>7, <2>2, <3>1, <3>2
  <2> QED
    BY <1>3, <2>1, <2>2, ZenonT(30)
<1>9. q.last_seqno = 0 \/ \E i \in 1..(n + 1) : t[i].kind = "event" /\ t[i].seqno = q.last_seqno
  <2>1. CASE f.kind = "event"
    BY <1>1, <1>5, <2>1, ZenonT(30)
  <2>2. CASE f.kind # "event"
    <3>1. q.last_seqno = p.last_seqno
      BY <2>2, ZenonT(30)
    <3> QED
      BY <1>1, <1>4, <1>6, <3>1, ZenonT(30)
  <2> QED
    BY <2>1, <2>2, ZenonT(30)
<1>10. q.snapshot \in Nat \X Nat => \E i \in 1..(n + 1) : LastMarker(t, i)
  <2>1. CASE f.kind = "marker"
    BY <1>2, <1>5, <2>1, ZenonT(30)
  <2>2. CASE f.kind # "marker"
    <3>1. q.snapshot = p.snapshot
      BY <2>2, ZenonT(30)
    <3> QED
      BY <1>2, <1>4, <1>6, <2>2, <3>1, ZenonT(30)
  <2> QED
    BY <2>1, <2>2, ZenonT(30)
<1>11. ASSUME NEW i \in 1..(n + 1), LastMarker(t, i) PROVE q.snapshot = <<t[i].seqno, t[i].end>>
  <2>1. CASE f.kind = "marker"
    BY <1>1, <1>2, <1>11, <2>1, ZenonT(30)
  <2>2. CASE f.kind # "marker"
    <3>1. q.snapshot = p.snapshot
      BY <2>2, ZenonT(30)
    <3>2. LastMarker(s, i)
      BY <1>2, <1>11, <2>2, ZenonT(30)
    <3>3. i \in 1..n
      BY <1>1, <3>2, ZenonT(30) DEF LastMarker
    <3> QED
      BY <1>1, <1>6, <3>1, <3>2, <3>3, ZenonT(30)
  <2> QED
    BY <2>1, <2>2, ZenonT(30)
<1> QED
  BY <1>1, <1>8, <1>9, <1>10, <1>11, ZenonT(30) DEF Follows, t

\* PartitionProgress::observe: what it accepts keeps to the snapshots, and the progress
\* follows it.
LEMMA ObserveFollows ==
  ASSUME WorkerType, NEW f \in Frame, Observed(f), NEW s \in Seq(Frame),
         InSnapshots(s), Follows(partitions[f.vb], s)
  PROVE  /\ InSnapshots(Append(s, f))
         /\ Follows(observe(f)[f.vb], Append(s, f))
<1> DEFINE p == partitions[f.vb]
           q == observe(f)[f.vb]
<1>1. /\ f.kind \in {"marker", "event", "end"} /\ f.vb \in VBuckets
      /\ f.seqno \in Nat /\ f.end \in Nat
      /\ partitions \in [VBuckets -> PartitionProgress \cup {None}]
      /\ p \in PartitionProgress
  <2>1. f.kind \in {"marker", "event", "end"} /\ p # None
    BY ZenonT(30) DEF Observed
  <2>2. f.vb \in VBuckets /\ f.seqno \in Nat /\ f.end \in Nat
    BY <2>1, FrameFields DEF StreamKinds
  <2> QED
    BY <2>1, <2>2, ZenonT(30) DEF WorkerType
<1>2. /\ f.kind = "marker" => q = [p EXCEPT !.snapshot = <<f.seqno, f.end>>]
      /\ f.kind = "event" => q = [p EXCEPT !.last_seqno = f.seqno]
      /\ f.kind = "end" => q = p
  BY <1>1 DEF observe
<1>3. f.kind = "event" => /\ p.snapshot # <<>>
                          /\ f.seqno >= p.snapshot[1] /\ f.seqno <= p.snapshot[2]
                          /\ f.seqno > p.last_seqno
  BY DEF Observed
<1> HIDE DEF p, q
<1>4. /\ q \in PartitionProgress
      /\ f.kind = "marker" => /\ q.last_seqno = p.last_seqno
                              /\ q.snapshot = <<f.seqno, f.end>>
      /\ f.kind = "event" => q.last_seqno = f.seqno /\ q.snapshot = p.snapshot
      /\ f.kind = "end" => q = p
  BY <1>1, <1>2 DEF PartitionProgress
<1>5. f.kind = "event" => /\ p.snapshot \in Nat \X Nat /\ p.last_seqno \in Nat
                          /\ p.last_seqno < f.seqno
                          /\ p.snapshot[1] <= f.seqno /\ f.seqno <= p.snapshot[2]
  BY <1>1, <1>3 DEF PartitionProgress
<1>6. Follows(p, s)
  BY ZenonT(30) DEF p
<1>7. Follows(q, Append(s, f))
  BY <1>1, <1>4, <1>5, <1>6, FollowsAppend, ZenonT(30)
<1>8. InSnapshots(Append(s, f))
  <2>1. ASSUME f.kind = "event", NEW i \in DOMAIN s, s[i].kind = "event" PROVE s[i].seqno < f.seqno
    <3>1. s[i].seqno <= p.last_seqno /\ s[i] \in Frame
      BY <1>6, <2>1 DEF Follows
    <3>2. s[i].seqno \in Nat
      BY <3>1, FrameFields, ZenonT(30)
    <3> QED
      BY <1>1, <1>5, <2>1, <3>1, <3>2
  <2>2. ASSUME f.kind = "event"
        PROVE  \E i \in DOMAIN s : LastMarker(s, i) /\ s[i].seqno <= f.seqno /\ f.seqno <= s[i].end
    <3>1. PICK i \in DOMAIN s : LastMarker(s, i)
      BY <1>5, <1>6, <2>2, ZenonT(30) DEF Follows
    <3>2. p.snapshot = <<s[i].seqno, s[i].end>>
      BY <1>6, <3>1, ZenonT(30) DEF Follows
    <3>3. s[i].seqno <= f.seqno /\ f.seqno <= s[i].end
      BY <1>5, <2>2, <3>2
    <3> QED
      BY <3>1, <3>3, ZenonT(30)
  <2> QED
    BY <2>1, <2>2, SnapshotsAppend, ZenonT(30)
<1> QED
  BY <1>7, <1>8, ZenonT(30) DEF q

-----------------------------------------------------------------------------
(* What the worker has accepted.                                           *)

\* What is accepted, with what is set aside and on the wire, is what was sent.
LEMMA AcceptedSent ==
  ASSUME WorkerInv, NEW vb \in VBuckets
  PROVE  /\ Accepted(vb) \in Seq(Frame)
         /\ Working => sent[vb] = Accepted(vb) \o (Of(vb, pending) \o Of(vb, net))
<1> DEFINE d == delivered[vb]
           o == Of(vb, output)
           h == Of(vb, Held)
           p == Of(vb, pending)
           n == Of(vb, net)
<1>0. WorkerType /\ WireType /\ Ordered
  BY ZenonT(30) DEF WorkerInv
<1>1. Held \in Seq(Frame)
  BY <1>0 DEF WorkerType, Held
<1>2. d \in Seq(Frame) /\ o \in Seq(Frame) /\ h \in Seq(Frame) /\ p \in Seq(Frame)
      /\ n \in Seq(Frame)
  BY <1>0, <1>1, OfType, ZenonT(30) DEF WireType
<1>3. Working => sent[vb] = (d \o o) \o (h \o (p \o n))
  BY <1>0, ZenonT(30) DEF Ordered
<1> HIDE DEF d, o, h, p, n
<1>4. p \o n \in Seq(Frame) /\ d \o o \in Seq(Frame)
  BY <1>2, Concat, ZenonT(30)
<1> DEFINE x == d \o o
           q == p \o n
<1>5. x \in Seq(Frame) /\ q \in Seq(Frame)
  BY <1>4, ZenonT(30)
<1> HIDE DEF x, q
<1>6. x \o h \in Seq(Frame) /\ \A c \in Seq(Frame) : (x \o h) \o c = x \o (h \o c)
  BY <1>2, <1>5, Concat, ZenonT(60)
<1>7. (x \o h) \o q = x \o (h \o q)
  BY <1>5, <1>6, ZenonT(30)
<1> QED
  BY <1>3, <1>6, <1>7, ZenonT(30) DEF Accepted, d, o, h, p, n, x, q

\* Queueing what is held accepts nothing more.
LEMMA AcceptedQueue ==
  ASSUME WorkerInv, NEW vb \in VBuckets, NEW x \in Frame, output' = Append(output, x),
         delivered' = delivered, Of(vb, Held) = Of(vb, <<x>>), Held' = <<>>
  PROVE  Accepted(vb)' = Accepted(vb)
<1> DEFINE d == delivered[vb]
           o == Of(vb, output)
           y == Of(vb, <<x>>)
<1>1. output \in Seq(Frame) /\ <<x>> \in Seq(Frame) /\ output' = output \o <<x>>
  BY DEF WorkerInv, WireType
<1>2. d \in Seq(Frame) /\ o \in Seq(Frame) /\ y \in Seq(Frame)
  BY <1>1, OfType, ZenonT(30) DEF WorkerInv, WireType
<1>3. Of(vb, output') = o \o y
  BY <1>1, OfConcat, ZenonT(30)
<1>4. Of(vb, Held') = <<>>
  BY OfEmpty
<1>5. Accepted(vb)' = (d \o Of(vb, output')) \o Of(vb, Held')
  BY ZenonT(30) DEF Accepted
<1>6. Accepted(vb) = (d \o o) \o y
  BY ZenonT(30) DEF Accepted
<1> HIDE DEF d, o, y
<1>7. o \o y \in Seq(Frame)
  BY <1>2, Concat, ZenonT(30)
<1>8. d \o (o \o y) \in Seq(Frame)
  BY <1>2, <1>7, Concat, ZenonT(30)
<1>9. (d \o (o \o y)) \o <<>> = d \o (o \o y)
  BY <1>8, ConcatEmpty
<1>10. \A c \in Seq(Frame) : (d \o o) \o c = d \o (o \o c)
  BY <1>2, Concat, ZenonT(30)
<1>11. (d \o o) \o y = d \o (o \o y)
  BY <1>2, <1>10, ZenonT(30)
<1> QED
  BY <1>3, <1>4, <1>5, <1>6, <1>9, <1>11

\* The worker queues what it holds, the end of a stream it closed, or an error.
LEMMA AcceptedQueued ==
  ASSUME WorkerInv, NEW vb \in VBuckets, QueueFrame \/ QueueClosed \/ QueueError
  PROVE  Accepted(vb)' = Accepted(vb)
<1>0. WorkerType
  BY ZenonT(30) DEF WorkerInv
<1>1. CASE QueueFrame
  <2>1. /\ pc = "queue" /\ output' = Append(output, held) /\ delivered' = delivered
        /\ pc' \in {"select", "error"}
    BY <1>1 DEF QueueFrame, ownerVars, record
  <2>2. held \in Frame /\ Held = <<held>> /\ Held' = <<>>
    BY <1>0, <2>1 DEF WorkerType, Held
  <2> QED
    BY <2>1, <2>2, AcceptedQueue
<1>2. CASE QueueClosed
  <2>1. /\ pc = "closed" /\ output' = Append(output, held) /\ delivered' = delivered
        /\ pc' = "select"
    BY <1>2, ZenonT(30) DEF QueueClosed, ownerVars
  <2>2. held \in Frame /\ held.kind = "closed" /\ Held = <<>> /\ Held' = <<>>
    BY <1>0, <2>1 DEF WorkerType, Held
  <2>3. ~IsOf(vb, held)
    BY <2>2 DEF IsOf, StreamKinds
  <2>4. Of(vb, <<held>>) = <<>> /\ Of(vb, Held) = <<>>
    BY <2>2, <2>3, OfOne, OfEmpty
  <2> QED
    BY <2>1, <2>2, <2>4, AcceptedQueue
<1>3. CASE QueueError
  <2> DEFINE x == [kind |-> "error", vb |-> None, seqno |-> 0, end |-> 0]
  <2>1. pc = "error" /\ output' = Append(output, x) /\ delivered' = delivered /\ pc' = "done"
    BY <1>3, ZenonT(30) DEF QueueError, ownerVars
  <2>2. x \in Frame /\ x.kind = "error"
    BY OtherFrame
  <2> HIDE DEF x
  <2>3. Held = <<>> /\ Held' = <<>>
    BY <2>1 DEF Held
  <2>4. ~IsOf(vb, x)
    BY <2>2 DEF IsOf, StreamKinds
  <2>5. Of(vb, <<x>>) = <<>> /\ Of(vb, Held) = <<>>
    BY <2>2, <2>3, <2>4, OfOne, OfEmpty
  <2> QED
    BY <2>1, <2>2, <2>3, <2>5, AcceptedQueue
<1> QED
  BY <1>1, <1>2, <1>3, ZenonT(30)

\* Reading moves a frame from the queue to what is delivered.
LEMMA AcceptedRead ==
  ASSUME WorkerInv, NEW vb \in VBuckets, Read
  PROVE  Accepted(vb)' = Accepted(vb)
<1> DEFINE x == Head(output)
<1>0. /\ output # <<>> /\ output' = Tail(output)
      /\ delivered' = IF x.kind \in StreamKinds
                      THEN [delivered EXCEPT ![x.vb] = Append(@, x)] ELSE delivered
      /\ pc' = pc /\ held' = held
  BY ZenonT(30) DEF Read, workerVars
<1>1. /\ output \in Seq(Frame) /\ x \in Frame /\ <<x>> \in Seq(Frame)
      /\ output' \in Seq(Frame) /\ output = <<x>> \o output'
  BY <1>0 DEF WorkerInv, WireType
<1> HIDE DEF x
<1>2. Held' = Held
  BY <1>0, ZenonT(30) DEF Held
<1>3. delivered \in [VBuckets -> Seq(Frame)] /\ delivered[vb] \in Seq(Frame)
  BY ZenonT(30) DEF WorkerInv, WireType
<1> DEFINE d == delivered[vb]
           y == Of(vb, <<x>>)
           o == Of(vb, output')
<1>4. Of(vb, output) = y \o o /\ y \in Seq(Frame) /\ o \in Seq(Frame)
  BY <1>1, OfConcat, OfType, ZenonT(30)
<1>5. delivered'[vb] = d \o y
  <2>1. CASE IsOf(vb, x)
    <3>1. y = <<x>>
      BY <1>1, <2>1, OfOne
    <3>2. delivered'[vb] = Append(d, x)
      BY <1>0, <1>3, <2>1, ZenonT(30) DEF IsOf
    <3> QED
      BY <1>1, <1>3, <3>1, <3>2, AppendOne, ZenonT(30)
  <2>2. CASE ~IsOf(vb, x)
    <3>1. y = <<>>
      BY <1>1, <2>2, OfOne
    <3>2. delivered'[vb] = d
      BY <1>0, <1>3, <2>2, ZenonT(30) DEF IsOf
    <3> QED
      BY <1>3, <3>1, <3>2, ConcatEmpty
  <2> QED
    BY <2>1, <2>2, ZenonT(30)
<1>6. (d \o y) \o o = d \o (y \o o)
  <2> HIDE DEF d, y, o
  <2>1. \A c \in Seq(Frame) : (d \o y) \o c = d \o (y \o c)
    BY <1>3, <1>4, Concat, ZenonT(30) DEF d
  <2> QED
    BY <1>4, <2>1, ZenonT(30)
<1> QED
  BY <1>2, <1>4, <1>5, <1>6, ZenonT(30) DEF Accepted

\* No other step of the producer or the owner touches what the worker holds.
LEMMA OtherPartiesStep ==
  ASSUME Producer \/ CloseReturns \/ shutdown \/ ShutdownReturns
                  \/ \E vb \in VBuckets : close_vbucket(vb)
  PROVE  UNCHANGED <<pc, held, partitions, pending, opaque, output, delivered>>
<1>1. ASSUME NEW f, Send(f)
      PROVE  UNCHANGED <<pc, held, partitions, pending, opaque, output, delivered>>
  BY <1>1, ZenonT(30) DEF Send, workerVars, ownerVars
<1>2. CASE Producer
  <2>1. CASE \E vb \in VBuckets : SendMarker(vb) \/ SendEvent(vb) \/ SendEnd(vb) \/ SendFaulty(vb)
    BY <1>1, <2>1, ZenonT(30) DEF SendMarker, SendEvent, SendEnd, SendFaulty
  <2>2. CASE (\E kind \in ExtraKinds : SendExtra(kind)) \/ AnswerClose
    BY <1>1, <2>2, ZenonT(30) DEF SendExtra, AnswerClose
  <2>3. CASE Disconnect
    BY <2>3, ZenonT(30) DEF Disconnect, workerVars, ownerVars
  <2> QED
    BY <1>2, <2>1, <2>2, <2>3, ZenonT(30) DEF Producer
<1>3. CASE CloseReturns \/ shutdown \/ ShutdownReturns \/ \E vb \in VBuckets : close_vbucket(vb)
  BY <1>3, ZenonT(30) DEF CloseReturns, shutdown, ShutdownReturns, close_vbucket, workerVars
<1> QED
  BY <1>2, <1>3, ZenonT(30)

\* Between frames the worker only changes where it is, and drops a stream it closed.
LEMMA BetweenFramesStep ==
  ASSUME ConnectionFails \/ AllStreamsEnded \/ HandleShutdown \/ HandleClose \/ SetAside
                         \/ CloseFails \/ CloseAnswered
  PROVE  /\ UNCHANGED <<output, delivered>>
         /\ pc \in {"select", "request"} /\ pc' \in {"select", "request", "closed", "error", "done"}
         /\ partitions' = partitions \/ partitions' = [partitions EXCEPT ![command.vb] = None]
<1>1. CASE ConnectionFails \/ AllStreamsEnded \/ HandleShutdown
  BY <1>1 DEF ConnectionFails, AllStreamsEnded, HandleShutdown, ownerVars
<1>2. CASE HandleClose \/ CloseFails
  BY <1>2 DEF HandleClose, CloseFails
<1>3. CASE SetAside
  BY <1>3 DEF SetAside, ownerVars
<1>4. CASE CloseAnswered
  BY <1>4 DEF CloseAnswered
<1> QED
  BY <1>1, <1>2, <1>3, <1>4, ZenonT(30)

\* Only HandleFrame accepts a frame, and only drop gives up what was accepted.
LEMMA AcceptedStep ==
  ASSUME WorkerInv, [Next]_vars, ~HandleFrame, ~drop
  PROVE  /\ \A vb \in VBuckets : Accepted(vb)' = Accepted(vb)
         /\ \A vb \in VBuckets : partitions'[vb] \in {partitions[vb], None}
         /\ Working' => Working
<1>0. WorkerType /\ partitions \in [VBuckets -> PartitionProgress \cup {None}]
  BY ZenonT(30) DEF WorkerInv, WorkerType
<1>1. ASSUME UNCHANGED <<output, delivered>>, Held' = Held, NEW vb \in VBuckets
      PROVE  Accepted(vb)' = Accepted(vb)
  BY <1>1, ZenonT(30) DEF Accepted
<1>2. CASE Producer \/ CloseReturns \/ shutdown \/ ShutdownReturns
                    \/ \E vb \in VBuckets : close_vbucket(vb)
  <2>1. UNCHANGED <<pc, held, partitions, output, delivered>>
    BY <1>2, OtherPartiesStep, ZenonT(30)
  <2>2. Held' = Held
    BY <2>1, ZenonT(30) DEF Held
  <2> QED
    BY <1>1, <2>1, <2>2, ZenonT(30) DEF Working
<1>3. CASE ConnectionFails \/ AllStreamsEnded \/ HandleShutdown \/ HandleClose \/ SetAside
                           \/ CloseFails \/ CloseAnswered
  <2>1. /\ UNCHANGED <<output, delivered>>
        /\ pc \in {"select", "request"} /\ pc' \in {"select", "request", "closed", "error", "done"}
        /\ partitions' = partitions \/ partitions' = [partitions EXCEPT ![command.vb] = None]
    BY <1>3, BetweenFramesStep, ZenonT(30)
  <2>2. Held = <<>> /\ Held' = <<>> /\ Working
    BY <2>1 DEF Held, Working
  <2>3. \A vb \in VBuckets : partitions'[vb] \in {partitions[vb], None}
    BY <1>0, <2>1, ZenonT(30)
  <2>4. Held' = Held
    BY <2>2
  <2> QED
    BY <1>1, <2>1, <2>2, <2>3, <2>4
<1>4. CASE QueueFrame \/ QueueClosed \/ QueueError
  <2>1. \/ partitions' = partitions
        \/ partitions' = [partitions EXCEPT ![held.vb] = None]
    BY <1>4, ZenonT(30) DEF QueueFrame, QueueClosed, QueueError
  <2>2. \A vb \in VBuckets : partitions'[vb] \in {partitions[vb], None}
    BY <1>0, <2>1, ZenonT(30)
  <2>3. pc \in {"queue", "closed"} \/ (pc = "error" /\ pc' = "done")
    BY <1>4, ZenonT(30) DEF QueueFrame, QueueClosed, QueueError
  <2>4. Working' => Working
    BY <2>3 DEF Working
  <2> QED
    BY <1>4, <2>2, <2>4, AcceptedQueued, ZenonT(30)
<1>5. CASE Read
  <2>1. UNCHANGED <<pc, partitions>>
    BY <1>5, ZenonT(30) DEF Read, workerVars
  <2> QED
    BY <1>5, <2>1, AcceptedRead, ZenonT(30) DEF Working
<1>6. CASE UNCHANGED vars
  <2>1. UNCHANGED <<pc, held, partitions, output, delivered>>
    BY <1>6, ZenonT(30) DEF vars, workerVars, ownerVars
  <2>2. Held' = Held
    BY <2>1, ZenonT(30) DEF Held
  <2> QED
    BY <1>1, <2>1, <2>2, ZenonT(30) DEF Working
<1> QED
  BY <1>2, <1>3, <1>4, <1>5, <1>6, ZenonT(30) DEF Next, Worker, Owner

\* PartitionProgress::observe only touches the stream of the frame, and never drops it.
LEMMA ObserveOthers ==
  ASSUME WorkerType, NEW f \in Frame, Observed(f), NEW vb \in VBuckets
  PROVE  /\ vb # f.vb => observe(f)[vb] = partitions[vb]
         /\ observe(f)[vb] = None => partitions[vb] = None
<1>1. /\ f.kind \in {"marker", "event", "end"} /\ f.vb \in VBuckets
      /\ f.seqno \in Nat /\ f.end \in Nat
      /\ partitions \in [VBuckets -> PartitionProgress \cup {None}]
      /\ partitions[f.vb] \in PartitionProgress
  <2>1. f.kind \in {"marker", "event", "end"} /\ partitions[f.vb] # None
    BY ZenonT(30) DEF Observed
  <2>2. f.vb \in VBuckets /\ f.seqno \in Nat /\ f.end \in Nat
    BY <2>1, FrameFields DEF StreamKinds
  <2> QED
    BY <2>1, <2>2, ZenonT(30) DEF WorkerType
<1> DEFINE p == partitions[f.vb]
           m == [p EXCEPT !.snapshot = <<f.seqno, f.end>>]
           e == [p EXCEPT !.last_seqno = f.seqno]
<1>2. m \in PartitionProgress /\ e \in PartitionProgress
  <2> HIDE DEF p
  <2>1. p \in PartitionProgress
    BY <1>1 DEF p
  <2> QED
    BY <1>1, <2>1 DEF PartitionProgress
<1>3. \/ observe(f) = [partitions EXCEPT ![f.vb] = m]
      \/ observe(f) = [partitions EXCEPT ![f.vb] = e]
      \/ observe(f) = partitions
  BY <1>1 DEF observe
<1> HIDE DEF m, e
<1>4. vb # f.vb => observe(f)[vb] = partitions[vb]
  BY <1>1, <1>3, ZenonT(30)
<1>5. observe(f)[f.vb] = None => partitions[f.vb] = None
  BY <1>1, <1>2, <1>3, NoneAssumption, ZenonT(30)
<1> QED
  BY <1>4, <1>5, ZenonT(30)

\* handle_frame accepts the frame, after the checks, or nothing.
LEMMA FrameAccepted ==
  ASSUME WorkerInv, pc = "select", NEW f \in Frame, handle_frame(f),
         UNCHANGED <<output, delivered>>, NEW vb \in VBuckets
  PROVE  \/ /\ f.vb = vb /\ Observed(f) /\ partitions' = observe(f)
            /\ Accepted(vb)' = Append(Accepted(vb), f)
         \/ /\ Accepted(vb)' = Accepted(vb)
            /\ Working' => partitions'[vb] = partitions[vb]
<1> DEFINE x == delivered[vb] \o Of(vb, output)
<1>0. WorkerType
  BY ZenonT(30) DEF WorkerInv
<1>1. x \in Seq(Frame)
  <2>1. delivered[vb] \in Seq(Frame) /\ Of(vb, output) \in Seq(Frame)
    BY OfType, ZenonT(30) DEF WorkerInv, WireType
  <2> QED
    BY <2>1, Concat, ZenonT(30)
<1>2. Accepted(vb) = x
  <2>1. Of(vb, Held) = <<>>
    BY OfEmpty DEF Held
  <2>2. Accepted(vb) = x \o Of(vb, Held)
    BY ZenonT(30) DEF Accepted
  <2> HIDE DEF x
  <2> QED
    BY <1>1, <2>1, <2>2, ConcatEmpty
<1>3. Accepted(vb)' = x \o Of(vb, Held')
  BY ZenonT(30) DEF Accepted
<1> HIDE DEF x
<1>4. ASSUME pc' # "queue" PROVE Accepted(vb)' = Accepted(vb)
  <2>1. Of(vb, Held') = <<>>
    BY <1>4, OfEmpty DEF Held
  <2> QED
    BY <1>1, <1>2, <1>3, <2>1, ConcatEmpty
<1>5. ASSUME pc' = "queue", held' = f, ~IsOf(vb, f) PROVE Accepted(vb)' = Accepted(vb)
  <2>1. Held' = <<f>>
    BY <1>5 DEF Held
  <2>2. Of(vb, Held') = <<>>
    BY <1>5, <2>1, OfOne
  <2> QED
    BY <1>1, <1>2, <1>3, <2>2, ConcatEmpty
<1>6. ASSUME pc' = "queue", held' = f, IsOf(vb, f) PROVE Accepted(vb)' = Append(Accepted(vb), f)
  <2>1. Held' = <<f>>
    BY <1>6 DEF Held
  <2>2. Of(vb, Held') = <<f>>
    BY <1>6, <2>1, OfOne
  <2> QED
    BY <1>1, <1>2, <1>3, <2>2, AppendOne, ZenonT(30)
<1>7. CASE f.kind = "noop" /\ pc' \in {"select"} \cup (IF eof THEN {"error"} ELSE {})
                           /\ UNCHANGED <<held, partitions>>
  BY <1>4, <1>7
<1>8. CASE f.kind \in {"config", "unknown"} /\ pc' = "queue" /\ held' = f /\ UNCHANGED partitions
  <2>1. ~IsOf(vb, f)
    BY <1>8 DEF IsOf, StreamKinds
  <2> QED
    BY <1>5, <1>8, <2>1, ZenonT(30)
<1>9. CASE f.kind \in StreamKinds /\ Observed(f) /\ pc' = "queue" /\ held' = f
                                  /\ partitions' = observe(f)
  <2>1. CASE f.vb = vb
    BY <1>6, <1>9, <2>1, ZenonT(30) DEF IsOf
  <2>2. CASE f.vb # vb
    BY <1>0, <1>5, <1>9, <2>2, ObserveOthers, ZenonT(30) DEF IsOf
  <2> QED
    BY <2>1, <2>2, ZenonT(30)
<1>10. CASE pc' = "error"
  <2>1. pc' # "queue" /\ ~Working'
    BY <1>10 DEF Working
  <2> QED
    BY <1>4, <2>1, ZenonT(30)
<1> QED
  BY <1>7, <1>8, <1>9, <1>10, ZenonT(30) DEF handle_frame

\* Every step keeps what was accepted in order, and the progress of the streams with it.
LEMMA AcceptingStep ==
  ASSUME WorkerInv, [Next]_vars, Accepting
  PROVE  Accepting'
<1> SUFFICES ASSUME NEW vb \in VBuckets
             PROVE  /\ InSnapshots(Accepted(vb)')
                    /\ Working' /\ partitions'[vb] # None => Follows(partitions'[vb], Accepted(vb)')
  BY ZenonT(30) DEF Accepting
<1>0. /\ InSnapshots(Accepted(vb))
      /\ Working /\ partitions[vb] # None => Follows(partitions[vb], Accepted(vb))
  BY ZenonT(30) DEF Accepting
<1>1. CASE HandleFrame
  <2>0. WorkerType /\ WireType /\ pc = "select" /\ UNCHANGED <<output, delivered>>
    BY <1>1, ZenonT(30) DEF WorkerInv, HandleFrame, ownerVars
  <2>1. PICK f : Receive(f) /\ handle_frame(f)
    BY <1>1, ZenonT(30) DEF HandleFrame
  <2>2. f \in Frame
    BY <2>0, <2>1, ReceiveStep, ZenonT(30)
  <2>3. Working /\ Accepted(vb) \in Seq(Frame)
    BY <2>0, AcceptedSent DEF Working
  <2>4. CASE f.vb = vb /\ Observed(f) /\ partitions' = observe(f)
             /\ Accepted(vb)' = Append(Accepted(vb), f)
    <3>1. partitions[f.vb] # None
      BY <2>4, ZenonT(30) DEF Observed
    <3>2. Follows(partitions[f.vb], Accepted(vb))
      BY <1>0, <2>3, <2>4, <3>1, ZenonT(30)
    <3>3. /\ InSnapshots(Append(Accepted(vb), f))
          /\ Follows(observe(f)[f.vb], Append(Accepted(vb), f))
      BY <1>0, <2>0, <2>2, <2>3, <2>4, <3>2, ObserveFollows, ZenonT(30)
    <3> QED
      BY <2>4, <3>3, ZenonT(30)
  <2>5. CASE Accepted(vb)' = Accepted(vb) /\ (Working' => partitions'[vb] = partitions[vb])
    BY <1>0, <2>3, <2>5, ZenonT(30)
  <2> QED
    BY <2>0, <2>1, <2>2, <2>4, <2>5, FrameAccepted, ZenonT(30)
<1>2. CASE drop
  <2> DEFINE d == delivered[vb]
             o == Of(vb, output)
             h == Of(vb, Held)
  <2>1. pc' = "done" /\ output' = <<>> /\ delivered' = delivered
    BY <1>2, ZenonT(30) DEF drop
  <2>2. d \in Seq(Frame) /\ o \in Seq(Frame) /\ h \in Seq(Frame)
    <3>1. Held \in Seq(Frame)
      BY DEF WorkerInv, WorkerType, Held
    <3> QED
      BY <3>1, OfType, ZenonT(30) DEF WorkerInv, WireType
  <2>3. Accepted(vb) = (d \o o) \o h
    BY ZenonT(30) DEF Accepted
  <2>4. Accepted(vb)' = (d \o Of(vb, output')) \o Of(vb, Held')
    BY <2>1, ZenonT(30) DEF Accepted
  <2>5. Of(vb, output') = <<>> /\ Of(vb, Held') = <<>>
    BY <2>1, OfEmpty DEF Held
  <2> HIDE DEF d, o, h
  <2>6. Accepted(vb)' = d
    BY <2>2, <2>4, <2>5, ConcatEmpty
  <2>7. (d \o o) \o h = d \o (o \o h) /\ o \o h \in Seq(Frame)
    <3>1. \A c \in Seq(Frame) : (d \o o) \o c = d \o (o \o c)
      BY <2>2, Concat, ZenonT(30)
    <3> QED
      BY <2>2, <3>1, Concat, ZenonT(30)
  <2>8. InSnapshots(d)
    <3>1. InSnapshots(d \o (o \o h))
      BY <1>0, <2>3, <2>7, ZenonT(30)
    <3> QED
      BY <2>2, <2>7, <3>1, SnapshotsPrefix, ZenonT(30)
  <2>9. ~Working'
    BY <2>1 DEF Working
  <2> QED
    BY <2>6, <2>8, <2>9, ZenonT(30)
<1>3. CASE ~HandleFrame /\ ~drop
  <2>1. /\ Accepted(vb)' = Accepted(vb) /\ partitions'[vb] \in {partitions[vb], None}
        /\ Working' => Working
    BY <1>3, AcceptedStep, ZenonT(30)
  <2> QED
    BY <1>0, <2>1, ZenonT(30)
<1> QED
  BY <1>1, <1>2, <1>3, ZenonT(30)

\* Nothing is accepted before the first frame.
LEMMA AcceptedInit ==
  ASSUME Init, NEW vb \in VBuckets
  PROVE  Accepted(vb) = <<>>
<1>1. delivered[vb] = <<>> /\ output = <<>> /\ Held = <<>>
  BY DEF Init, Held
<1>2. Of(vb, output) = <<>> /\ Of(vb, Held) = <<>>
  BY <1>1, OfEmpty
<1> QED
  BY <1>1, <1>2 DEF Accepted

\* The progress of the streams starts with nothing.
LEMMA AcceptingInit == Init => Accepting
<1> SUFFICES ASSUME Init, NEW vb \in VBuckets
             PROVE  /\ InSnapshots(Accepted(vb))
                    /\ partitions[vb] # None => Follows(partitions[vb], Accepted(vb))
  BY ZenonT(30) DEF Accepting
<1>1. Accepted(vb) = <<>>
  BY AcceptedInit
<1>2. partitions[vb] # None => partitions[vb] = [last_seqno |-> 0, snapshot |-> <<>>]
  BY DEF Init
<1>3. InSnapshots(<<>>)
  BY DEF InSnapshots
<1>4. Follows([last_seqno |-> 0, snapshot |-> <<>>], <<>>)
  <2>1. <<>> \notin Nat \X Nat
    OBVIOUS
  <2> QED
    BY <2>1 DEF Follows
<1> QED
  BY <1>1, <1>2, <1>3, <1>4

\* What is delivered is the start of what was accepted.
LEMMA AcceptedDelivered == WorkerInv /\ Accepting => DeliveredInSnapshots
<1> SUFFICES ASSUME WorkerInv, Accepting, NEW vb \in VBuckets PROVE InSnapshots(delivered[vb])
  BY ZenonT(30) DEF DeliveredInSnapshots, InSnapshots
<1> DEFINE d == delivered[vb]
           o == Of(vb, output)
           h == Of(vb, Held)
<1>1. d \in Seq(Frame) /\ o \in Seq(Frame) /\ h \in Seq(Frame)
  <2>1. Held \in Seq(Frame)
    BY DEF WorkerInv, WorkerType, Held
  <2> QED
    BY <2>1, OfType, ZenonT(30) DEF WorkerInv, WireType
<1>2. InSnapshots((d \o o) \o h)
  BY ZenonT(30) DEF Accepting, Accepted
<1> HIDE DEF d, o, h
<1>3. d \o o \in Seq(Frame)
  BY <1>1, Concat, ZenonT(30)
<1>4. InSnapshots(d \o o)
  BY <1>1, <1>2, <1>3, SnapshotsPrefix, ZenonT(30)
<1>5. InSnapshots(d)
  BY <1>1, <1>4, SnapshotsPrefix, ZenonT(30)
<1> QED
  BY <1>5, ZenonT(30) DEF d

\* Whatever the producer sends, the events the owner gets of a stream increase and lie in
\* the snapshot announced last: the worker checks each frame against its progress, which
\* follows what it has accepted.
THEOREM SnapshotTheorem == Spec => []DeliveredInSnapshots
<1>1. WorkerInv /\ Accepting /\ [Next]_vars => WorkerInv' /\ Accepting'
  BY WorkerStep, AcceptingStep, ZenonT(30)
<1> QED
  BY <1>1, WorkerInit, AcceptingInit, AcceptedDelivered, PTL DEF Spec

=============================================================================

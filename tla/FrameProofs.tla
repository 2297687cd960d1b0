---------------------------- MODULE FrameProofs ----------------------------
(***************************************************************************)
(* Lemmas about sequences of frames for the proofs about StreamWorker: the *)
(* frames of one stream among others (Of) and their flow-controlled bytes  *)
(* (Bytes), of a sequence that grows at its end and of a concatenation.    *)
(*                                                                         *)
(* Of and Bytes are recursive functions on the prefixes of a sequence.     *)
(* The induction they need is over a set of numbers, which has a least     *)
(* element (WFMin, of the library).                                        *)
(***************************************************************************)
EXTENDS StreamWorker, TLAPS, SequenceTheorems, WellFoundedInduction

\* For the steps that name no prover: an SMT solver, then Zenon.
USE SMTT(30), ZenonT(30)

\* A set that has 0, and with every number the next, has all numbers.
LEMMA SetInduction ==
  ASSUME NEW T, 0 \in T, \A n \in Nat : n \in T => n + 1 \in T
  PROVE  \A n \in Nat : n \in T
<1> DEFINE S == Nat \ T
<1> SUFFICES ASSUME S # {} PROVE FALSE
  BY ZenonT(30)
<1>1. PICK m \in S : \A x \in S : ~(<<x, m>> \in OpToRel(<, Nat))
  <2>1. S \in SUBSET Nat
    BY ZenonT(30)
  <2> HIDE DEF S
  <2> QED
    BY <2>1, NatLessThanWellFounded, WFMin, ZenonT(30)
<1>2. m \in Nat /\ m # 0 /\ m - 1 \in Nat
  <2>1. m \in Nat /\ m # 0
    BY ZenonT(30)
  <2> QED
    BY <2>1
<1>3. m - 1 \notin S
  <2> SUFFICES ASSUME m - 1 \in S PROVE FALSE
    OBVIOUS
  <2> DEFINE k == m - 1
  <2>1. k \in Nat /\ k < m
    BY <1>2
  <2> HIDE DEF k
  <2>2. <<k, m>> \in Nat \X Nat /\ <<k, m>>[1] = k /\ <<k, m>>[2] = m
    BY <1>2, <2>1
  <2>3. <<k, m>>[1] < <<k, m>>[2]
    BY <2>1, <2>2, ZenonT(30)
  <2>4. <<k, m>> \in OpToRel(<, Nat)
    BY <2>2, <2>3, ZenonT(30) DEF OpToRel
  <2> QED
    BY <1>1, <2>4, ZenonT(30) DEF k
<1>4. m - 1 \in T /\ m = (m - 1) + 1
  BY <1>2, <1>3
<1> QED
  BY <1>1, <1>2, <1>4, ZenonT(30)

\* A value for every number up to n, each from the one before.
Steps(n, A, a, g) ==
  {f \in [0..n -> A] : f[0] = a /\ \A i \in 1..n : f[i] = g[<<i, f[i - 1]>>]}

\* Such values exist: what a recursive function over 0..n is chosen from is not empty.
LEMMA StepsExist ==
  ASSUME NEW N \in Nat, NEW A, NEW a \in A, NEW g \in [(1..N) \X A -> A]
  PROVE  Steps(N, A, a, g) # {}
<1> DEFINE Has(n) == \E f \in [0..n -> A] :
                        f[0] = a /\ \A i \in 1..n : f[i] = g[<<i, f[i - 1]>>]
           T == {n \in Nat : n <= N => Has(n)}
<1>1. 0 \in T
  <2>1. [i \in 0..0 |-> a] \in [0..0 -> A] /\ [i \in 0..0 |-> a][0] = a
    OBVIOUS
  <2>2. 1..0 = {}
    OBVIOUS
  <2> QED
    BY <2>1, <2>2, ZenonT(30)
<1>2. ASSUME NEW n \in Nat, n \in T PROVE n + 1 \in T
  <2> SUFFICES ASSUME n + 1 <= N PROVE Has(n + 1)
    OBVIOUS
  <2>1. n <= N
    OBVIOUS
  <2>2. PICK f \in [0..n -> A] : f[0] = a /\ \A i \in 1..n : f[i] = g[<<i, f[i - 1]>>]
    BY <1>2, <2>1, ZenonT(30)
  <2>3. f[n] \in A /\ n + 1 \in 1..N
    BY <2>1, <2>2
  <2>4. <<n + 1, f[n]>> \in (1..N) \X A
    BY <2>3, ZenonT(30)
  <2> DEFINE last == g[<<n + 1, f[n]>>]
             h == [i \in 0..(n + 1) |-> IF i <= n THEN f[i] ELSE last]
  <2>5. last \in A
    BY <2>4, ZenonT(30)
  <2>6. h \in [0..(n + 1) -> A]
    <3> HIDE DEF last
    <3> QED
      BY <2>2, <2>5
  <2>7. h[0] = a
    <3> HIDE DEF last
    <3> QED
      BY <2>2
  <2>8. ASSUME NEW i \in 1..(n + 1) PROVE h[i] = g[<<i, h[i - 1]>>]
    <3>1. i - 1 \in 0..(n + 1) /\ i - 1 <= n /\ i \in 0..(n + 1)
      OBVIOUS
    <3>2. h[i - 1] = f[i - 1]
      BY <3>1, ZenonT(30)
    <3>3. CASE i <= n
      <4>1. h[i] = f[i] /\ i \in 1..n
        BY <3>1, <3>3
      <4> QED
        BY <2>2, <3>2, <4>1, ZenonT(30)
    <3>4. CASE ~(i <= n)
      <4>1. i = n + 1 /\ i - 1 = n
        BY <3>4
      <4>2. h[i] = last
        BY <3>1, <3>4, ZenonT(30)
      <4> QED
        BY <3>2, <4>1, <4>2, ZenonT(30)
    <3> QED
      BY <3>3, <3>4, ZenonT(30)
  <2> QED
    BY <2>6, <2>7, <2>8, ZenonT(30)
<1> HIDE DEF T
<1>3. N \in T
  BY <1>1, <1>2, SetInduction, ZenonT(30)
<1>4. Has(N)
  BY <1>3 DEF T
<1> QED
  BY <1>4, ZenonT(30) DEF Steps

\* A sequence of frames that is not empty has a last one.
LEMMA LastFrame ==
  ASSUME NEW n \in Nat, NEW w \in Seq(Frame), Len(w) = n + 1
  PROVE  \E u \in Seq(Frame), x \in Frame : w = Append(u, x) /\ Len(u) = n
<1> DEFINE u == SubSeq(w, 1, n)
<1>1. u \in Seq(Frame) /\ Len(u) = n /\ w[n + 1] \in Frame
  OBVIOUS
<1>2. w = Append(u, w[n + 1])
  OBVIOUS
<1> QED
  BY <1>1, <1>2, ZenonT(30)

\* Appending to the second of two sequences appends to both.
LEMMA AppendConcat ==
  ASSUME NEW s \in Seq(Frame), NEW u \in Seq(Frame), NEW x \in Frame
  PROVE  Append(s \o u, x) = s \o Append(u, x)
  OBVIOUS

\* Appending is concatenation with one frame.
LEMMA AppendOne ==
  ASSUME NEW s \in Seq(Frame), NEW x \in Frame
  PROVE  Append(s, x) = s \o <<x>>
  OBVIOUS

-----------------------------------------------------------------------------
(* Of.                                                                     *)

\* A frame of the stream.
IsOf(vb, f) == f.vb = vb /\ f.kind \in StreamKinds

\* What Of computes along the frames.
OfSteps(vb, frames, f) ==
  /\ f \in [0..Len(frames) -> Seq(Frame)]
  /\ f[0] = <<>>
  /\ \A i \in 1..Len(frames) :
       f[i] = IF IsOf(vb, frames[i]) THEN Append(f[i - 1], frames[i]) ELSE f[i - 1]

\* Of is the end of such steps.
LEMMA OfStepsEnd ==
  ASSUME NEW vb, NEW frames \in Seq(Frame)
  PROVE  \E f : OfSteps(vb, frames, f) /\ Of(vb, frames) = f[Len(frames)]
<1> DEFINE N == Len(frames)
           A == Seq(Frame)
           g == [p \in (1..N) \X A |->
                  IF IsOf(vb, frames[p[1]]) THEN Append(p[2], frames[p[1]]) ELSE p[2]]
           F(f) == [i \in 0..N |->
                     IF i = 0 THEN <<>>
                     ELSE IF frames[i].vb = vb /\ frames[i].kind \in StreamKinds
                          THEN Append(f[i - 1], frames[i])
                          ELSE f[i - 1]]
           of == CHOOSE f : f = F(f)
<1>0. N \in Nat /\ \A i \in 1..N : frames[i] \in Frame
  OBVIOUS
<1>1. g \in [(1..N) \X A -> A]
  <2> SUFFICES ASSUME NEW i \in 1..N, NEW s \in A
               PROVE  (IF IsOf(vb, frames[i]) THEN Append(s, frames[i]) ELSE s) \in A
    BY ZenonT(30)
  <2>1. frames[i] \in Frame
    BY <1>0, ZenonT(30)
  <2>2. Append(s, frames[i]) \in A
    BY <2>1
  <2> QED
    BY <2>2, ZenonT(30)
<1>2. PICK f \in [0..N -> A] : f[0] = <<>> /\ \A i \in 1..N : f[i] = g[<<i, f[i - 1]>>]
  <2> DEFINE a == <<>>
  <2>1. a \in A
    OBVIOUS
  <2> HIDE DEF g, A, N, a
  <2>2. Steps(N, A, a, g) # {}
    BY <1>0, <1>1, <2>1, StepsExist, ZenonT(30)
  <2> QED
    BY <2>2, ZenonT(30) DEF a, Steps
<1>3. ASSUME NEW i \in 1..N
      PROVE  /\ f[i] = IF IsOf(vb, frames[i]) THEN Append(f[i - 1], frames[i]) ELSE f[i - 1]
             /\ i - 1 \in 0..N /\ i \in 0..N /\ i # 0
  <2>1. i - 1 \in 0..N /\ i \in 0..N /\ i # 0
    BY <1>0
  <2>2. <<i, f[i - 1]>> \in (1..N) \X A /\ <<i, f[i - 1]>>[1] = i /\ <<i, f[i - 1]>>[2] = f[i - 1]
    BY <1>2, <2>1
  <2> QED
    BY <1>2, <2>1, <2>2, ZenonT(30)
<1>4. f = F(f)
  <2>1. \A i \in 0..N : f[i] = F(f)[i]
    <3> SUFFICES ASSUME NEW i \in 0..N PROVE f[i] = F(f)[i]
      BY ZenonT(30)
    <3>1. CASE i = 0
      BY <1>2, <3>1, ZenonT(30)
    <3>2. CASE i # 0
      <4>1. i \in 1..N
        BY <1>0, <3>2
      <4> QED
        BY <1>3, <3>2, <4>1, ZenonT(30) DEF IsOf
    <3> QED
      BY <3>1, <3>2, ZenonT(30)
  <2> QED
    BY <1>2, <2>1, ZenonT(30)
<1>5. of = F(of)
  BY <1>4, ZenonT(30)
<1> HIDE DEF of
<1>6. of[0] = <<>>
  <2>1. 0 \in 0..N
    BY <1>0
  <2> QED
    BY <1>5, <2>1, ZenonT(30)
<1>7. ASSUME NEW i \in 1..N
      PROVE  of[i] = IF IsOf(vb, frames[i]) THEN Append(of[i - 1], frames[i]) ELSE of[i - 1]
  BY <1>3, <1>5, ZenonT(30) DEF IsOf
<1> DEFINE T == {n \in Nat : n <= N => of[n] = f[n]}
<1>8. 0 \in T
  BY <1>2, <1>6, ZenonT(30)
<1>9. ASSUME NEW n \in Nat, n \in T PROVE n + 1 \in T
  <2> SUFFICES ASSUME n + 1 <= N PROVE of[n + 1] = f[n + 1]
    OBVIOUS
  <2>1. n + 1 \in 1..N /\ (n + 1) - 1 = n /\ n <= N
    BY <1>0
  <2>2. of[n] = f[n]
    BY <1>9, <2>1, ZenonT(30)
  <2> QED
    BY <1>3, <1>7, <2>1, <2>2, ZenonT(30)
<1>10. \A i \in 0..N : of[i] = f[i]
  <2> HIDE DEF T
  <2>1. \A n \in Nat : n \in T
    BY <1>8, <1>9, SetInduction, ZenonT(30)
  <2> QED
    BY <1>0, <2>1 DEF T
<1>11. OfSteps(vb, frames, of)
  <2>1. of \in [0..N -> A]
    BY <1>2, <1>5, <1>10, ZenonT(30)
  <2> QED
    BY <1>6, <1>7, <2>1, ZenonT(30) DEF OfSteps
<1>12. Of(vb, frames) = of[N]
  BY ZenonT(30) DEF Of, of
<1> QED
  BY <1>11, <1>12, ZenonT(30)

\* The frames of one stream are frames.
LEMMA OfType ==
  ASSUME NEW vb, NEW s \in Seq(Frame)
  PROVE  Of(vb, s) \in Seq(Frame)
<1>1. PICK f : OfSteps(vb, s, f) /\ Of(vb, s) = f[Len(s)]
  BY OfStepsEnd, ZenonT(30)
<1>2. Len(s) \in 0..Len(s)
  OBVIOUS
<1> QED
  BY <1>1, <1>2, ZenonT(30) DEF OfSteps

\* Nothing is of a stream among no frames.
LEMMA OfEmpty ==
  ASSUME NEW vb
  PROVE  Of(vb, <<>>) = <<>>
<1> DEFINE e == <<>>
<1>1. e \in Seq(Frame) /\ Len(e) = 0
  OBVIOUS
<1> HIDE DEF e
<1>2. PICK f : OfSteps(vb, e, f) /\ Of(vb, e) = f[Len(e)]
  BY <1>1, OfStepsEnd, ZenonT(30)
<1>3. f[0] = <<>>
  BY <1>2, ZenonT(30) DEF OfSteps
<1> QED
  BY <1>1, <1>2, <1>3 DEF e

\* A frame at the end is added to its stream.
LEMMA OfAppend ==
  ASSUME NEW vb, NEW s \in Seq(Frame), NEW x \in Frame
  PROVE  Of(vb, Append(s, x)) = IF IsOf(vb, x) THEN Append(Of(vb, s), x) ELSE Of(vb, s)
<1> DEFINE t == Append(s, x)
<1>0. /\ t \in Seq(Frame) /\ Len(t) = Len(s) + 1 /\ Len(s) \in Nat
      /\ t[Len(s) + 1] = x /\ \A i \in 1..Len(s) : t[i] = s[i]
  OBVIOUS
<1> HIDE DEF t
<1>1. PICK f : OfSteps(vb, t, f) /\ Of(vb, t) = f[Len(t)]
  BY <1>0, OfStepsEnd, ZenonT(30)
<1>2. PICK h : OfSteps(vb, s, h) /\ Of(vb, s) = h[Len(s)]
  BY OfStepsEnd, ZenonT(30)
<1> DEFINE T == {n \in Nat : n <= Len(s) => f[n] = h[n]}
<1>3. 0 \in T
  BY <1>1, <1>2, ZenonT(30) DEF OfSteps
<1>4. ASSUME NEW n \in Nat, n \in T PROVE n + 1 \in T
  <2> SUFFICES ASSUME n + 1 <= Len(s) PROVE f[n + 1] = h[n + 1]
    OBVIOUS
  <2>1. /\ n + 1 \in 1..Len(s) /\ n + 1 \in 1..Len(t) /\ (n + 1) - 1 = n /\ n <= Len(s)
    BY <1>0
  <2>2. f[n] = h[n]
    BY <1>4, <2>1, ZenonT(30)
  <2> QED
    BY <1>0, <1>1, <1>2, <2>1, <2>2, ZenonT(30) DEF OfSteps
<1> HIDE DEF T
<1>5. \A n \in Nat : n \in T
  BY <1>3, <1>4, SetInduction, ZenonT(30)
<1>6. f[Len(s)] = h[Len(s)]
  BY <1>0, <1>5 DEF T
<1>7. Len(t) \in 1..Len(t) /\ Len(t) - 1 = Len(s)
  BY <1>0
<1> QED
  BY <1>0, <1>1, <1>2, <1>6, <1>7, ZenonT(30) DEF OfSteps, t

\* Of one frame.
LEMMA OfOne ==
  ASSUME NEW vb, NEW x \in Frame
  PROVE  Of(vb, <<x>>) = IF IsOf(vb, x) THEN <<x>> ELSE <<>>
<1> DEFINE e == <<>>
<1>1. e \in Seq(Frame) /\ Append(e, x) = <<x>>
  OBVIOUS
<1>2. Of(vb, e) = e
  BY OfEmpty, ZenonT(30)
<1> HIDE DEF e
<1>3. Of(vb, Append(e, x)) = IF IsOf(vb, x) THEN Append(e, x) ELSE e
  BY <1>1, <1>2, OfAppend, ZenonT(30)
<1> QED
  BY <1>1, <1>3, ZenonT(30) DEF e

\* The frames of one stream in a concatenation.
LEMMA OfConcat ==
  ASSUME NEW vb, NEW s \in Seq(Frame), NEW t \in Seq(Frame)
  PROVE  Of(vb, s \o t) = Of(vb, s) \o Of(vb, t)
<1> DEFINE T == {n \in Nat : \A w \in Seq(Frame) :
                   Len(w) = n => Of(vb, s \o w) = Of(vb, s) \o Of(vb, w)}
<1>1. 0 \in T
  <2> SUFFICES ASSUME NEW w \in Seq(Frame), Len(w) = 0
               PROVE  Of(vb, s \o w) = Of(vb, s) \o Of(vb, w)
    OBVIOUS
  <2>1. w = <<>>
    BY EmptySeq
  <2>2. s \o w = s
    BY <2>1
  <2>3. Of(vb, w) = <<>>
    BY <2>1, OfEmpty
  <2>4. Of(vb, s) \o Of(vb, w) = Of(vb, s)
    BY <2>3, OfType
  <2> QED
    BY <2>2, <2>4, ZenonT(30)
<1>2. ASSUME NEW n \in Nat, n \in T PROVE n + 1 \in T
  <2> SUFFICES ASSUME NEW w \in Seq(Frame), Len(w) = n + 1
               PROVE  Of(vb, s \o w) = Of(vb, s) \o Of(vb, w)
    OBVIOUS
  <2>1. PICK u \in Seq(Frame), x \in Frame : w = Append(u, x) /\ Len(u) = n
    BY LastFrame
  <2>2. Of(vb, s \o u) = Of(vb, s) \o Of(vb, u)
    BY <1>2, <2>1, ZenonT(30)
  <2>3. s \o w = Append(s \o u, x) /\ s \o u \in Seq(Frame)
    BY <2>1, AppendConcat, ConcatProperties, ZenonT(30)
  <2>4. Of(vb, s) \in Seq(Frame) /\ Of(vb, u) \in Seq(Frame)
    BY OfType, ZenonT(30)
  <2>5. Append(Of(vb, s) \o Of(vb, u), x) = Of(vb, s) \o Append(Of(vb, u), x)
    BY <2>4, AppendConcat, ZenonT(60)
  <2> QED
    BY <2>1, <2>2, <2>3, <2>5, OfAppend, ZenonT(60)
<1> HIDE DEF T
<1>3. Len(t) \in T
  BY <1>1, <1>2, SetInduction, LenProperties, ZenonT(30)
<1> QED
  BY <1>3, ZenonT(30) DEF T

\* The first frame.
LEMMA OfHead ==
  ASSUME NEW vb, NEW s \in Seq(Frame), s # <<>>
  PROVE  Of(vb, s) = (IF IsOf(vb, Head(s)) THEN <<Head(s)>> ELSE <<>>) \o Of(vb, Tail(s))
<1>1. /\ Head(s) \in Frame /\ Tail(s) \in Seq(Frame) /\ <<Head(s)>> \in Seq(Frame)
      /\ s = <<Head(s)>> \o Tail(s)
  OBVIOUS
<1>2. Of(vb, <<Head(s)>> \o Tail(s)) = Of(vb, <<Head(s)>>) \o Of(vb, Tail(s))
  BY <1>1, OfConcat, ZenonT(30)
<1> QED
  BY <1>1, <1>2, OfOne, ZenonT(30)

-----------------------------------------------------------------------------
(* Bytes.                                                                  *)

\* A size is a number.
LEMMA WireSizeType ==
  ASSUME NEW f
  PROVE  WireSize(f) \in Nat
<1>1. CASE f.kind = "event"
  BY <1>1 DEF WireSize
<1>2. CASE f.kind # "event" /\ f.kind \in {"marker", "end", "foreign", "unknown"}
  BY <1>2 DEF WireSize
<1>3. CASE f.kind # "event" /\ f.kind \notin {"marker", "end", "foreign", "unknown"}
  BY <1>3 DEF WireSize
<1> QED
  BY <1>1, <1>2, <1>3, ZenonT(30)

\* What Bytes computes along the frames.
BytesSteps(frames, f) ==
  /\ f \in [0..Len(frames) -> Nat]
  /\ f[0] = 0
  /\ \A i \in 1..Len(frames) : f[i] = f[i - 1] + WireSize(frames[i])

\* Bytes is the end of such steps.
LEMMA BytesStepsEnd ==
  ASSUME NEW frames \in Seq(Frame)
  PROVE  \E f : BytesSteps(frames, f) /\ Bytes(frames) = f[Len(frames)]
<1> DEFINE N == Len(frames)
           g == [p \in (1..N) \X Nat |-> p[2] + WireSize(frames[p[1]])]
           F(f) == [i \in 0..N |-> IF i = 0 THEN 0 ELSE f[i - 1] + WireSize(frames[i])]
           bytes == CHOOSE f : f = F(f)
<1>0. N \in Nat
  OBVIOUS
<1>1. g \in [(1..N) \X Nat -> Nat]
  <2> SUFFICES ASSUME NEW i \in 1..N, NEW n \in Nat
               PROVE  n + WireSize(frames[i]) \in Nat
    BY ZenonT(30)
  <2>1. WireSize(frames[i]) \in Nat
    BY WireSizeType, ZenonT(30)
  <2> QED
    BY <2>1
<1>2. PICK f \in [0..N -> Nat] : f[0] = 0 /\ \A i \in 1..N : f[i] = g[<<i, f[i - 1]>>]
  <2>1. 0 \in Nat
    OBVIOUS
  <2> HIDE DEF g, N
  <2>2. Steps(N, Nat, 0, g) # {}
    BY <1>0, <1>1, <2>1, StepsExist, ZenonT(30)
  <2> QED
    BY <2>2, ZenonT(30) DEF Steps
<1>3. ASSUME NEW i \in 1..N
      PROVE  /\ f[i] = f[i - 1] + WireSize(frames[i])
             /\ i - 1 \in 0..N /\ i \in 0..N /\ i # 0
  <2>1. i - 1 \in 0..N /\ i \in 0..N /\ i # 0
    BY <1>0
  <2>2. /\ <<i, f[i - 1]>> \in (1..N) \X Nat
        /\ <<i, f[i - 1]>>[1] = i /\ <<i, f[i - 1]>>[2] = f[i - 1]
    BY <1>2, <2>1
  <2> QED
    BY <1>2, <2>1, <2>2, ZenonT(30)
<1>4. f = F(f)
  <2>1. \A i \in 0..N : f[i] = F(f)[i]
    <3> SUFFICES ASSUME NEW i \in 0..N PROVE f[i] = F(f)[i]
      BY ZenonT(30)
    <3>1. CASE i = 0
      BY <1>2, <3>1, ZenonT(30)
    <3>2. CASE i # 0
      <4>1. i \in 1..N
        BY <1>0, <3>2
      <4> QED
        BY <1>3, <3>2, <4>1, ZenonT(30)
    <3> QED
      BY <3>1, <3>2, ZenonT(30)
  <2> QED
    BY <1>2, <2>1, ZenonT(30)
<1>5. bytes = F(bytes)
  BY <1>4, ZenonT(30)
<1> HIDE DEF bytes
<1>6. bytes[0] = 0
  <2>1. 0 \in 0..N
    BY <1>0
  <2> QED
    BY <1>5, <2>1, ZenonT(30)
<1>7. ASSUME NEW i \in 1..N PROVE bytes[i] = bytes[i - 1] + WireSize(frames[i])
  BY <1>3, <1>5, ZenonT(30)
<1> DEFINE T == {n \in Nat : n <= N => bytes[n] = f[n]}
<1>8. 0 \in T
  BY <1>2, <1>6, ZenonT(30)
<1>9. ASSUME NEW n \in Nat, n \in T PROVE n + 1 \in T
  <2> SUFFICES ASSUME n + 1 <= N PROVE bytes[n + 1] = f[n + 1]
    OBVIOUS
  <2>1. n + 1 \in 1..N /\ (n + 1) - 1 = n /\ n <= N
    BY <1>0
  <2>2. bytes[n] = f[n]
    BY <1>9, <2>1, ZenonT(30)
  <2> QED
    BY <1>3, <1>7, <2>1, <2>2, ZenonT(30)
<1>10. \A i \in 0..N : bytes[i] = f[i]
  <2> HIDE DEF T
  <2>1. \A n \in Nat : n \in T
    BY <1>8, <1>9, SetInduction, ZenonT(30)
  <2> QED
    BY <1>0, <2>1 DEF T
<1>11. BytesSteps(frames, bytes)
  <2>1. bytes \in [0..N -> Nat]
    BY <1>2, <1>5, <1>10, ZenonT(30)
  <2> QED
    BY <1>6, <1>7, <2>1, ZenonT(30) DEF BytesSteps
<1>12. Bytes(frames) = bytes[N]
  BY ZenonT(30) DEF Bytes, bytes
<1> QED
  BY <1>11, <1>12, ZenonT(30)

\* The bytes of frames are a number.
LEMMA BytesType ==
  ASSUME NEW s \in Seq(Frame)
  PROVE  Bytes(s) \in Nat
<1>1. PICK f : BytesSteps(s, f) /\ Bytes(s) = f[Len(s)]
  BY BytesStepsEnd, ZenonT(30)
<1>2. Len(s) \in 0..Len(s)
  OBVIOUS
<1> QED
  BY <1>1, <1>2, ZenonT(30) DEF BytesSteps

\* No frames have no bytes.
LEMMA BytesEmpty == Bytes(<<>>) = 0
<1> DEFINE e == <<>>
<1>1. e \in Seq(Frame) /\ Len(e) = 0
  OBVIOUS
<1> HIDE DEF e
<1>2. PICK f : BytesSteps(e, f) /\ Bytes(e) = f[Len(e)]
  BY <1>1, BytesStepsEnd, ZenonT(30)
<1>3. f[0] = 0
  BY <1>2, ZenonT(30) DEF BytesSteps
<1> QED
  BY <1>1, <1>2, <1>3 DEF e

\* A frame at the end adds its size.
LEMMA BytesAppend ==
  ASSUME NEW s \in Seq(Frame), NEW x \in Frame
  PROVE  Bytes(Append(s, x)) = Bytes(s) + WireSize(x)
<1> DEFINE t == Append(s, x)
<1>0. /\ t \in Seq(Frame) /\ Len(t) = Len(s) + 1 /\ Len(s) \in Nat
      /\ t[Len(s) + 1] = x /\ \A i \in 1..Len(s) : t[i] = s[i]
  OBVIOUS
<1> HIDE DEF t
<1>1. PICK f : BytesSteps(t, f) /\ Bytes(t) = f[Len(t)]
  BY <1>0, BytesStepsEnd, ZenonT(30)
<1>2. PICK h : BytesSteps(s, h) /\ Bytes(s) = h[Len(s)]
  BY BytesStepsEnd, ZenonT(30)
<1> DEFINE T == {n \in Nat : n <= Len(s) => f[n] = h[n]}
<1>3. 0 \in T
  BY <1>1, <1>2, ZenonT(30) DEF BytesSteps
<1>4. ASSUME NEW n \in Nat, n \in T PROVE n + 1 \in T
  <2> SUFFICES ASSUME n + 1 <= Len(s) PROVE f[n + 1] = h[n + 1]
    OBVIOUS
  <2>1. /\ n + 1 \in 1..Len(s) /\ n + 1 \in 1..Len(t) /\ (n + 1) - 1 = n /\ n <= Len(s)
    BY <1>0
  <2>2. f[n] = h[n]
    BY <1>4, <2>1, ZenonT(30)
  <2> QED
    BY <1>0, <1>1, <1>2, <2>1, <2>2, ZenonT(30) DEF BytesSteps
<1> HIDE DEF T
<1>5. \A n \in Nat : n \in T
  BY <1>3, <1>4, SetInduction, ZenonT(30)
<1>6. f[Len(s)] = h[Len(s)]
  BY <1>0, <1>5 DEF T
<1>7. Len(t) \in 1..Len(t) /\ Len(t) - 1 = Len(s)
  BY <1>0
<1> QED
  BY <1>0, <1>1, <1>2, <1>6, <1>7, ZenonT(30) DEF BytesSteps, t

\* The bytes of one frame are its size.
LEMMA BytesOne ==
  ASSUME NEW x \in Frame
  PROVE  Bytes(<<x>>) = WireSize(x)
<1> DEFINE e == <<>>
<1>1. e \in Seq(Frame) /\ Append(e, x) = <<x>>
  OBVIOUS
<1>2. Bytes(e) = 0
  BY BytesEmpty, ZenonT(30)
<1> HIDE DEF e
<1>3. Bytes(Append(e, x)) = Bytes(e) + WireSize(x)
  BY <1>1, BytesAppend, ZenonT(30)
<1> QED
  BY <1>1, <1>2, <1>3, WireSizeType

\* The bytes of a concatenation.
LEMMA BytesConcat ==
  ASSUME NEW s \in Seq(Frame), NEW t \in Seq(Frame)
  PROVE  Bytes(s \o t) = Bytes(s) + Bytes(t)
<1> DEFINE T == {n \in Nat : \A w \in Seq(Frame) :
                   Len(w) = n => Bytes(s \o w) = Bytes(s) + Bytes(w)}
<1>1. 0 \in T
  <2> SUFFICES ASSUME NEW w \in Seq(Frame), Len(w) = 0
               PROVE  Bytes(s \o w) = Bytes(s) + Bytes(w)
    OBVIOUS
  <2>1. w = <<>>
    BY EmptySeq
  <2>2. s \o w = s
    BY <2>1
  <2>3. Bytes(w) = 0 /\ Bytes(s) \in Nat
    BY <2>1, BytesEmpty, BytesType
  <2> QED
    BY <2>2, <2>3
<1>2. ASSUME NEW n \in Nat, n \in T PROVE n + 1 \in T
  <2> SUFFICES ASSUME NEW w \in Seq(Frame), Len(w) = n + 1
               PROVE  Bytes(s \o w) = Bytes(s) + Bytes(w)
    OBVIOUS
  <2>1. PICK u \in Seq(Frame), x \in Frame : w = Append(u, x) /\ Len(u) = n
    BY LastFrame
  <2>2. Bytes(s \o u) = Bytes(s) + Bytes(u)
    BY <1>2, <2>1, ZenonT(30)
  <2>3. s \o w = Append(s \o u, x) /\ s \o u \in Seq(Frame)
    BY <2>1, AppendConcat, ConcatProperties, ZenonT(30)
  <2>4. /\ Bytes(s \o w) = Bytes(s \o u) + WireSize(x)
        /\ Bytes(w) = Bytes(u) + WireSize(x)
    BY <2>1, <2>3, BytesAppend, ZenonT(30)
  <2>5. Bytes(s) \in Nat /\ Bytes(u) \in Nat /\ WireSize(x) \in Nat
    BY BytesType, WireSizeType, ZenonT(30)
  <2> QED
    BY <2>2, <2>4, <2>5
<1> HIDE DEF T
<1>3. Len(t) \in T
  BY <1>1, <1>2, SetInduction, LenProperties, ZenonT(30)
<1> QED
  BY <1>3, ZenonT(30) DEF T

\* The first frame.
LEMMA BytesHead ==
  ASSUME NEW s \in Seq(Frame), s # <<>>
  PROVE  Bytes(s) = WireSize(Head(s)) + Bytes(Tail(s))
<1>1. /\ Head(s) \in Frame /\ Tail(s) \in Seq(Frame) /\ <<Head(s)>> \in Seq(Frame)
      /\ s = <<Head(s)>> \o Tail(s)
  OBVIOUS
<1>2. Bytes(<<Head(s)>> \o Tail(s)) = Bytes(<<Head(s)>>) + Bytes(Tail(s))
  BY <1>1, BytesConcat, ZenonT(30)
<1> QED
  BY <1>1, <1>2, BytesOne, ZenonT(30)

=============================================================================

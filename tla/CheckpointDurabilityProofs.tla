--------------------- MODULE CheckpointDurabilityProofs ---------------------
(***************************************************************************)
(* Durability.  A clean vBucket says nothing about the store by itself: it *)
(* only says that some flush applied its batch.  The invariant therefore   *)
(* follows a position from the log into a batch, from the batch into what  *)
(* the saves wrote, and from there into durable_generation.  What the      *)
(* store holds is that, or a write that a save gave up on: a second        *)
(* invariant says that both are positions of the log, and that no save     *)
(* which runs is older.                                                    *)
(***************************************************************************)
EXTENDS CheckpointCoordinatorProofs

\* For the steps that name no prover: an SMT solver, then Zenon.
USE SMTT(30), ZenonT(30)

\* `processed' is the head of the log, and nothing is confirmed that no save wrote.
LogInv ==
  \A vb \in VBuckets :
    /\ Len(log[vb]) = generation[vb] + 1
    /\ log[vb][generation[vb] + 1] = processed[vb]
    /\ written[vb] <= generation[vb]
    /\ durable_generation[vb] <= written[vb]

\* A batch holds entries of the log.  While its save runs no save has written anything
\* newer, and what the save has written stays the last write, or a newer one is.
BatchInv ==
  \A f \in Flushers, vb \in VBuckets : batch[f][vb] # NoCheckpoint =>
    /\ batch[f][vb].generation <= generation[vb]
    /\ batch[f][vb].checkpoint = log[vb][batch[f][vb].generation + 1]
    /\ f \in running => written[vb] <= batch[f][vb].generation
    /\ vb \notin todo[f] => written[vb] >= batch[f][vb].generation

\* What a flush must make durable is in its batch or was written when it took it.
NeedInv ==
  \A f \in Flushers, vb \in VBuckets :
    /\ need[f][vb] <= generation[vb]
    /\ pc[f] \in {"saving", "saved"} =>
         \/ written[vb] >= need[f][vb]
         \/ /\ batch[f][vb] # NoCheckpoint
            /\ batch[f][vb].generation >= need[f][vb]
    /\ result[f] = "ok" => written[vb] >= need[f][vb]

IInv == TypeOK /\ SaveInv /\ LogInv /\ BatchInv /\ NeedInv

\* Either nothing is published for vb in this step, or a new processed position is
\* and the generation counts it.
Published(vb) ==
  \/ UNCHANGED <<log[vb], generation[vb], processed[vb]>>
  \/ \E c \in Checkpoint : /\ log'[vb] = Append(log[vb], c)
                           /\ generation'[vb] = generation[vb] + 1
                           /\ processed'[vb] = c

PublishStep ==
  /\ \A vb \in VBuckets : Published(vb)
  /\ UNCHANGED <<durable, durable_generation, flushVars, storeVars>>

\* Tracking, acknowledging, marking dirty and rebasing never move `processed'
\* without moving the generation.
LEMMA ApplicationPublishes ==
  TypeOK /\ Application => PublishStep \/ \E f \in Callers : flush(f) \/ shutdown(f)
<1> SUFFICES ASSUME TypeOK, Application
             PROVE  PublishStep \/ \E f \in Callers : flush(f) \/ shutdown(f)
  OBVIOUS
<1>0. PartitionsTypeOK
  BY DEF TypeOK
<1>1. ASSUME NEW vb \in VBuckets, NEW m \in Markers, TrackMarker(vb, m)
      PROVE  PublishStep
  BY <1>1 DEF TrackMarker, PublishStep, Published
<1>2. ASSUME NEW vb \in VBuckets, TrackNext(vb)
      PROVE  PublishStep
  BY <1>2 DEF TrackNext, TrackEvent, Register, PublishStep, Published
<1>3. ASSUME NEW vb \in VBuckets, NEW t \in tokens[vb], Acknowledge(vb, t)
      PROVE  PublishStep
  <2>0. UNCHANGED <<durable, durable_generation, flushVars, storeVars>>
    BY <1>3 DEF Acknowledge
  <2>1. CASE UNCHANGED <<processed, generation, log>>
    BY <2>0, <2>1 DEF PublishStep, Published
  <2>2. CASE AcknowledgeLive(vb, t)
    <3> DEFINE queue == MarkAcknowledged(pending[vb], t.delivery_id)
    <3>1. queue \in Seq(PendingAck)
      BY <1>0, MarkAcknowledgedType, ZenonT(30) DEF PartitionsTypeOK
    <3>2. PICK n \in 0..Len(queue) :
            \/ n = 0 /\ UNCHANGED <<processed, generation, log>>
            \/ /\ n > 0
               /\ processed' = [processed EXCEPT ![vb] = queue[n].checkpoint]
               /\ generation' = [generation EXCEPT ![vb] = @ + 1]
               /\ log' = [log EXCEPT ![vb] = Append(@, queue[n].checkpoint)]
      BY <2>2 DEF AcknowledgeLive
    <3> HIDE DEF queue
    <3>3. CASE n = 0
      BY <2>1, <3>2, <3>3
    <3>4. CASE n > 0
      <4>1. queue[n] \in PendingAck
        BY <3>1, <3>4
      <4>2. queue[n].checkpoint \in Checkpoint
        BY <4>1 DEF PendingAck
      <4> QED
        BY <1>0, <2>0, <3>2, <3>4, <4>2, ZenonT(30) DEF PublishStep, Published, PartitionsTypeOK
    <3> QED
      BY <3>3, <3>4
  <2> QED
    BY <1>3, <2>1, <2>2 DEF Acknowledge, AcknowledgeObsolete
<1>4. ASSUME NEW vb \in VBuckets, mark_dirty(vb)
      PROVE  PublishStep
  BY <1>0, <1>4, ZenonT(30) DEF mark_dirty, PublishStep, Published, PartitionsTypeOK
<1>5. ASSUME NEW S \in SUBSET VBuckets, NEW effective \in [S -> StartCheckpoints],
             rebase_partitions(S, effective)
      PROVE  PublishStep
  <2>1. ASSUME NEW vb \in VBuckets PROVE Published(vb)
    <3>1. CASE vb \in S /\ processed[vb] # effective[vb]
      <4>1. effective[vb] \in Checkpoint
        BY <3>1, InputsAssumption
      <4> QED
        BY <1>5, <3>1, <4>1 DEF rebase_partitions, Published
    <3>2. CASE ~(vb \in S /\ processed[vb] # effective[vb])
      BY <1>5, <3>2 DEF rebase_partitions, Published
    <3> QED
      BY <3>1, <3>2
  <2> QED
    BY <1>5, <2>1 DEF rebase_partitions, PublishStep
<1> QED
  BY <1>1, <1>2, <1>3, <1>4, <1>5, ZenonT(30) DEF Application

\* A published position keeps the invariant: log entries do not change and
\* generations only grow.
LEMMA PublishKeepsInv ==
  ASSUME TypeOK, LogInv, BatchInv, NeedInv, PublishStep
  PROVE  LogInv' /\ BatchInv' /\ NeedInv'
<1>0. PartitionsTypeOK /\ FlushesTypeOK /\ StoreTypeOK
  BY DEF TypeOK
<1>1. UNCHANGED <<durable_generation, running, todo, pc, batch, result, need, written>>
  BY DEF PublishStep, flushVars, storeVars
<1>2. ASSUME NEW vb \in VBuckets
      PROVE  /\ generation[vb] \in Nat /\ generation'[vb] \in Nat
             /\ generation[vb] <= generation'[vb]
             /\ Len(log'[vb]) = generation'[vb] + 1
             /\ log'[vb][generation'[vb] + 1] = processed'[vb]
             /\ \A g \in 0..generation[vb] : log'[vb][g + 1] = log[vb][g + 1]
  <2>1. /\ Published(vb) /\ log[vb] \in Seq(Position) /\ generation[vb] \in Nat
        /\ Len(log[vb]) = generation[vb] + 1
        /\ log[vb][generation[vb] + 1] = processed[vb]
    BY <1>0 DEF PublishStep, PartitionsTypeOK, LogInv
  <2>2. CASE UNCHANGED <<log[vb], generation[vb], processed[vb]>>
    BY <2>1, <2>2
  <2>3. ASSUME NEW c \in Checkpoint, log'[vb] = Append(log[vb], c),
               generation'[vb] = generation[vb] + 1, processed'[vb] = c
        PROVE  /\ generation'[vb] \in Nat /\ generation[vb] <= generation'[vb]
               /\ Len(log'[vb]) = generation'[vb] + 1
               /\ log'[vb][generation'[vb] + 1] = processed'[vb]
               /\ \A g \in 0..generation[vb] : log'[vb][g + 1] = log[vb][g + 1]
    <3>1. c \in Position
      BY DEF Position
    <3> QED
      BY <2>1, <2>3, <3>1
  <2> QED
    BY <2>1, <2>2, <2>3 DEF Published
<1>3. LogInv'
  <2> SUFFICES ASSUME NEW vb \in VBuckets PROVE LogInv!(vb)'
    BY ZenonT(30) DEF LogInv
  <2>1. /\ written[vb] \in Nat /\ written[vb] <= generation[vb]
        /\ durable_generation[vb] <= written[vb]
    BY <1>0, ZenonT(30) DEF LogInv, StoreTypeOK
  <2> QED
    BY <1>1, <1>2, <2>1
<1>4. BatchInv'
  <2> SUFFICES ASSUME NEW f \in Flushers, NEW vb \in VBuckets,
                      batch[f][vb] # NoCheckpoint
               PROVE  /\ batch[f][vb].generation <= generation'[vb]
                      /\ batch[f][vb].checkpoint = log'[vb][batch[f][vb].generation + 1]
                      /\ f \in running => written[vb] <= batch[f][vb].generation
                      /\ vb \notin todo[f] => written[vb] >= batch[f][vb].generation
    BY <1>1 DEF BatchInv
  <2>1. batch[f][vb] \in DirtyCheckpoint
    BY <1>0 DEF FlushesTypeOK
  <2>2. batch[f][vb].generation \in 0..generation[vb]
    BY <1>2, <2>1 DEF BatchInv, DirtyCheckpoint
  <2>3. /\ batch[f][vb].checkpoint = log[vb][batch[f][vb].generation + 1]
        /\ f \in running => written[vb] <= batch[f][vb].generation
        /\ vb \notin todo[f] => written[vb] >= batch[f][vb].generation
    BY DEF BatchInv
  <2> QED
    BY <1>2, <2>2, <2>3
<1>5. NeedInv'
  <2>1. ASSUME NEW f \in Flushers, NEW vb \in VBuckets PROVE need[f][vb] <= generation'[vb]
    <3>1. need[f][vb] \in Nat /\ need[f][vb] <= generation[vb]
      BY <1>0 DEF NeedInv, FlushesTypeOK
    <3> QED
      BY <1>2, <3>1
  <2> QED
    BY <1>1, <2>1 DEF NeedInv
<1> QED
  BY <1>3, <1>4, <1>5

\* Of a vBucket that is not dirty, the processed position was the last one written.
LEMMA CleanIsWritten ==
  ASSUME TypeOK, LogInv, NEW vb \in VBuckets, ~is_dirty(vb)
  PROVE  written[vb] = generation[vb]
<1>1. /\ generation[vb] \in Nat /\ durable_generation[vb] \in Nat
      /\ written[vb] \in Nat
  BY DEF TypeOK, PartitionsTypeOK, StoreTypeOK
<1>2. generation[vb] = durable_generation[vb]
  BY DEF is_dirty
<1> QED
  BY <1>1, <1>2 DEF LogInv

\* The first step of a flush keeps the invariant: it returns Ok at once only when
\* everything is stored.
LEMMA FlushBeginKeepsInv ==
  ASSUME IInv, NEW f \in Flushers, pc[f] \in {"idle", "joining"}, FlushBegin(f)
  PROVE  LogInv' /\ BatchInv' /\ NeedInv'
<1>0. /\ TypeOK /\ LogInv /\ BatchInv /\ NeedInv
      /\ PartitionsTypeOK /\ FlushesTypeOK /\ StoreTypeOK
  BY ZenonT(30) DEF IInv, TypeOK
<1>1. LogInv' /\ BatchInv'
  BY <1>0, ZenonT(30) DEF FlushBegin, LogInv, BatchInv, partitionVars, storeVars
<1>2. NeedInv'
  <2> SUFFICES ASSUME NEW g \in Flushers, NEW vb \in VBuckets
               PROVE  NeedInv!(g, vb)'
    BY DEF NeedInv
  <2>1. UNCHANGED <<generation, written, batch>>
    BY ZenonT(30) DEF FlushBegin, partitionVars, storeVars
  <2>2. CASE g # f
    <3>1. UNCHANGED <<need[g], pc[g], result[g]>>
      BY <1>0, <2>2 DEF FlushBegin, Return, FlushesTypeOK
    <3> QED
      BY <1>0, <2>1, <3>1 DEF NeedInv
  <2>3. CASE g = f
    <3>1. need'[f][vb] = generation[vb] /\ generation[vb] \in Nat
      BY <1>0 DEF FlushBegin, FlushesTypeOK, PartitionsTypeOK
    <3>2. pc'[f] \in {"idle", "gate"}
      BY <1>0 DEF FlushBegin, Return, FlushesTypeOK
    <3>3. result'[f] = "ok" => ~is_dirty(vb)
      BY <1>0 DEF FlushBegin, Return, FlushesTypeOK, DirtyVBuckets
    <3>4. result'[f] = "ok" => written[vb] = generation[vb]
      BY <1>0, <3>3, CleanIsWritten
    <3> QED
      BY <2>1, <2>3, <3>1, <3>2, <3>4
  <2> QED
    BY <2>2, <2>3, ZenonT(30)
<1> QED
  BY <1>1, <1>2

\* Getting the gate keeps the invariant: the batch is the head of the log, and no
\* other save runs that could store something newer.
LEMMA FlushGateKeepsInv ==
  ASSUME IInv, NEW f \in Flushers, FlushGate(f)
  PROVE  LogInv' /\ BatchInv' /\ NeedInv'
<1>0. /\ TypeOK /\ SaveInv /\ LogInv /\ BatchInv /\ NeedInv
      /\ PartitionsTypeOK /\ FlushesTypeOK /\ StoreTypeOK
  BY ZenonT(30) DEF IInv, TypeOK
<1>1. UNCHANGED <<log, generation, processed, written, durable_generation, need>>
  BY DEF FlushGate, partitionVars, storeVars
<1>2. LogInv'
  BY <1>0, <1>1 DEF LogInv
<1>3. CASE DirtyVBuckets = {}
  <2>1. /\ UNCHANGED <<running, todo, batch>>
        /\ pc' = [pc EXCEPT ![f] = "idle"] /\ result' = [result EXCEPT ![f] = "ok"]
    BY <1>3, ZenonT(30) DEF FlushGate, Return
  <2>2. BatchInv'
    BY <1>0, <1>1, <2>1 DEF BatchInv
  <2>3. ASSUME NEW vb \in VBuckets PROVE written[vb] >= need[f][vb]
    <3>1. written[vb] = generation[vb]
      BY <1>0, <1>3, CleanIsWritten, ZenonT(30) DEF DirtyVBuckets
    <3> QED
      BY <1>0, <3>1 DEF NeedInv, FlushesTypeOK, PartitionsTypeOK
  <2>4. NeedInv'
    BY <1>0, <1>1, <2>1, <2>3, ZenonT(30) DEF NeedInv, FlushesTypeOK
  <2> QED
    BY <1>2, <2>2, <2>4, ZenonT(30)
<1>4. CASE DirtyVBuckets # {}
  <2> DEFINE b == [vb \in VBuckets |->
               IF is_dirty(vb)
               THEN [checkpoint |-> processed[vb], generation |-> generation[vb]]
               ELSE NoCheckpoint]
  <2>1. /\ gate = Free
        /\ pc' = [pc EXCEPT ![f] = "saving"]
        /\ running' = running \cup {f}
        /\ todo' = [todo EXCEPT ![f] = DirtyVBuckets]
        /\ batch' = [batch EXCEPT ![f] = b]
        /\ UNCHANGED result
    BY <1>4, ZenonT(30) DEF FlushGate
  <2>2. ASSUME NEW vb \in VBuckets
        PROVE  \/ /\ vb \in DirtyVBuckets /\ b[vb] # NoCheckpoint
                  /\ b[vb].generation = generation[vb]
                  /\ b[vb].checkpoint = processed[vb]
               \/ /\ b[vb] = NoCheckpoint
                  /\ written[vb] = generation[vb]
    <3>1. CASE is_dirty(vb)
      <4>1. [checkpoint |-> processed[vb], generation |-> generation[vb]]
              \in DirtyCheckpoint
        BY <1>0, ZenonT(30) DEF PartitionsTypeOK, DirtyCheckpoint
      <4> QED
        BY <3>1, <4>1, InputsAssumption DEF DirtyVBuckets
    <3>2. CASE ~is_dirty(vb)
      BY <1>0, <3>2, CleanIsWritten, ZenonT(30)
    <3> QED
      BY <3>1, <3>2, ZenonT(30)
  <2> HIDE DEF b
  <2>3. BatchInv'
    <3> SUFFICES ASSUME NEW g \in Flushers, NEW vb \in VBuckets
                 PROVE  BatchInv!(g, vb)'
      BY ZenonT(30) DEF BatchInv
    <3>1. CASE g # f
      <4>1. UNCHANGED <<batch[g], todo[g]>> /\ (g \in running' <=> g \in running)
        BY <1>0, <2>1, <3>1, ZenonT(30) DEF FlushesTypeOK
      <4> QED
        BY <1>0, <1>1, <4>1 DEF BatchInv
    <3>2. CASE g = f
      <4>1. batch'[f] = b /\ todo'[f] = DirtyVBuckets
        BY <1>0, <2>1, ZenonT(30) DEF FlushesTypeOK
      <4>2. /\ generation[vb] \in Nat
            /\ processed[vb] = log[vb][generation[vb] + 1]
            /\ written[vb] <= generation[vb]
        BY <1>0, ZenonT(30) DEF LogInv, PartitionsTypeOK
      <4> QED
        BY <1>1, <2>2, <3>2, <4>1, <4>2
    <3> QED
      BY <3>1, <3>2, ZenonT(30)
  <2>4. NeedInv'
    <3> SUFFICES ASSUME NEW g \in Flushers, NEW vb \in VBuckets
                 PROVE  NeedInv!(g, vb)'
      BY ZenonT(30) DEF NeedInv
    <3>1. CASE g # f
      <4>1. UNCHANGED <<batch[g], pc[g], result[g]>>
        BY <1>0, <2>1, <3>1, ZenonT(30) DEF FlushesTypeOK
      <4> QED
        BY <1>0, <1>1, <4>1 DEF NeedInv
    <3>2. CASE g = f
      <4>1. batch'[f] = b
        BY <1>0, <2>1, ZenonT(30) DEF FlushesTypeOK
      <4>2. /\ generation[vb] \in Nat /\ need[f][vb] \in Nat
            /\ need[f][vb] <= generation[vb]
            /\ result[f] = "ok" => written[vb] >= need[f][vb]
        BY <1>0 DEF NeedInv, PartitionsTypeOK, FlushesTypeOK
      <4> QED
        BY <1>1, <2>1, <2>2, <3>2, <4>1, <4>2
    <3> QED
      BY <3>1, <3>2, ZenonT(30)
  <2> QED
    BY <1>2, <2>3, <2>4
<1> QED
  BY <1>3, <1>4

\* Applying a finished save keeps the invariant: all it confirms has been written.
LEMMA FlushApplyKeepsInv ==
  ASSUME IInv, NEW f \in Flushers, FlushApply(f)
  PROVE  LogInv' /\ BatchInv' /\ NeedInv'
<1>0. /\ SaveInv /\ LogInv /\ BatchInv /\ NeedInv
      /\ PartitionsTypeOK /\ FlushesTypeOK /\ StoreTypeOK
  BY DEF IInv, TypeOK
<1>1. /\ pc[f] = "saved"
      /\ UNCHANGED <<log, generation, processed, written, need, running, todo>>
      /\ pc' = [pc EXCEPT ![f] = "idle"] /\ result' = [result EXCEPT ![f] = "ok"]
      /\ batch' = [batch EXCEPT ![f] = NoBatch]
  BY ZenonT(30) DEF FlushApply, Return, storeVars
<1>2. ASSUME NEW vb \in VBuckets, batch[f][vb] # NoCheckpoint
      PROVE  written[vb] >= batch[f][vb].generation
  BY <1>0, <1>1, <1>2 DEF SaveInv, BatchInv
<1>3. LogInv'
  <2> SUFFICES ASSUME NEW vb \in VBuckets
               PROVE  durable_generation'[vb] <= written[vb]
    BY <1>0, <1>1, ZenonT(30) DEF LogInv
  <2>1. CASE batch[f][vb] = NoCheckpoint
    BY <1>0, <2>1 DEF FlushApply, LogInv
  <2>2. CASE batch[f][vb] # NoCheckpoint
    <3>1. batch[f][vb].generation \in Nat /\ written[vb] \in Nat
      BY <1>0, <2>2 DEF FlushesTypeOK, StoreTypeOK, DirtyCheckpoint
    <3>2. durable_generation'[vb] = batch[f][vb].generation
      BY <2>2, ZenonT(30) DEF FlushApply
    <3> QED
      BY <1>2, <2>2, <3>1, <3>2
  <2> QED
    BY <2>1, <2>2, ZenonT(30)
<1>4. BatchInv'
  BY <1>0, <1>1, ZenonT(60) DEF BatchInv, NoBatch, FlushesTypeOK
<1>5. NeedInv'
  <2> SUFFICES ASSUME NEW g \in Flushers, NEW vb \in VBuckets
               PROVE  NeedInv!(g, vb)'
    BY ZenonT(30) DEF NeedInv
  <2>1. CASE g # f
    <3>1. UNCHANGED <<batch[g], pc[g], result[g]>>
      BY <1>0, <1>1, <2>1, ZenonT(30) DEF FlushesTypeOK
    <3> QED
      BY <1>0, <1>1, <3>1 DEF NeedInv
  <2>2. CASE g = f
    <3>1. pc'[f] = "idle"
      BY <1>0, <1>1, ZenonT(30) DEF FlushesTypeOK
    <3>2. written[vb] >= need[f][vb]
      <4>1. CASE written[vb] >= need[f][vb]
        BY <4>1, ZenonT(30)
      <4>2. CASE batch[f][vb] # NoCheckpoint /\ batch[f][vb].generation >= need[f][vb]
        <5>1. /\ batch[f][vb].generation \in Nat /\ written[vb] \in Nat
              /\ need[f][vb] \in Nat
          BY <1>0, <4>2 DEF FlushesTypeOK, StoreTypeOK, DirtyCheckpoint
        <5> QED
          BY <1>2, <4>2, <5>1
      <4> QED
        BY <1>0, <1>1, <4>1, <4>2 DEF NeedInv
    <3> QED
      BY <1>0, <1>1, <2>2, <3>1, <3>2 DEF NeedInv
  <2> QED
    BY <2>1, <2>2, ZenonT(30)
<1> QED
  BY <1>3, <1>4, <1>5

\* A write keeps the invariant: the gate admits one save at a time, so nothing newer
\* was written than the batch of the save that writes.
LEMMA SaveWriteKeepsInv ==
  ASSUME IInv, NEW f \in Flushers, NEW vb \in VBuckets, SaveWrite(f, vb)
  PROVE  LogInv' /\ BatchInv' /\ NeedInv'
<1>0. /\ SaveInv /\ LogInv /\ BatchInv /\ NeedInv
      /\ PartitionsTypeOK /\ FlushesTypeOK /\ StoreTypeOK
  BY ZenonT(30) DEF IInv, TypeOK
<1>1. /\ f \in running /\ vb \in todo[f]
      /\ UNCHANGED <<log, generation, processed, durable_generation, need, running, pc,
                     batch, result>>
      /\ todo' = [todo EXCEPT ![f] = @ \ {vb}]
      /\ written' = [written EXCEPT ![vb] = batch[f][vb].generation]
  BY ZenonT(30) DEF SaveWrite, partitionVars
<1>2. batch[f][vb] # NoCheckpoint
  BY <1>0, <1>1, ZenonT(30) DEF SaveInv
<1>3. /\ batch[f][vb].generation \in Nat
      /\ \A w \in VBuckets : /\ written[w] \in Nat /\ generation[w] \in Nat
                              /\ durable_generation[w] \in Nat
  BY <1>0, <1>2 DEF FlushesTypeOK, StoreTypeOK, PartitionsTypeOK, DirtyCheckpoint
<1>4. /\ written[vb] <= batch[f][vb].generation
      /\ batch[f][vb].generation <= generation[vb]
      /\ batch[f][vb].checkpoint = log[vb][batch[f][vb].generation + 1]
  BY <1>0, <1>1, <1>2, ZenonT(30) DEF BatchInv
<1>5. \A w \in VBuckets :
        /\ written'[w] \in Nat
        /\ written[w] <= written'[w]
        /\ w # vb => written'[w] = written[w]
  BY <1>0, <1>1, <1>3, <1>4 DEF StoreTypeOK
<1>6. LogInv'
  <2> SUFFICES ASSUME NEW w \in VBuckets PROVE LogInv!(w)'
    BY ZenonT(30) DEF LogInv
  <2>1. CASE w # vb
    BY <1>0, <1>1, <2>1, ZenonT(30) DEF LogInv, StoreTypeOK
  <2>2. CASE w = vb
    <3>1. written'[vb] = batch[f][vb].generation
      BY <1>0, <1>1, ZenonT(30) DEF StoreTypeOK
    <3>2. LogInv!(vb)
      BY <1>0, ZenonT(30) DEF LogInv
    <3>3. /\ log'[vb] = log[vb] /\ generation'[vb] = generation[vb]
          /\ processed'[vb] = processed[vb]
          /\ durable_generation'[vb] = durable_generation[vb]
      BY <1>1
    <3>4. /\ durable_generation[vb] \in Nat /\ written[vb] \in Nat
          /\ generation[vb] \in Nat /\ written'[vb] \in Nat
      BY <1>3, <1>5, ZenonT(30)
    <3>5. /\ durable_generation'[vb] <= written'[vb]
          /\ written'[vb] <= generation'[vb]
      BY <1>3, <1>4, <3>1, <3>2, <3>3, <3>4
    <3> QED
      BY <2>2, <3>2, <3>3, <3>5, ZenonT(30)
  <2> QED
    BY <2>1, <2>2, ZenonT(30)
<1>7. BatchInv'
  <2> SUFFICES ASSUME NEW g \in Flushers, NEW w \in VBuckets, batch[g][w] # NoCheckpoint
               PROVE  /\ g \in running =>
                           written'[w] <= batch[g][w].generation
                      /\ w \notin todo'[g] =>
                           written'[w] >= batch[g][w].generation
    BY <1>0, <1>1 DEF BatchInv
  <2>1. batch[g][w].generation \in Nat
    BY <1>0 DEF FlushesTypeOK, DirtyCheckpoint
  <2>2. CASE g = f /\ w = vb
    BY <1>0, <1>1, <1>3, <2>2 DEF StoreTypeOK
  <2>3. CASE g = f /\ w # vb
    BY <1>0, <1>1, <2>3, ZenonT(30) DEF BatchInv, StoreTypeOK, FlushesTypeOK
  <2>4. CASE g # f
    <3>1. g \notin running /\ todo'[g] = todo[g]
      BY <1>0, <1>1, <2>4, ZenonT(30) DEF SaveInv, FlushesTypeOK
    <3>2. w \notin todo[g] => batch[g][w].generation <= written[w]
      BY <1>0, <1>3, <2>1, ZenonT(30) DEF BatchInv
    <3>3. /\ written[w] \in Nat /\ written'[w] \in Nat
          /\ written[w] <= written'[w]
      BY <1>3, <1>5, ZenonT(30)
    <3>4. ASSUME w \notin todo[g]
          PROVE  written'[w] >= batch[g][w].generation
      BY <2>1, <3>2, <3>3, <3>4
    <3> QED
      BY <3>1, <3>4, ZenonT(30)
  <2> QED
    BY <2>2, <2>3, <2>4, ZenonT(30)
<1>8. NeedInv'
  <2> SUFFICES ASSUME NEW g \in Flushers, NEW w \in VBuckets PROVE NeedInv!(g, w)'
    BY DEF NeedInv
  <2>1. need[g][w] \in Nat
    BY <1>0, ZenonT(30) DEF FlushesTypeOK
  <2>2. NeedInv!(g, w)
    BY <1>0, ZenonT(30) DEF NeedInv
  <2>3. written[w] >= need[g][w] => written'[w] >= need[g][w]
    <3>1. /\ written[w] \in Nat /\ written'[w] \in Nat
          /\ written[w] <= written'[w]
      BY <1>3, <1>5, ZenonT(30)
    <3> QED
      BY <2>1, <3>1
  <2> QED
    BY <1>1, <2>2, <2>3, ZenonT(30)
<1> QED
  BY <1>3, <1>4, <1>6, <1>7, <1>8

\* The end of a save keeps the invariant.
LEMMA SaveEndKeepsInv ==
  ASSUME IInv, NEW f \in Flushers, SaveOk(f) \/ SaveFails(f)
  PROVE  LogInv' /\ BatchInv' /\ NeedInv'
<1>0. /\ SaveInv /\ LogInv /\ BatchInv /\ NeedInv /\ FlushesTypeOK
  BY ZenonT(30) DEF IInv, TypeOK
<1>1. /\ f \in running /\ pc[f] # "saved"
      /\ running' = running \ {f}
      /\ UNCHANGED <<log, generation, processed, durable_generation, need, written>>
  BY <1>0 DEF SaveOk, SaveFails, SaveEnd, SaveInv, partitionVars
<1>2. LogInv'
  BY <1>0, <1>1, ZenonT(30) DEF LogInv
<1>3. CASE SaveOk(f)
  <2>1. /\ UNCHANGED <<todo, result>>
        /\ \/ pc[f] = "saving" /\ pc' = [pc EXCEPT ![f] = "saved"] /\ batch' = batch
           \/ /\ pc[f] # "saving" /\ pc' = pc
              /\ batch' = [batch EXCEPT ![f] = NoBatch]
    BY <1>3, ZenonT(30) DEF SaveOk
  <2>2. BatchInv'
    <3> SUFFICES ASSUME NEW g \in Flushers, NEW w \in VBuckets,
                        batch'[g][w] # NoCheckpoint
                 PROVE  BatchInv!(g, w)'
      BY ZenonT(30) DEF BatchInv
    <3>1. batch'[g] = batch[g]
      <4>1. CASE batch' = batch
        BY <4>1
      <4>2. CASE batch' = [batch EXCEPT ![f] = NoBatch]
        <5>1. g # f
          BY <1>0, <4>2, ZenonT(30) DEF FlushesTypeOK, NoBatch
        <5> QED
          BY <1>0, <4>2, <5>1 DEF FlushesTypeOK
      <4> QED
        BY <2>1, <4>1, <4>2
    <3>2. BatchInv!(g, w)
      BY <1>0 DEF BatchInv
    <3> QED
      BY <1>1, <2>1, <3>1, <3>2, ZenonT(30)
  <2>3. NeedInv'
    BY <1>0, <1>1, <2>1, ZenonT(30) DEF NeedInv, FlushesTypeOK
  <2> QED
    BY <1>2, <2>2, <2>3, ZenonT(30)
<1>4. CASE SaveFails(f)
  <2>1. /\ todo' = [todo EXCEPT ![f] = {}]
        /\ batch' = [batch EXCEPT ![f] = NoBatch]
        /\ \/ /\ pc[f] = "saving" /\ pc' = [pc EXCEPT ![f] = "idle"]
              /\ result' = [result EXCEPT ![f] = "err"]
           \/ pc[f] # "saving" /\ UNCHANGED <<pc, result>>
    BY <1>4, ZenonT(30) DEF SaveFails, Return
  <2>2. BatchInv'
    BY <1>0, <1>1, <2>1, ZenonT(30) DEF BatchInv, NoBatch, FlushesTypeOK
  <2>3. NeedInv'
    BY <1>0, <1>1, <2>1, ZenonT(60) DEF NeedInv, FlushesTypeOK
  <2> QED
    BY <1>2, <2>2, <2>3
<1> QED
  BY <1>3, <1>4

\* The invariant holds initially.
LEMMA InvInit == Init => IInv
<1> SUFFICES ASSUME Init PROVE LogInv /\ BatchInv /\ NeedInv
  BY TypingInit, ZenonT(30) DEF IInv
<1>0. ASSUME NEW vb \in VBuckets
      PROVE  /\ durable_generation[vb] = 0 /\ written[vb] = 0
             /\ \/ /\ store[vb] = processed[vb]
                   /\ generation[vb] = 0 /\ log[vb] = <<processed[vb]>>
                \/ generation[vb] = 1 /\ log[vb] = <<store[vb], processed[vb]>>
  BY ZenonT(30) DEF Init
<1>1. LogInv
  <2> SUFFICES ASSUME NEW vb \in VBuckets PROVE LogInv!(vb)
    BY ZenonT(30) DEF LogInv
  <2>1. CASE /\ store[vb] = processed[vb]
             /\ generation[vb] = 0 /\ log[vb] = <<processed[vb]>>
    BY <1>0, <2>1
  <2>2. CASE generation[vb] = 1 /\ log[vb] = <<store[vb], processed[vb]>>
    BY <1>0, <2>2
  <2> QED
    BY <1>0, <2>1, <2>2
<1>2. BatchInv
  BY DEF Init, BatchInv, NoBatch
<1>3. NeedInv
  <2>1. ASSUME NEW f \in Flushers, NEW vb \in VBuckets
        PROVE  need[f][vb] = 0 /\ pc[f] = "idle" /\ result[f] = "none"
    BY DEF Init
  <2>2. \A vb \in VBuckets : 0 <= generation[vb]
    BY <1>1, ZenonT(30) DEF Init, LogInv
  <2> QED
    BY <2>1, <2>2, ZenonT(30) DEF NeedInv
<1> QED
  BY <1>1, <1>2, <1>3

\* The invariant is inductive.
LEMMA InvNext == IInv /\ [Next]_vars => IInv'
<1> SUFFICES ASSUME IInv, [Next]_vars PROVE LogInv' /\ BatchInv' /\ NeedInv'
  BY TypingNext DEF IInv
<1>0. TypeOK /\ SaveInv /\ LogInv /\ BatchInv /\ NeedInv
  BY DEF IInv
<1>1. CASE Application
  <2>1. CASE PublishStep
    BY <1>0, <2>1, PublishKeepsInv
  <2>2. ASSUME NEW f \in Callers, flush(f) \/ shutdown(f)
        PROVE  LogInv' /\ BatchInv' /\ NeedInv'
    <3>1. f \in Flushers
      BY DEF Flushers
    <3>2. CASE flush(f)
      BY <3>1, <3>2, FlushBeginKeepsInv DEF flush
    <3>3. CASE shutdown(f)
      <4>1. LogInv' /\ BatchInv'
        BY <1>0, <3>3, ZenonT(30) DEF shutdown, LogInv, BatchInv, partitionVars, storeVars
      <4>2. NeedInv'
        BY <1>0, <3>1, <3>3 DEF shutdown, NeedInv, partitionVars, storeVars, TypeOK,
                                FlushesTypeOK
      <4> QED
        BY <4>1, <4>2, ZenonT(30)
    <3> QED
      BY <2>2, <3>2, <3>3
  <2> QED
    BY <1>0, <1>1, <2>1, <2>2, ApplicationPublishes
<1>2. ASSUME NEW f \in Flushers, FlushStep(f) \/ SaveStep(f)
      PROVE  LogInv' /\ BatchInv' /\ NeedInv'
  <2>1. CASE FlushTimeout(f)
    <3>1. LogInv' /\ BatchInv'
      BY <1>0, <2>1, ZenonT(30) DEF FlushTimeout, LogInv, BatchInv, partitionVars, storeVars
    <3>2. NeedInv'
      BY <1>0, <2>1, ZenonT(30) DEF FlushTimeout, Return, NeedInv, partitionVars, storeVars, TypeOK,
                        FlushesTypeOK
    <3> QED
      BY <3>1, <3>2
  <2>2. CASE ShutdownJoin(f)
    BY <2>2, FlushBeginKeepsInv DEF ShutdownJoin
  <2> QED
    BY <1>2, <2>1, <2>2, FlushGateKeepsInv, FlushApplyKeepsInv, SaveWriteKeepsInv,
       SaveEndKeepsInv, ZenonT(30)
    DEF FlushStep, SaveStep
<1>3. CASE SchedulerTick
  <2>1. Scheduler \in Flushers
    BY DEF Flushers
  <2> QED
    BY <1>3, <2>1, FlushBeginKeepsInv DEF SchedulerTick
<1>4. CASE SchedulerExit
  BY <1>0, <1>4, ZenonT(30) DEF SchedulerExit, LogInv, BatchInv, NeedInv, partitionVars, flushVars,
                    storeVars
<1>5. CASE UNCHANGED vars
  BY <1>0, <1>5, ZenonT(30) DEF vars, LogInv, BatchInv, NeedInv, partitionVars, flushVars, storeVars
<1>6. ASSUME NEW vb \in VBuckets, LateWrite(vb)
      PROVE  LogInv' /\ BatchInv' /\ NeedInv'
  <2>1. UNCHANGED <<log, generation, processed, durable_generation, running, todo, pc, batch,
                    result, need, written>>
    BY <1>6, ZenonT(30) DEF LateWrite, partitionVars, flushVars
  <2> QED
    BY <1>0, <2>1, ZenonT(30) DEF LogInv, BatchInv, NeedInv
<1> QED
  BY <1>1, <1>2, <1>3, <1>4, <1>5, <1>6, ZenonT(30) DEF Next

-----------------------------------------------------------------------------
(* The store.                                                              *)

\* What the store holds for vb, and what may still arrive there.
Arriving(vb) ==
  {[checkpoint |-> store[vb], generation |-> stored_generation[vb]]} \cup abandoned[vb]

\* The write w is of a position of the log, and no save that runs writes an older one.
Sound(vb, w) ==
  /\ w.generation \in Nat /\ w.generation <= generation[vb]
  /\ w.checkpoint = log[vb][w.generation + 1]
  /\ \A f \in running : batch[f][vb] # NoCheckpoint => w.generation <= batch[f][vb].generation

StoreInv == \A vb \in VBuckets : \A w \in Arriving(vb) : Sound(vb, w)

\* What a save is about to write is a position of the log, and the save is the only one
\* that runs: the gate admits one at a time.
LEMMA BatchIsSound ==
  ASSUME IInv, NEW f \in running, NEW vb \in todo[f]
  PROVE  batch[f][vb] \in DirtyCheckpoint /\ Sound(vb, batch[f][vb])
<1>0. SaveInv /\ BatchInv /\ FlushesTypeOK /\ f \in Flushers /\ vb \in VBuckets
  BY ZenonT(30) DEF IInv, TypeOK, FlushesTypeOK
<1>1. batch[f][vb] # NoCheckpoint
  BY <1>0, ZenonT(30) DEF SaveInv
<1>2. batch[f][vb] \in DirtyCheckpoint
  BY <1>0, <1>1 DEF FlushesTypeOK
<1>3. batch[f][vb].generation \in Nat
  BY <1>2 DEF DirtyCheckpoint
<1>4. \A g \in running : g = f
  BY <1>0, ZenonT(30) DEF SaveInv, FlushesTypeOK
<1>5. batch[f][vb].generation <= batch[f][vb].generation
  BY <1>3
<1> QED
  BY <1>0, <1>1, <1>2, <1>3, <1>4, <1>5, ZenonT(30) DEF BatchInv, Sound

\* A sound write stays sound: the log only grows, and a save that begins later takes the
\* head of the log.
LEMMA SoundStays ==
  ASSUME IInv, [Next]_vars, NEW vb \in VBuckets, NEW w, Sound(vb, w)
  PROVE  Sound(vb, w)'
<1>0. /\ TypeOK /\ SaveInv /\ LogInv
      /\ PartitionsTypeOK /\ FlushesTypeOK /\ StoreTypeOK
  BY ZenonT(30) DEF IInv, TypeOK
<1>1. ASSUME UNCHANGED <<log, generation>>,
             \A f \in running' : f \in running /\ (batch'[f] = batch[f] \/ batch'[f] = NoBatch)
      PROVE  Sound(vb, w)'
  BY <1>1, ZenonT(30) DEF Sound, NoBatch
<1>2. CASE PublishStep
  <2>1. UNCHANGED <<running, batch>> /\ Published(vb)
    BY <1>2, ZenonT(30) DEF PublishStep, flushVars
  <2>2. CASE UNCHANGED <<log[vb], generation[vb], processed[vb]>>
    BY <2>1, <2>2, ZenonT(30) DEF Sound
  <2>3. ASSUME NEW c \in Checkpoint, log'[vb] = Append(log[vb], c),
               generation'[vb] = generation[vb] + 1
        PROVE  Sound(vb, w)'
    <3>1. c \in Position /\ log[vb] \in Seq(Position) /\ generation[vb] \in Nat
      BY <1>0 DEF Position, PartitionsTypeOK
    <3>2. w.generation \in Nat /\ w.generation <= generation[vb]
      BY ZenonT(30) DEF Sound
    <3>3. Len(log[vb]) = generation[vb] + 1
      BY <1>0, ZenonT(30) DEF LogInv
    <3>4. w.generation <= generation'[vb] /\ log'[vb][w.generation + 1] = log[vb][w.generation + 1]
      BY <2>3, <3>1, <3>2, <3>3
    <3> QED
      BY <2>1, <3>4, ZenonT(30) DEF Sound
  <2> QED
    BY <2>1, <2>2, <2>3, ZenonT(30) DEF Published
<1>3. ASSUME NEW f \in Flushers, FlushGate(f)
      PROVE  Sound(vb, w)'
  <2>1. UNCHANGED <<log, generation>>
    BY <1>3, ZenonT(30) DEF FlushGate, partitionVars
  <2>2. CASE DirtyVBuckets = {}
    BY <1>1, <1>3, <2>1, <2>2, ZenonT(30) DEF FlushGate
  <2>3. CASE DirtyVBuckets # {}
    <3> DEFINE b == [v \in VBuckets |->
                 IF is_dirty(v)
                 THEN [checkpoint |-> processed[v], generation |-> generation[v]]
                 ELSE NoCheckpoint]
    <3>1. running' = running \cup {f} /\ batch' = [batch EXCEPT ![f] = b]
      BY <1>3, <2>3, ZenonT(30) DEF FlushGate
    <3>2. ASSUME b[vb] # NoCheckpoint PROVE b[vb].generation = generation[vb]
      BY <3>2, ZenonT(30)
    <3> HIDE DEF b
    <3>3. \A g \in Flushers : batch'[g] = IF g = f THEN b ELSE batch[g]
      BY <1>0, <3>1, ZenonT(30) DEF FlushesTypeOK
    <3>4. ASSUME NEW g \in running', batch'[g][vb] # NoCheckpoint
          PROVE  w.generation <= batch'[g][vb].generation
      <4>1. CASE g = f
        BY <3>2, <3>3, <3>4, <4>1, ZenonT(30) DEF Sound
      <4>2. CASE g # f
        <5>1. g \in running /\ batch'[g] = batch[g]
          BY <1>0, <3>1, <3>3, <4>2, ZenonT(30) DEF FlushesTypeOK
        <5> QED
          BY <3>4, <5>1, ZenonT(30) DEF Sound
      <4> QED
        BY <4>1, <4>2, ZenonT(30)
    <3> QED
      BY <2>1, <3>4, ZenonT(30) DEF Sound
  <2> QED
    BY <2>2, <2>3, ZenonT(30)
<1>4. ASSUME NEW f \in Flushers, FlushApply(f) \/ SaveOk(f) \/ SaveFails(f)
      PROVE  Sound(vb, w)'
  <2>1. /\ UNCHANGED <<log, generation>> /\ running' \subseteq running
        /\ batch' = batch \/ batch' = [batch EXCEPT ![f] = NoBatch]
    BY <1>4, ZenonT(30) DEF FlushApply, SaveOk, SaveFails, SaveEnd, partitionVars
  <2>2. \A g \in running' : g \in running /\ (batch'[g] = batch[g] \/ batch'[g] = NoBatch)
    BY <1>0, <2>1, ZenonT(30) DEF FlushesTypeOK
  <2> QED
    BY <1>1, <2>1, <2>2, ZenonT(30)
<1>5. CASE UNCHANGED <<log, generation, running, batch>>
  BY <1>1, <1>5, ZenonT(30)
<1>6. ASSUME NEW f \in Flushers,
             \/ FlushTimeout(f) \/ ShutdownJoin(f) \/ \E v \in VBuckets : SaveWrite(f, v)
             \/ flush(f) \/ shutdown(f)
      PROVE  Sound(vb, w)'
  BY <1>5, <1>6, ZenonT(30) DEF FlushTimeout, ShutdownJoin, SaveWrite, flush, shutdown,
                                FlushBegin, partitionVars
<1>7. CASE SchedulerTick \/ SchedulerExit \/ UNCHANGED vars \/ \E v \in VBuckets : LateWrite(v)
  BY <1>5, <1>7, ZenonT(30) DEF SchedulerTick, SchedulerExit, FlushBegin, LateWrite, vars,
                                partitionVars, flushVars
<1>8. CASE Application
  BY <1>0, <1>2, <1>6, <1>8, ApplicationPublishes, ZenonT(30) DEF Flushers
<1> QED
  BY <1>3, <1>4, <1>6, <1>7, <1>8, ZenonT(30) DEF Next, FlushStep, SaveStep

\* Only saves, one that fails included, bring something new on its way to the store.
LEMMA ArrivingComesFromBatches ==
  ASSUME IInv, [Next]_vars, NEW vb \in VBuckets, NEW w \in Arriving(vb)', w \notin Arriving(vb)
  PROVE  \E f \in running : vb \in todo[f] /\ w = batch[f][vb]
<1>0. TypeOK /\ SaveInv /\ PartitionsTypeOK /\ FlushesTypeOK /\ StoreTypeOK
  BY ZenonT(30) DEF IInv, TypeOK
<1> DEFINE Goal == \E f \in running : vb \in todo[f] /\ w = batch[f][vb]
<1>1. CASE UNCHANGED storeVars
  BY <1>1, ZenonT(30) DEF storeVars, Arriving
<1>2. ASSUME NEW f \in Flushers, NEW v \in VBuckets, SaveWrite(f, v)
      PROVE  Goal
  <2>1. /\ f \in running /\ v \in todo[f] /\ UNCHANGED abandoned
        /\ store' = [store EXCEPT ![v] = batch[f][v].checkpoint]
        /\ stored_generation' = [stored_generation EXCEPT ![v] = batch[f][v].generation]
    BY <1>2, ZenonT(30) DEF SaveWrite
  <2>2. w = [checkpoint |-> store'[vb], generation |-> stored_generation'[vb]]
    BY <2>1, ZenonT(30) DEF Arriving
  <2>3. v = vb
    <3>1. CASE v # vb
      <4>1. store'[vb] = store[vb] /\ stored_generation'[vb] = stored_generation[vb]
        BY <1>0, <2>1, <3>1, ZenonT(30) DEF StoreTypeOK
      <4> QED
        BY <2>2, <4>1, ZenonT(30) DEF Arriving
    <3> QED
      BY <3>1, ZenonT(30)
  <2>4. store'[vb] = batch[f][vb].checkpoint /\ stored_generation'[vb] = batch[f][vb].generation
    BY <1>0, <2>1, <2>3, ZenonT(30) DEF StoreTypeOK
  <2>5. batch[f][vb] = [checkpoint |-> batch[f][vb].checkpoint, generation |-> batch[f][vb].generation]
    BY <2>1, <2>3, BatchIsSound DEF DirtyCheckpoint
  <2>6. w = batch[f][vb]
    BY <2>2, <2>4, <2>5, ZenonT(30)
  <2> QED
    BY <2>1, <2>3, <2>6, ZenonT(30)
<1>3. ASSUME NEW f \in Flushers, SaveFails(f)
      PROVE  Goal
  <2>1. /\ f \in running /\ UNCHANGED <<store, stored_generation>>
        /\ \E sent \in SUBSET todo[f] :
             abandoned' = [v \in VBuckets |-> IF v \in sent THEN abandoned[v] \cup {batch[f][v]}
                                              ELSE abandoned[v]]
    BY <1>3, ZenonT(30) DEF SaveFails, SaveEnd
  <2>2. w \in abandoned'[vb] /\ w \notin abandoned[vb]
    BY <2>1, ZenonT(30) DEF Arriving
  <2> QED
    BY <2>1, <2>2, ZenonT(30)
<1>4. ASSUME NEW v \in VBuckets, LateWrite(v)
      PROVE  Goal
  <2>1. PICK u \in abandoned[v] :
          /\ store' = [store EXCEPT ![v] = u.checkpoint]
          /\ stored_generation' = [stored_generation EXCEPT ![v] = u.generation]
          /\ UNCHANGED abandoned
    BY <1>4, ZenonT(30) DEF LateWrite
  <2>2. w = [checkpoint |-> store'[vb], generation |-> stored_generation'[vb]]
    BY <2>1, ZenonT(30) DEF Arriving
  <2>3. CASE v # vb
    <3>1. store'[vb] = store[vb] /\ stored_generation'[vb] = stored_generation[vb]
      BY <1>0, <2>1, <2>3, ZenonT(30) DEF StoreTypeOK
    <3> QED
      BY <2>2, <3>1, ZenonT(30) DEF Arriving
  <2>4. CASE v = vb
    <3>1. store'[vb] = u.checkpoint /\ stored_generation'[vb] = u.generation
      BY <1>0, <2>1, <2>4, ZenonT(30) DEF StoreTypeOK
    <3>2. u \in DirtyCheckpoint
      BY <1>0, ZenonT(30) DEF StoreTypeOK
    <3>3. u = [checkpoint |-> u.checkpoint, generation |-> u.generation]
      BY <3>2 DEF DirtyCheckpoint
    <3>4. w = u
      BY <2>2, <3>1, <3>3, ZenonT(30)
    <3> QED
      BY <2>4, <3>4, ZenonT(30) DEF Arriving
  <2> QED
    BY <2>3, <2>4, ZenonT(30)
<1>5. ASSUME NEW f \in Flushers, FlushStep(f) \/ SaveOk(f)
      PROVE  Goal
  BY <1>1, <1>5, ZenonT(30) DEF FlushStep, FlushGate, FlushTimeout, FlushApply, ShutdownJoin,
                                FlushBegin, SaveOk, SaveEnd, storeVars
<1>6. CASE Application
  BY <1>0, <1>1, <1>6, ApplicationPublishes, ZenonT(30) DEF PublishStep, flush, FlushBegin, shutdown
<1>7. CASE SchedulerTick \/ SchedulerExit \/ UNCHANGED vars
  BY <1>1, <1>7, ZenonT(30) DEF SchedulerTick, SchedulerExit, FlushBegin, vars
<1> QED
  BY <1>2, <1>3, <1>4, <1>5, <1>6, <1>7, ZenonT(30) DEF Next, SaveStep

\* The invariants hold in every reachable state of the coordinator.
LEMMA Invariance == Spec => [](IInv /\ StoreInv)
<1>1. Init => StoreInv
  <2> SUFFICES ASSUME Init, NEW vb \in VBuckets, NEW w \in Arriving(vb) PROVE Sound(vb, w)
    BY ZenonT(30) DEF StoreInv
  <2>1. w = [checkpoint |-> store[vb], generation |-> 0] /\ running = {}
    BY ZenonT(30) DEF Init, Arriving
  <2>2. \/ /\ store[vb] = processed[vb]
           /\ generation[vb] = 0 /\ log[vb] = <<processed[vb]>>
        \/ generation[vb] = 1 /\ log[vb] = <<store[vb], processed[vb]>>
    BY ZenonT(30) DEF Init
  <2>3. generation[vb] \in {0, 1} /\ log[vb][1] = store[vb]
    BY <2>2
  <2>4. 0 \in Nat /\ 0 <= generation[vb] /\ 0 + 1 = 1
    BY <2>3
  <2> QED
    BY <2>1, <2>3, <2>4, ZenonT(30) DEF Sound
<1>2. IInv /\ StoreInv /\ [Next]_vars => StoreInv'
  <2> SUFFICES ASSUME IInv, StoreInv, [Next]_vars, NEW vb \in VBuckets, NEW w \in Arriving(vb)'
               PROVE  Sound(vb, w)'
    BY ZenonT(30) DEF StoreInv
  <2>1. CASE w \in Arriving(vb)
    BY <2>1, SoundStays, ZenonT(30) DEF StoreInv
  <2>2. CASE w \notin Arriving(vb)
    <3>1. Sound(vb, w)
      BY <2>2, ArrivingComesFromBatches, BatchIsSound, ZenonT(30)
    <3> QED
      BY <3>1, SoundStays, ZenonT(30)
  <2> QED
    BY <2>1, <2>2, ZenonT(30)
<1> QED
  BY <1>1, <1>2, InvInit, InvNext, PTL DEF Spec

\* What the store holds is a position of the log.
LEMMA StoredIsLogged ==
  ASSUME StoreInv, NEW vb \in VBuckets
  PROVE  /\ stored_generation[vb] \in Nat /\ stored_generation[vb] <= generation[vb]
         /\ store[vb] = log[vb][stored_generation[vb] + 1]
         /\ \A f \in running : batch[f][vb] # NoCheckpoint =>
              stored_generation[vb] <= batch[f][vb].generation
<1> DEFINE w == [checkpoint |-> store[vb], generation |-> stored_generation[vb]]
<1>1. Sound(vb, w)
  BY ZenonT(30) DEF StoreInv, Arriving
<1>2. w.checkpoint = store[vb] /\ w.generation = stored_generation[vb]
  OBVIOUS
<1> HIDE DEF w
<1> QED
  BY <1>1, <1>2, ZenonT(30) DEF Sound

\* A vBucket that is_dirty() reports clean has its processed position in the store, for
\* any number of vBuckets, of concurrent flushes and of failed saves, unless a write of an
\* earlier save that failed arrived after it.
THEOREM CleanStored == Spec => []CleanMeansStored
<1>1. IInv /\ StoreInv => CleanMeansStored
  <2> SUFFICES ASSUME IInv, StoreInv, NEW vb \in VBuckets, ~is_dirty(vb), ~Overtaken(vb)
               PROVE  store[vb] = processed[vb]
    BY ZenonT(30) DEF CleanMeansStored
  <2>1. TypeOK /\ LogInv /\ PartitionsTypeOK
    BY ZenonT(30) DEF IInv, TypeOK
  <2>2. written[vb] = generation[vb] /\ generation[vb] \in Nat
    BY <2>1, CleanIsWritten, ZenonT(30) DEF PartitionsTypeOK
  <2>3. stored_generation[vb] = generation[vb]
    BY <2>2, StoredIsLogged DEF Overtaken
  <2> QED
    BY <2>1, <2>3, StoredIsLogged, ZenonT(30) DEF LogInv
<1> QED
  BY <1>1, Invariance, PTL

\* A flush() or shutdown() that returns Ok has made durable all that was processed
\* when it started, also if others' saves did the work; only a write of an earlier save
\* that failed can take that back.
THEOREM FlushOk == Spec => []FlushOkIsDurable
<1>1. IInv => FlushOkIsDurable
  <2> SUFFICES ASSUME IInv, NEW f \in Flushers, result[f] = "ok", NEW vb \in VBuckets
               PROVE  stored_generation[vb] >= need[f][vb] \/ Overtaken(vb)
    BY ZenonT(30) DEF FlushOkIsDurable
  <2>1. NeedInv /\ StoreTypeOK /\ FlushesTypeOK
    BY ZenonT(30) DEF IInv, TypeOK
  <2>2. written[vb] >= need[f][vb]
    BY <2>1, ZenonT(30) DEF NeedInv
  <2>3. need[f][vb] \in Nat /\ written[vb] \in Nat /\ stored_generation[vb] \in Nat
    BY <2>1, ZenonT(30) DEF StoreTypeOK, FlushesTypeOK
  <2> QED
    BY <2>2, <2>3 DEF Overtaken
<1> QED
  BY <1>1, Invariance, PTL

\* Only the writes of saves, those that were given up on included, change the store.
LEMMA OnlySavesStore ==
  ASSUME TypeOK, [Next]_vars
  PROVE  \/ UNCHANGED storeVars
         \/ \E f \in Flushers, vb \in VBuckets : SaveWrite(f, vb)
         \/ \E f \in Flushers : SaveFails(f)
         \/ \E vb \in VBuckets : LateWrite(vb)
<1>1. CASE Application
  BY <1>1, ApplicationPublishes, ZenonT(30) DEF PublishStep, flush, FlushBegin, shutdown
<1>2. ASSUME NEW f \in Flushers, FlushStep(f) \/ SaveStep(f)
      PROVE  UNCHANGED storeVars \/ SaveFails(f) \/ \E vb \in VBuckets : SaveWrite(f, vb)
  BY <1>2, ZenonT(30) DEF FlushStep, FlushGate, FlushTimeout, FlushApply, ShutdownJoin, FlushBegin,
              SaveStep, SaveOk, SaveEnd, storeVars
<1>3. CASE SchedulerTick \/ SchedulerExit
  BY <1>3, ZenonT(30) DEF SchedulerTick, SchedulerExit, FlushBegin
<1>4. CASE UNCHANGED vars
  BY <1>4, ZenonT(30) DEF vars
<1> QED
  BY <1>1, <1>2, <1>3, <1>4, ZenonT(30) DEF Next

\* A save that its flush has given up never overwrites what a later save wrote; only a
\* write that a failed save gave up on can, and it is no save's own write.
THEOREM NoRegression == Spec => StoreNeverRegresses
<1> DEFINE Forward ==
      \A vb \in VBuckets :
        \/ stored_generation'[vb] >= stored_generation[vb]
        \/ /\ \E w \in abandoned[vb] : w.generation = stored_generation'[vb]
           /\ UNCHANGED written
<1>1. IInv /\ StoreInv /\ [Next]_vars => [Forward]_vars
  <2> SUFFICES ASSUME IInv, StoreInv, [Next]_vars, NEW vb \in VBuckets
               PROVE  \/ stored_generation'[vb] >= stored_generation[vb]
                      \/ /\ \E w \in abandoned[vb] : w.generation = stored_generation'[vb]
                         /\ UNCHANGED written
    BY ZenonT(30)
  <2>0. TypeOK /\ SaveInv /\ stored_generation \in [VBuckets -> Nat]
    BY ZenonT(30) DEF IInv, TypeOK, StoreTypeOK
  <2>1. stored_generation[vb] \in Nat /\ stored_generation[vb] >= stored_generation[vb]
    BY <2>0
  <2>2. CASE stored_generation'[vb] = stored_generation[vb]
    BY <2>1, <2>2, ZenonT(30)
  <2>3. ASSUME NEW f \in Flushers, NEW v \in VBuckets, SaveWrite(f, v)
        PROVE  stored_generation'[vb] >= stored_generation[vb]
    <3>1. /\ f \in running /\ v \in todo[f]
          /\ stored_generation' = [stored_generation EXCEPT ![v] = batch[f][v].generation]
      BY <2>3, ZenonT(30) DEF SaveWrite
    <3>2. CASE v = vb
      <4>1. batch[f][vb] \in DirtyCheckpoint /\ batch[f][vb] # NoCheckpoint
        BY <2>0, <3>1, <3>2, BatchIsSound, ZenonT(30) DEF SaveInv
      <4>2. stored_generation[vb] <= batch[f][vb].generation /\ batch[f][vb].generation \in Nat
        BY <3>1, <4>1, StoredIsLogged DEF DirtyCheckpoint
      <4>3. stored_generation'[vb] = batch[f][vb].generation
        BY <2>0, <3>1, <3>2, ZenonT(30)
      <4> QED
        BY <2>1, <4>2, <4>3
    <3>3. CASE v # vb
      BY <2>0, <2>1, <3>1, <3>3, ZenonT(30)
    <3> QED
      BY <3>2, <3>3, ZenonT(30)
  <2>4. ASSUME NEW v \in VBuckets, LateWrite(v), stored_generation'[vb] # stored_generation[vb]
        PROVE  /\ \E w \in abandoned[vb] : w.generation = stored_generation'[vb]
               /\ UNCHANGED written
    <3>1. PICK w \in abandoned[v] :
            /\ stored_generation' = [stored_generation EXCEPT ![v] = w.generation]
            /\ UNCHANGED written
      BY <2>4, ZenonT(30) DEF LateWrite
    <3>2. v = vb
      BY <2>0, <2>4, <3>1, ZenonT(30)
    <3>3. stored_generation'[vb] = w.generation
      BY <2>0, <3>1, <3>2, ZenonT(30)
    <3> QED
      BY <3>1, <3>2, <3>3, ZenonT(30)
  <2>5. ASSUME UNCHANGED storeVars \/ \E f \in Flushers : SaveFails(f)
        PROVE  stored_generation'[vb] = stored_generation[vb]
    BY <2>5, ZenonT(30) DEF storeVars, SaveFails, SaveEnd
  <2> QED
    BY <2>0, <2>2, <2>3, <2>4, <2>5, OnlySavesStore, ZenonT(30)
<1> QED
  BY <1>1, Invariance, PTL DEF Spec, StoreNeverRegresses

\* Only the application's steps extend the log.
LEMMA OnlyPublishLogs ==
  ASSUME TypeOK, [Next]_vars
  PROVE  UNCHANGED log \/ PublishStep
<1>1. CASE Application
  BY <1>1, ApplicationPublishes, ZenonT(30) DEF flush, FlushBegin, shutdown, partitionVars
<1>2. ASSUME NEW f \in Flushers, FlushStep(f) \/ SaveStep(f)
      PROVE  UNCHANGED log
  BY <1>2, ZenonT(30) DEF FlushStep, FlushGate, FlushTimeout, FlushApply, ShutdownJoin, FlushBegin,
              SaveStep, SaveOk, SaveFails, SaveEnd, SaveWrite, partitionVars
<1>3. CASE SchedulerTick \/ SchedulerExit \/ \E vb \in VBuckets : LateWrite(vb)
  BY <1>3, ZenonT(30) DEF SchedulerTick, SchedulerExit, FlushBegin, LateWrite, partitionVars
<1>4. CASE UNCHANGED vars
  BY <1>4, ZenonT(30) DEF vars, partitionVars
<1> QED
  BY <1>1, <1>2, <1>3, <1>4, ZenonT(30) DEF Next

\* The generations of the writes that were given up on.
Lost == [vb \in VBuckets |-> {w.generation : w \in abandoned[vb]}]

\* A save that fails gives up on writes of positions of the log.
LEMMA GivingUp ==
  ASSUME IInv', StoreInv', NEW f \in Flushers, SaveFails(f)
  PROVE  Durable!GiveUp
<1>0. LogInv' /\ PartitionsTypeOK' /\ UNCHANGED <<log, store, stored_generation>>
  BY ZenonT(30) DEF IInv, TypeOK, SaveFails, SaveEnd, partitionVars
<1>1. ASSUME NEW vb \in VBuckets
      PROVE  Lost[vb] \subseteq Lost'[vb]
  <2>1. abandoned[vb] \subseteq abandoned'[vb]
    BY ZenonT(30) DEF SaveFails
  <2> QED
    BY <2>1, ZenonT(30) DEF Lost
<1>2. ASSUME NEW vb \in VBuckets, NEW g \in Lost'[vb]
      PROVE  g \in 0..(Len(log[vb]) - 1)
  <2>1. PICK w \in abandoned'[vb] : g = w.generation
    BY ZenonT(30) DEF Lost
  <2>2. Sound(vb, w)'
    BY ZenonT(30) DEF StoreInv, Arriving
  <2>3. g \in Nat /\ g <= generation'[vb]
    BY <2>1, <2>2, ZenonT(30) DEF Sound
  <2>4. Len(log[vb]) = generation'[vb] + 1 /\ generation'[vb] \in Nat
    BY <1>0, ZenonT(30) DEF LogInv, PartitionsTypeOK
  <2> QED
    BY <2>3, <2>4
<1>3. \A vb \in VBuckets : /\ Lost[vb] \subseteq Lost'[vb]
                           /\ Lost'[vb] \subseteq 0..(Len(log[vb]) - 1)
  BY <1>1, <1>2, ZenonT(30)
<1> QED
  BY <1>0, <1>3, ZenonT(30) DEF Durable!GiveUp, Lost

\* The coordinator implements the abstract durable log: what a restart loads was a
\* processed position; saves move it forward along the log, and only a write of a save
\* that failed takes it back.
THEOREM Refinement == Spec => ImplementsDurableLog
<1>1. Init => Durable!Init
  <2> SUFFICES ASSUME Init PROVE Durable!Init
    OBVIOUS
  <2>1. ASSUME NEW vb \in VBuckets
        PROVE  Len(log[vb]) >= 1 /\ store[vb] = log[vb][1]
    BY DEF Init
  <2>2. store = [vb \in VBuckets |-> store[vb]]
    BY DEF Init
  <2>3. Lost = [vb \in VBuckets |-> {}]
    BY ZenonT(30) DEF Init, Lost
  <2>4. stored_generation = [vb \in VBuckets |-> 0]
    BY DEF Init
  <2>5. store = [vb \in VBuckets |-> log[vb][1]]
    BY <2>1, <2>2
  <2> QED
    BY <2>1, <2>3, <2>4, <2>5, ZenonT(30) DEF Durable!Init, Lost
<1>2. IInv /\ StoreInv /\ IInv' /\ StoreInv' /\ [Next]_vars => [Durable!Next]_(Durable!vars)
  <2> SUFFICES ASSUME IInv, StoreInv, IInv', StoreInv', [Next]_vars
               PROVE  [Durable!Next]_(Durable!vars)
    OBVIOUS
  <2>0. TypeOK /\ PartitionsTypeOK /\ StoreTypeOK /\ SaveInv /\ LogInv
    BY ZenonT(30) DEF IInv, TypeOK
  <2>1. CASE PublishStep
    <3>1. ASSUME NEW vb \in VBuckets
          PROVE  \/ log'[vb] = log[vb]
                 \/ /\ Len(log'[vb]) = Len(log[vb]) + 1
                    /\ \A i \in 1..Len(log[vb]) : log'[vb][i] = log[vb][i]
      <4>1. log[vb] \in Seq(Position) /\ Published(vb)
        BY <2>0, <2>1, ZenonT(30) DEF PartitionsTypeOK, PublishStep
      <4>2. ASSUME NEW c \in Checkpoint, log'[vb] = Append(log[vb], c)
            PROVE  /\ Len(log'[vb]) = Len(log[vb]) + 1
                   /\ \A i \in 1..Len(log[vb]) : log'[vb][i] = log[vb][i]
        <5>1. c \in Position
          BY DEF Position
        <5> QED
          BY <4>1, <4>2, <5>1
      <4> QED
        BY <4>1, <4>2, ZenonT(30) DEF Published
    <3>2. UNCHANGED <<stored_generation, abandoned, store>>
      BY <2>1, ZenonT(30) DEF PublishStep, storeVars
    <3> QED
      BY <3>1, <3>2, ZenonT(30) DEF Durable!Next, Durable!Publish
  <2>2. CASE UNCHANGED log /\ UNCHANGED storeVars
    BY <2>2, ZenonT(30) DEF Durable!vars, storeVars
  <2>3. ASSUME NEW f \in Flushers, NEW vb \in VBuckets, SaveWrite(f, vb)
        PROVE  [Durable!Next]_(Durable!vars)
    <3> DEFINE g == batch[f][vb].generation
    <3>1. /\ f \in running /\ vb \in todo[f] /\ UNCHANGED <<log, abandoned>>
          /\ store' = [store EXCEPT ![vb] = batch[f][vb].checkpoint]
          /\ stored_generation' = [stored_generation EXCEPT ![vb] = g]
      BY <2>3, ZenonT(30) DEF SaveWrite, partitionVars
    <3>2. Sound(vb, batch[f][vb]) /\ batch[f][vb] # NoCheckpoint
      BY <2>0, <3>1, BatchIsSound, ZenonT(30) DEF SaveInv
    <3>3. /\ g \in Nat /\ stored_generation[vb] <= g /\ g <= generation[vb]
          /\ batch[f][vb].checkpoint = log[vb][g + 1]
      BY <3>1, <3>2, StoredIsLogged, ZenonT(30) DEF Sound
    <3>4. /\ stored_generation[vb] \in Nat /\ generation[vb] \in Nat
          /\ Len(log[vb]) = generation[vb] + 1
          /\ store[vb] = log[vb][stored_generation[vb] + 1]
      BY <2>0, StoredIsLogged, ZenonT(30) DEF LogInv, PartitionsTypeOK
    <3> HIDE DEF g
    <3>5. CASE g = stored_generation[vb]
      <4>1. store' = store /\ stored_generation' = stored_generation
        BY <2>0, <3>1, <3>3, <3>4, <3>5, ZenonT(30) DEF StoreTypeOK
      <4> QED
        BY <3>1, <4>1, ZenonT(30) DEF Durable!vars
    <3>6. CASE g # stored_generation[vb]
      <4>1. g \in (stored_generation[vb] + 1)..(Len(log[vb]) - 1)
        BY <3>3, <3>4, <3>6
      <4>2. Durable!Save(vb)
        BY <3>1, <3>3, <4>1, ZenonT(30) DEF Durable!Save
      <4> QED
        BY <4>2, ZenonT(30) DEF Durable!Next
    <3> QED
      BY <3>5, <3>6, ZenonT(30)
  <2>4. ASSUME NEW vb \in VBuckets, LateWrite(vb)
        PROVE  [Durable!Next]_(Durable!vars)
    <3>1. PICK w \in abandoned[vb] :
            /\ store' = [store EXCEPT ![vb] = w.checkpoint]
            /\ stored_generation' = [stored_generation EXCEPT ![vb] = w.generation]
            /\ UNCHANGED <<log, abandoned>>
      BY <2>4, ZenonT(30) DEF LateWrite, partitionVars
    <3>2. Sound(vb, w)
      BY ZenonT(30) DEF StoreInv, Arriving
    <3>3. w.generation \in Lost[vb] /\ w.checkpoint = log[vb][w.generation + 1]
      BY <3>2, ZenonT(30) DEF Sound, Lost
    <3>4. Durable!Late(vb)
      BY <3>1, <3>3, ZenonT(30) DEF Durable!Late, Lost
    <3> QED
      BY <3>4, ZenonT(30) DEF Durable!Next
  <2>5. ASSUME NEW f \in Flushers, SaveFails(f)
        PROVE  [Durable!Next]_(Durable!vars)
    BY <2>5, GivingUp, ZenonT(30) DEF Durable!Next
  <2> QED
    BY <2>0, <2>1, <2>2, <2>3, <2>4, <2>5, OnlyPublishLogs, OnlySavesStore, ZenonT(30)
<1> QED
  BY <1>1, <1>2, Invariance, PTL DEF Spec, ImplementsDurableLog, Durable!Spec

=============================================================================

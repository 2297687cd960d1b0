-------------------- MODULE CheckpointCoordinatorProofs --------------------
(***************************************************************************)
(* Theorems about CheckpointCoordinator, for every value of its constants: *)
(* types, what its acknowledgement queues guarantee of `processed', and    *)
(* that what is stored loads again.                                        *)
(***************************************************************************)
EXTENDS CheckpointCoordinator, TLAPS, SequenceTheorems

\* For the steps that name no prover: an SMT solver, then Zenon.
USE SMTT(30), ZenonT(30)

\* The position that track_event extends is a checkpoint.
LEMMA LastCheckpointType ==
  ASSUME TypeOK, NEW vb \in VBuckets
  PROVE  LastCheckpoint(vb) \in Checkpoint
<1>1. CASE pending[vb] = <<>>
  BY <1>1 DEF TypeOK, PartitionsTypeOK, LastCheckpoint
<1>2. CASE pending[vb] # <<>>
  <2>1. pending[vb] \in Seq(PendingAck)
    BY DEF TypeOK, PartitionsTypeOK
  <2>2. pending[vb][Len(pending[vb])] \in PendingAck
    BY <1>2, <2>1
  <2> QED
    BY <1>2, <2>2 DEF LastCheckpoint, PendingAck
<1> QED
  BY <1>1, <1>2

\* Acknowledging an entry keeps the queue a sequence of the same length.
LEMMA MarkAcknowledgedType ==
  ASSUME NEW queue \in Seq(PendingAck), NEW id
  PROVE  /\ MarkAcknowledged(queue, id) \in Seq(PendingAck)
         /\ Len(MarkAcknowledged(queue, id)) = Len(queue)
<1> DEFINE marked == MarkAcknowledged(queue, id)
<1>1. DOMAIN marked = 1..Len(queue) /\ Len(queue) \in Nat
  BY DEF MarkAcknowledged
<1>2. ASSUME NEW i \in 1..Len(queue) PROVE marked[i] \in PendingAck
  <2>1. queue[i] \in PendingAck
    OBVIOUS
  <2>2. [queue[i] EXCEPT !.acknowledged = TRUE] \in PendingAck
    BY <2>1, ZenonT(30) DEF PendingAck
  <2>3. marked[i] = queue[i] \/ marked[i] = [queue[i] EXCEPT !.acknowledged = TRUE]
    <3>1. i \in DOMAIN queue
      OBVIOUS
    <3> QED
      BY <3>1, ZenonT(30) DEF MarkAcknowledged
  <2> QED
    BY <2>1, <2>2, <2>3, ZenonT(30)
<1>3. marked = [i \in 1..Len(queue) |-> marked[i]]
  BY <1>1 DEF MarkAcknowledged
<1> HIDE DEF marked
<1>4. marked \in Seq(PendingAck)
  BY <1>1, <1>2, <1>3
<1>5. Len(marked) = Len(queue)
  BY <1>1, <1>3, <1>4
<1> QED
  BY <1>4, <1>5 DEF marked

(***************************************************************************)
(* Which save holds the gate.  Needed already for types: a save writes     *)
(* only vBuckets of its batch.                                             *)
(***************************************************************************)

SaveInv ==
  \A f \in Flushers :
    /\ f \in running <=> gate = f
    /\ f \notin running => todo[f] = {}
    /\ pc[f] = "saving" => f \in running
    /\ pc[f] = "saved" => f \notin running
    /\ \A vb \in todo[f] : batch[f][vb] # NoCheckpoint

\* Types and SaveInv hold initially.
LEMMA TypingInit == Init => TypeOK /\ SaveInv
<1> SUFFICES ASSUME Init PROVE TypeOK /\ SaveInv
  OBVIOUS
<1> USE FlushersAssumption, InputsAssumption
<1>1. /\ processed \in [VBuckets -> Checkpoint]
      /\ store \in [VBuckets -> Position]
  BY DEF Init, Position
<1>2. last_registered_seqno \in [VBuckets -> Nat]
  BY <1>1 DEF Init, Checkpoint
<1>3. log \in [VBuckets -> Seq(Position)]
  <2>1. ASSUME NEW vb \in VBuckets
        PROVE  log[vb] \in Seq(Position)
    <3>1. store[vb] \in Position /\ processed[vb] \in Position
      BY <1>1 DEF Position
    <3>2. log[vb] = <<processed[vb]>> \/ log[vb] = <<store[vb], processed[vb]>>
      BY DEF Init
    <3>3. <<processed[vb]>> \in Seq(Position) /\ <<store[vb], processed[vb]>> \in Seq(Position)
      BY <3>1
    <3> QED
      BY <3>2, <3>3, ZenonT(30)
  <2> QED
    BY <2>1 DEF Init
<1>4. PartitionsTypeOK
  BY <1>1, <1>2, <1>3 DEF Init, PartitionsTypeOK
<1>5. FlushesTypeOK /\ StoreTypeOK
  BY <1>1, ZenonT(30) DEF Init, FlushesTypeOK, StoreTypeOK, NoBatch
<1>6. SaveInv
  BY DEF Init, SaveInv
<1> QED
  BY <1>4, <1>5, <1>6 DEF TypeOK

\* No step of the application breaks the types of the partitions.
LEMMA PartitionTyping == TypeOK /\ Application => PartitionsTypeOK'
<1> SUFFICES ASSUME PartitionsTypeOK, TypeOK, Application PROVE PartitionsTypeOK'
  BY DEF TypeOK
<1>0. ASSUME NEW vb \in VBuckets, NEW c \in Position
      PROVE  [log EXCEPT ![vb] = Append(@, c)] \in [VBuckets -> Seq(Position)]
  BY DEF PartitionsTypeOK
<1>1. ASSUME NEW vb \in VBuckets, NEW m \in Markers, TrackMarker(vb, m)
      PROVE  PartitionsTypeOK'
  BY <1>1, InputsAssumption, ZenonT(30) DEF PartitionsTypeOK, TrackMarker
<1>2. ASSUME NEW vb \in VBuckets, NEW seqno \in Nat, NEW uid \in Nat,
             TrackEvent(vb, seqno, uid)
      PROVE  PartitionsTypeOK'
  <2> DEFINE c == [LastCheckpoint(vb) EXCEPT !.seqno = seqno,
                     !.snapshot_start = snapshot[vb][1],
                     !.snapshot_end = snapshot[vb][2],
                     !.manifest_uid = IF uid = 0 THEN @ ELSE uid]
             p == [delivery_id |-> next_delivery_id[vb], checkpoint |-> c,
                   acknowledged |-> FALSE]
             t == [delivery_id |-> next_delivery_id[vb], seqno |-> seqno,
                   epoch |-> epoch[vb]]
  <2>1. snapshot[vb][1] \in Nat /\ snapshot[vb][2] \in Nat
    BY <1>2 DEF PartitionsTypeOK, TrackEvent, Register
  <2>2. c \in Checkpoint
    BY <2>1, LastCheckpointType, ZenonT(30) DEF Checkpoint
  <2>3. p \in PendingAck /\ t \in EventAck
    BY <2>2 DEF PendingAck, EventAck, PartitionsTypeOK
  <2>4. /\ pending' = [pending EXCEPT ![vb] = Append(@, p)]
        /\ tokens' = [tokens EXCEPT ![vb] = @ \cup {t}]
    BY <1>2 DEF TrackEvent, Register
  <2>5. pending' \in [VBuckets -> Seq(PendingAck)]
    BY <2>3, <2>4 DEF PartitionsTypeOK
  <2>6. tokens' \in [VBuckets -> SUBSET EventAck]
    BY <2>3, <2>4, ZenonT(30) DEF PartitionsTypeOK
  <2>7. /\ next_delivery_id' \in [VBuckets -> Nat]
        /\ last_registered_seqno' \in [VBuckets -> Nat]
    <3>1. /\ next_delivery_id' = [next_delivery_id EXCEPT ![vb] = @ + 1]
          /\ last_registered_seqno' = [last_registered_seqno EXCEPT ![vb] = seqno]
      BY <1>2, ZenonT(30) DEF TrackEvent, Register
    <3> QED
      BY <3>1 DEF PartitionsTypeOK
  <2> QED
    BY <1>2, <2>5, <2>6, <2>7, ZenonT(30) DEF PartitionsTypeOK, TrackEvent, Register
<1>3. ASSUME NEW vb \in VBuckets, NEW t \in tokens[vb], Acknowledge(vb, t)
      PROVE  PartitionsTypeOK'
  <2>1. tokens' \in [VBuckets -> SUBSET EventAck]
    BY <1>3, ZenonT(30) DEF PartitionsTypeOK, Acknowledge
  <2>2. CASE AcknowledgeLive(vb, t)
    <3> DEFINE queue == MarkAcknowledged(pending[vb], t.delivery_id)
    <3>1. queue \in Seq(PendingAck)
      BY MarkAcknowledgedType DEF PartitionsTypeOK
    <3>2. PICK n \in 0..Len(queue) :
            /\ pending' = [pending EXCEPT ![vb] = SubSeq(queue, n + 1, Len(queue))]
            /\ \/ n = 0 /\ UNCHANGED <<processed, generation, log>>
               \/ /\ n > 0
                  /\ processed' = [processed EXCEPT ![vb] = queue[n].checkpoint]
                  /\ generation' = [generation EXCEPT ![vb] = @ + 1]
                  /\ log' = [log EXCEPT ![vb] = Append(@, queue[n].checkpoint)]
      BY <2>2, ZenonT(30) DEF AcknowledgeLive
    <3> HIDE DEF queue
    <3>3. SubSeq(queue, n + 1, Len(queue)) \in Seq(PendingAck)
      BY <3>1
    <3>4. pending' \in [VBuckets -> Seq(PendingAck)]
      BY <3>2, <3>3 DEF PartitionsTypeOK
    <3>5. n # 0 => queue[n] \in PendingAck
      BY <3>1
    <3>6. n # 0 => queue[n].checkpoint \in Checkpoint
      BY <3>5 DEF PendingAck
    <3>7. CASE n = 0
      BY <1>3, <2>1, <3>2, <3>4, <3>7 DEF PartitionsTypeOK, Acknowledge
    <3>8. CASE n # 0
      <4> DEFINE c == queue[n].checkpoint
      <4>0. /\ processed' = [processed EXCEPT ![vb] = c]
            /\ generation' = [generation EXCEPT ![vb] = @ + 1]
            /\ log' = [log EXCEPT ![vb] = Append(@, c)]
            /\ c \in Checkpoint /\ c \in Position
        BY <3>2, <3>6, <3>8, ZenonT(30) DEF Position
      <4> HIDE DEF c
      <4>1. log' \in [VBuckets -> Seq(Position)]
        BY <1>0, <4>0
      <4>2. processed' \in [VBuckets -> Checkpoint]
        BY <4>0 DEF PartitionsTypeOK
      <4>3. generation' \in [VBuckets -> Nat]
        BY <4>0 DEF PartitionsTypeOK
      <4> QED
        BY <1>3, <2>1, <3>4, <4>1, <4>2, <4>3 DEF PartitionsTypeOK, Acknowledge
    <3> QED
      BY <3>7, <3>8
  <2>3. CASE AcknowledgeObsolete(vb, t)
    BY <1>3, <2>1, <2>3, ZenonT(30) DEF PartitionsTypeOK, Acknowledge, AcknowledgeObsolete
  <2> QED
    BY <1>3, <2>2, <2>3 DEF Acknowledge
<1>4. ASSUME NEW vb \in VBuckets, mark_dirty(vb)
      PROVE  PartitionsTypeOK'
  <2>1. log' \in [VBuckets -> Seq(Position)]
    BY <1>0, <1>4, ZenonT(30) DEF PartitionsTypeOK, mark_dirty, Position
  <2> QED
    BY <1>4, <2>1 DEF PartitionsTypeOK, mark_dirty
<1>5. ASSUME NEW S \in SUBSET VBuckets, NEW effective \in [S -> StartCheckpoints],
             rebase_partitions(S, effective)
      PROVE  PartitionsTypeOK'
  <2>1. \A vb \in S : effective[vb] \in Checkpoint /\ effective[vb].seqno \in Nat
    BY InputsAssumption DEF Checkpoint
  <2>2. log' \in [VBuckets -> Seq(Position)]
    BY <1>5, <2>1 DEF PartitionsTypeOK, rebase_partitions, Position
  <2>3. /\ processed' \in [VBuckets -> Checkpoint]
        /\ generation' \in [VBuckets -> Nat]
    BY <1>5, <2>1 DEF PartitionsTypeOK, rebase_partitions
  <2>5. /\ last_registered_seqno' \in [VBuckets -> Nat]
        /\ epoch' \in [VBuckets -> Nat]
    BY <1>5, <2>1 DEF PartitionsTypeOK, rebase_partitions
  <2>4. /\ pending' \in [VBuckets -> Seq(PendingAck)]
        /\ snapshot' \in [VBuckets -> {<<>>} \cup (Nat \X Nat)]
    BY <1>5 DEF PartitionsTypeOK, rebase_partitions
  <2> QED
    BY <1>5, <2>2, <2>3, <2>4, <2>5, ZenonT(30) DEF PartitionsTypeOK, rebase_partitions
<1>6. ASSUME NEW f \in Callers, flush(f) \/ shutdown(f)
      PROVE  PartitionsTypeOK'
  BY <1>6 DEF PartitionsTypeOK, flush, FlushBegin, shutdown, partitionVars
<1>7. ASSUME NEW vb \in VBuckets, TrackNext(vb)
      PROVE  PartitionsTypeOK'
  <2>1. snapshot[vb][1]..snapshot[vb][2] \subseteq Nat /\ {0} \cup SystemUids(vb) \subseteq Nat
    BY <1>7 DEF PartitionsTypeOK, TrackNext, SystemUids
  <2> QED
    BY <1>2, <1>7, <2>1, ZenonT(30) DEF TrackNext
<1> QED
  BY <1>1, <1>3, <1>4, <1>5, <1>6, <1>7, ZenonT(30) DEF Application

\* The first step of a flush keeps all types and SaveInv.
LEMMA FlushBeginTyping ==
  ASSUME TypeOK, SaveInv, NEW f \in Flushers, pc[f] \in {"idle", "joining"},
         FlushBegin(f), UNCHANGED taskVars
  PROVE  TypeOK' /\ SaveInv'
<1>0. PartitionsTypeOK /\ FlushesTypeOK /\ StoreTypeOK
  BY DEF TypeOK
<1>1. PartitionsTypeOK' /\ StoreTypeOK'
  BY <1>0, ZenonT(30) DEF FlushBegin, PartitionsTypeOK, StoreTypeOK, partitionVars, storeVars
<1>2. FlushesTypeOK'
  BY <1>0, ZenonT(30) DEF FlushBegin, Return, FlushesTypeOK, PartitionsTypeOK, taskVars
<1>3. SaveInv'
  BY <1>0 DEF FlushBegin, Return, SaveInv, FlushesTypeOK
<1> QED
  BY <1>1, <1>2, <1>3 DEF TypeOK

\* The flushes and saves keep all types and SaveInv.
LEMMA FlushTyping ==
  ASSUME TypeOK, SaveInv, NEW f \in Flushers, FlushStep(f) \/ SaveStep(f)
  PROVE  TypeOK' /\ SaveInv'
<1> USE FlushersAssumption, InputsAssumption
<1>0. PartitionsTypeOK /\ FlushesTypeOK /\ StoreTypeOK
  BY DEF TypeOK
<1>1. CASE FlushGate(f)
  <2>1. PartitionsTypeOK' /\ StoreTypeOK'
    BY <1>0, <1>1 DEF FlushGate, PartitionsTypeOK, StoreTypeOK, partitionVars, storeVars
  <2>2. CASE DirtyVBuckets = {}
    BY <1>0, <1>1, <2>1, <2>2, ZenonT(60)
    DEF FlushGate, Return, TypeOK, FlushesTypeOK, SaveInv, taskVars
  <2>3. CASE DirtyVBuckets # {}
    <3> DEFINE b == [vb \in VBuckets |->
                 IF is_dirty(vb)
                 THEN [checkpoint |-> processed[vb], generation |-> generation[vb]]
                 ELSE NoCheckpoint]
    <3>1. /\ b \in [VBuckets -> DirtyCheckpoint \cup {NoCheckpoint}]
          /\ \A vb \in DirtyVBuckets : b[vb] # NoCheckpoint
      BY <1>0 DEF PartitionsTypeOK, DirtyCheckpoint, DirtyVBuckets
    <3>2. /\ pc[f] = "gate" /\ gate = Free
          /\ pc' = [pc EXCEPT ![f] = "saving"]
          /\ gate' = f
          /\ running' = running \cup {f}
          /\ todo' = [todo EXCEPT ![f] = DirtyVBuckets]
          /\ batch' = [batch EXCEPT ![f] = b]
          /\ UNCHANGED <<result, need, cancel, scheduler>>
      BY <1>1, <2>3 DEF FlushGate, taskVars
    <3> HIDE DEF b
    <3>3. FlushesTypeOK'
      BY <1>0, <3>1, <3>2, ZenonT(30) DEF FlushesTypeOK, DirtyVBuckets
    <3>4. SaveInv'
      BY <1>0, <3>1, <3>2, ZenonT(30) DEF SaveInv, FlushesTypeOK
    <3> QED
      BY <2>1, <3>3, <3>4 DEF TypeOK
  <2> QED
    BY <2>2, <2>3, ZenonT(30)
<1>2. CASE FlushTimeout(f)
  BY <1>0, <1>2 DEF FlushTimeout, Return, TypeOK, PartitionsTypeOK, FlushesTypeOK,
                    StoreTypeOK, SaveInv, partitionVars, storeVars, taskVars
<1>3. CASE FlushApply(f)
  <2>1. PartitionsTypeOK'
    BY <1>0, <1>3 DEF FlushApply, PartitionsTypeOK, FlushesTypeOK, DirtyCheckpoint
  <2>2. FlushesTypeOK' /\ StoreTypeOK'
    BY <1>0, <1>3, ZenonT(30) DEF FlushApply, Return, NoBatch, FlushesTypeOK, StoreTypeOK, storeVars,
                      taskVars
  <2>3. SaveInv'
    BY <1>0, <1>3 DEF FlushApply, Return, SaveInv, FlushesTypeOK
  <2> QED
    BY <2>1, <2>2, <2>3, ZenonT(30) DEF TypeOK
<1>4. CASE ShutdownJoin(f)
  BY <1>4, FlushBeginTyping, ZenonT(30) DEF ShutdownJoin
<1>5. CASE SaveOk(f)
  <2>1. PartitionsTypeOK' /\ StoreTypeOK'
    BY <1>0, <1>5, ZenonT(30) DEF SaveOk, SaveEnd, PartitionsTypeOK, StoreTypeOK, partitionVars, storeVars
  <2>2. FlushesTypeOK'
    <3>1. /\ gate' \in Flushers \cup {Free}
          /\ running' \in SUBSET Flushers
          /\ batch' \in [Flushers -> [VBuckets -> DirtyCheckpoint \cup {NoCheckpoint}]]
      BY <1>0, <1>5 DEF SaveOk, SaveEnd, NoBatch, FlushesTypeOK
    <3>2. pc' \in [Flushers -> {"idle", "joining", "gate", "saving", "saved"}]
      BY <1>0, <1>5, ZenonT(30) DEF SaveOk, FlushesTypeOK
    <3> QED
      BY <1>0, <1>5, <3>1, <3>2, ZenonT(30) DEF SaveOk, SaveEnd, FlushesTypeOK, taskVars
  <2>3. SaveInv'
    BY <1>0, <1>5, ZenonT(30) DEF SaveOk, SaveEnd, SaveInv, FlushesTypeOK
  <2> QED
    BY <2>1, <2>2, <2>3 DEF TypeOK
<1>6. CASE SaveFails(f)
  <2>0. PICK sent \in SUBSET todo[f] :
          abandoned' = [vb \in VBuckets |-> IF vb \in sent THEN abandoned[vb] \cup {batch[f][vb]}
                                            ELSE abandoned[vb]]
    BY <1>6, ZenonT(30) DEF SaveFails
  <2>a. ASSUME NEW vb \in VBuckets
        PROVE  (IF vb \in sent THEN abandoned[vb] \cup {batch[f][vb]} ELSE abandoned[vb])
                 \in SUBSET DirtyCheckpoint
    <3>1. abandoned[vb] \in SUBSET DirtyCheckpoint
      BY <1>0, ZenonT(30) DEF StoreTypeOK
    <3>2. CASE vb \in sent
      <4>1. batch[f][vb] \in DirtyCheckpoint
        BY <1>0, <3>2 DEF SaveInv, FlushesTypeOK
      <4>2. abandoned[vb] \cup {batch[f][vb]} \in SUBSET DirtyCheckpoint
        BY <3>1, <4>1, ZenonT(30)
      <4> QED
        BY <3>2, <4>2, ZenonT(30)
    <3>3. CASE vb \notin sent
      BY <3>1, <3>3, ZenonT(30)
    <3> QED
      BY <3>2, <3>3, ZenonT(30)
  <2>b. abandoned' \in [VBuckets -> SUBSET DirtyCheckpoint]
    BY <2>0, <2>a, ZenonT(30)
  <2>1. PartitionsTypeOK' /\ StoreTypeOK'
    BY <1>0, <1>6, <2>b, ZenonT(30) DEF SaveFails, SaveEnd, PartitionsTypeOK, StoreTypeOK,
                                        partitionVars
  <2>2. FlushesTypeOK'
    BY <1>0, <1>6, ZenonT(30) DEF SaveFails, SaveEnd, Return, NoBatch, FlushesTypeOK, taskVars
  <2>3. SaveInv'
    BY <1>0, <1>6 DEF SaveFails, SaveEnd, Return, SaveInv, FlushesTypeOK
  <2> QED
    BY <2>1, <2>2, <2>3 DEF TypeOK
<1>7. ASSUME NEW vb \in VBuckets, SaveWrite(f, vb)
      PROVE  TypeOK' /\ SaveInv'
  <2>1. batch[f][vb] \in DirtyCheckpoint
    BY <1>0, <1>7 DEF SaveWrite, SaveInv, FlushesTypeOK
  <2>2. StoreTypeOK'
    BY <1>0, <1>7, <2>1 DEF SaveWrite, StoreTypeOK, Position, DirtyCheckpoint
  <2>3. PartitionsTypeOK' /\ FlushesTypeOK'
    BY <1>0, <1>7, ZenonT(30) DEF SaveWrite, PartitionsTypeOK, FlushesTypeOK, partitionVars, taskVars
  <2>4. SaveInv'
    BY <1>0, <1>7 DEF SaveWrite, SaveInv, FlushesTypeOK
  <2> QED
    BY <2>2, <2>3, <2>4, ZenonT(30) DEF TypeOK
<1> QED
  BY <1>1, <1>2, <1>3, <1>4, <1>5, <1>6, <1>7 DEF FlushStep, SaveStep

\* Types and SaveInv are inductive.
LEMMA TypingNext == TypeOK /\ SaveInv /\ [Next]_vars => TypeOK' /\ SaveInv'
<1> SUFFICES ASSUME TypeOK, SaveInv, [Next]_vars PROVE TypeOK' /\ SaveInv'
  OBVIOUS
<1>0. PartitionsTypeOK /\ FlushesTypeOK /\ StoreTypeOK
  BY DEF TypeOK
<1>1. CASE Application
  <2>1. PartitionsTypeOK'
    BY <1>1, PartitionTyping
  <2>2. ASSUME UNCHANGED <<flushVars, storeVars, taskVars>>
        PROVE  TypeOK' /\ SaveInv'
    BY <1>0, <2>1, <2>2, ZenonT(30) DEF TypeOK, FlushesTypeOK, StoreTypeOK, SaveInv, flushVars,
                            storeVars, taskVars
  <2>3. ASSUME NEW f \in Callers, flush(f) \/ shutdown(f)
        PROVE  TypeOK' /\ SaveInv'
    <3>1. f \in Flushers
      BY DEF Flushers
    <3>2. CASE flush(f)
      BY <3>1, <3>2, FlushBeginTyping DEF flush
    <3>3. CASE shutdown(f)
      BY <1>0, <2>1, <3>1, <3>3, ZenonT(30) DEF shutdown, TypeOK, FlushesTypeOK, StoreTypeOK, SaveInv,
                                    storeVars
    <3> QED
      BY <2>3, <3>2, <3>3
  <2>4. ASSUME NEW vb \in VBuckets, NEW m, TrackMarker(vb, m)
        PROVE  TypeOK' /\ SaveInv'
    BY <2>2, <2>4, ZenonT(30) DEF TrackMarker
  <2>5. ASSUME NEW vb \in VBuckets, TrackNext(vb)
        PROVE  TypeOK' /\ SaveInv'
    BY <2>2, <2>5, ZenonT(30) DEF TrackNext, TrackEvent, Register
  <2>6. ASSUME NEW vb \in VBuckets, NEW t, Acknowledge(vb, t)
        PROVE  TypeOK' /\ SaveInv'
    BY <2>2, <2>6, ZenonT(30) DEF Acknowledge
  <2>7. ASSUME NEW vb \in VBuckets, mark_dirty(vb)
        PROVE  TypeOK' /\ SaveInv'
    BY <2>2, <2>7, ZenonT(30) DEF mark_dirty
  <2>8. ASSUME NEW S, NEW effective, rebase_partitions(S, effective)
        PROVE  TypeOK' /\ SaveInv'
    BY <2>2, <2>8, ZenonT(30) DEF rebase_partitions
  <2> QED
    BY <1>1, <2>3, <2>4, <2>5, <2>6, <2>7, <2>8, ZenonT(30) DEF Application
<1>2. ASSUME NEW f \in Flushers, FlushStep(f) \/ SaveStep(f)
      PROVE  TypeOK' /\ SaveInv'
  BY <1>2, FlushTyping
<1>3. CASE SchedulerTick
  <2>1. Scheduler \in Flushers
    BY ZenonT(30) DEF Flushers
  <2> QED
    BY <1>3, <2>1, FlushBeginTyping DEF SchedulerTick
<1>4. CASE SchedulerExit
  BY <1>0, <1>4, ZenonT(30) DEF SchedulerExit, TypeOK, PartitionsTypeOK, FlushesTypeOK, StoreTypeOK,
                    SaveInv, partitionVars, flushVars, storeVars
<1>5. CASE UNCHANGED vars
  BY <1>0, <1>5, ZenonT(30) DEF vars, TypeOK, PartitionsTypeOK, FlushesTypeOK, StoreTypeOK,
                    SaveInv, partitionVars, flushVars, storeVars, taskVars
<1>6. ASSUME NEW vb \in VBuckets, LateWrite(vb)
      PROVE  TypeOK' /\ SaveInv'
  <2>1. PICK w \in abandoned[vb] :
          /\ store' = [store EXCEPT ![vb] = w.checkpoint]
          /\ stored_generation' = [stored_generation EXCEPT ![vb] = w.generation]
    BY <1>6, ZenonT(30) DEF LateWrite
  <2>2. w \in DirtyCheckpoint
    BY <1>0, ZenonT(30) DEF StoreTypeOK
  <2>3. w.checkpoint \in Position /\ w.generation \in Nat
    BY <2>2 DEF DirtyCheckpoint, Position
  <2>4. UNCHANGED <<abandoned, written>>
    BY <1>6, ZenonT(30) DEF LateWrite
  <2>5. StoreTypeOK'
    BY <1>0, <2>1, <2>3, <2>4, ZenonT(30) DEF StoreTypeOK
  <2>6. PartitionsTypeOK' /\ FlushesTypeOK' /\ SaveInv'
    BY <1>0, <1>6, ZenonT(30) DEF LateWrite, PartitionsTypeOK, FlushesTypeOK, SaveInv,
                                  partitionVars, flushVars, taskVars
  <2> QED
    BY <2>5, <2>6, ZenonT(30) DEF TypeOK
<1> QED
  BY <1>1, <1>2, <1>3, <1>4, <1>5, <1>6, ZenonT(30) DEF Next

\* In every behaviour all variables keep their types: no interleaving of flushes,
\* deadlines and saves makes a save write a vBucket outside its batch.
THEOREM TypeCorrect == Spec => []TypeOK
<1>1. Spec => [](TypeOK /\ SaveInv)
  BY TypingInit, TypingNext, PTL DEF Spec
<1> QED
  BY <1>1, PTL

----------------------------------------------------------------------------
(* The acknowledgement queues.                                             *)

\* The queue of vb is ordered by sequence number, and so by delivery ID, and lies
\* between `processed' and the last registered event.
Ordered(vb) ==
  /\ processed[vb].seqno <= last_registered_seqno[vb]
  /\ \A i \in DOMAIN pending[vb] :
       /\ processed[vb].seqno < pending[vb][i].checkpoint.seqno
       /\ pending[vb][i].checkpoint.seqno <= last_registered_seqno[vb]
  /\ \A i, j \in DOMAIN pending[vb] :
       i < j => pending[vb][i].checkpoint.seqno < pending[vb][j].checkpoint.seqno

\* Delivery IDs are never reused, and a token of the current stream that is not
\* used yet names an entry of the queue that is not acknowledged yet.
Matched(vb) ==
  /\ \A t \in tokens[vb] : t.delivery_id < next_delivery_id[vb]
  /\ \A t, u \in tokens[vb] : t.delivery_id = u.delivery_id => t = u
  /\ \A t \in tokens[vb] : t.epoch <= epoch[vb]
  /\ \A t \in tokens[vb] : t.epoch = epoch[vb] =>
       \E i \in DOMAIN pending[vb] :
         /\ pending[vb][i].delivery_id = t.delivery_id
         /\ pending[vb][i].checkpoint.seqno = t.seqno
         /\ ~pending[vb][i].acknowledged

QueueInv == \A vb \in VBuckets : Ordered(vb) /\ Matched(vb)

queueVars(vb) == <<processed[vb], pending[vb], last_registered_seqno[vb],
                   next_delivery_id[vb], tokens[vb], epoch[vb]>>

\* The queue's invariant only depends on the queue's own state.
LEMMA QueueUnchanged ==
  ASSUME NEW vb \in VBuckets, Ordered(vb), Matched(vb), UNCHANGED queueVars(vb)
  PROVE  Ordered(vb)' /\ Matched(vb)'
BY DEF Ordered, Matched, queueVars

\* A seqno above one that is not below another is above that one too.
LEMMA SeqnoChain ==
  ASSUME NEW a \in Nat, NEW b \in Nat, NEW c \in Nat, a <= b, c > b
  PROVE  a < c
OBVIOUS

\* Marking an entry acknowledged changes nothing else.
LEMMA MarkAcknowledgedEntry ==
  ASSUME NEW queue \in Seq(PendingAck), NEW id, NEW i \in DOMAIN queue
  PROVE  /\ MarkAcknowledged(queue, id)[i].delivery_id = queue[i].delivery_id
         /\ MarkAcknowledged(queue, id)[i].checkpoint = queue[i].checkpoint
         /\ queue[i].delivery_id # id => MarkAcknowledged(queue, id)[i] = queue[i]
<1>1. queue[i] \in PendingAck
  OBVIOUS
<1>2. /\ [queue[i] EXCEPT !.acknowledged = TRUE].delivery_id = queue[i].delivery_id
      /\ [queue[i] EXCEPT !.acknowledged = TRUE].checkpoint = queue[i].checkpoint
  BY <1>1 DEF PendingAck
<1>3. MarkAcknowledged(queue, id)[i] = IF queue[i].delivery_id = id
                                       THEN [queue[i] EXCEPT !.acknowledged = TRUE]
                                       ELSE queue[i]
  BY ZenonT(30) DEF MarkAcknowledged
<1>4. CASE queue[i].delivery_id = id
  BY <1>2, <1>3, <1>4, ZenonT(30)
<1>5. CASE queue[i].delivery_id # id
  BY <1>3, <1>5, ZenonT(30)
<1> QED
  BY <1>4, <1>5, ZenonT(30)

\* A registered event goes to the end of the queue under a fresh delivery ID.
LEMMA TrackKeepsQueue ==
  ASSUME TypeOK, NEW vb \in VBuckets, Ordered(vb), Matched(vb),
         NEW seqno \in Nat, NEW uid \in Nat, TrackEvent(vb, seqno, uid)
  PROVE  Ordered(vb)' /\ Matched(vb)'
<1> DEFINE c == [LastCheckpoint(vb) EXCEPT !.seqno = seqno,
                   !.snapshot_start = snapshot[vb][1],
                   !.snapshot_end = snapshot[vb][2],
                   !.manifest_uid = IF uid = 0 THEN @ ELSE uid]
           id == next_delivery_id[vb]
           p == [delivery_id |-> id, checkpoint |-> c, acknowledged |-> FALSE]
           t == [delivery_id |-> id, seqno |-> seqno, epoch |-> epoch[vb]]
<1>0. PartitionsTypeOK
  BY DEF TypeOK
<1>1. c.seqno = seqno /\ c \in Checkpoint
  <2>1. snapshot[vb][1] \in Nat /\ snapshot[vb][2] \in Nat
    BY <1>0 DEF PartitionsTypeOK, TrackEvent, Register
  <2> QED
    BY <2>1, LastCheckpointType, ZenonT(30) DEF Checkpoint
<1>2. /\ pending' = [pending EXCEPT ![vb] = Append(@, p)]
      /\ tokens' = [tokens EXCEPT ![vb] = @ \cup {t}]
      /\ next_delivery_id' = [next_delivery_id EXCEPT ![vb] = id + 1]
      /\ last_registered_seqno' = [last_registered_seqno EXCEPT ![vb] = seqno]
      /\ seqno > last_registered_seqno[vb]
      /\ UNCHANGED <<processed, epoch>>
  BY DEF TrackEvent, Register
<1>3. /\ p \in PendingAck /\ p.delivery_id = id /\ p.checkpoint = c
      /\ p.checkpoint.seqno = seqno /\ ~p.acknowledged
      /\ t \in EventAck /\ t.delivery_id = id /\ t.seqno = seqno /\ t.epoch = epoch[vb]
  BY <1>0, <1>1, ZenonT(30) DEF PendingAck, EventAck, PartitionsTypeOK
<1> HIDE DEF c, p, t, id
<1>4. /\ pending[vb] \in Seq(PendingAck) /\ id = next_delivery_id[vb] /\ id \in Nat
      /\ tokens[vb] \subseteq EventAck
      /\ processed[vb].seqno \in Nat /\ last_registered_seqno[vb] \in Nat
      /\ epoch[vb] \in Nat
  BY <1>0, ZenonT(30) DEF PartitionsTypeOK, Checkpoint, id
<1>5. /\ pending'[vb] = Append(pending[vb], p)
      /\ tokens'[vb] = tokens[vb] \cup {t}
      /\ next_delivery_id'[vb] = id + 1
      /\ last_registered_seqno'[vb] = seqno
      /\ processed'[vb] = processed[vb] /\ epoch'[vb] = epoch[vb]
  BY <1>0, <1>2 DEF PartitionsTypeOK
<1> DEFINE n == Len(pending[vb])
<1>6. /\ n \in Nat
      /\ DOMAIN pending[vb] = 1..n /\ DOMAIN pending'[vb] = 1..(n + 1)
      /\ \A i \in 1..n : pending'[vb][i] = pending[vb][i] /\ pending[vb][i] \in PendingAck
      /\ pending'[vb][n + 1] = p
  <2> DEFINE s == pending[vb]
  <2>1. s \in Seq(PendingAck) /\ p \in PendingAck /\ pending'[vb] = Append(s, p)
    BY <1>3, <1>4, <1>5, ZenonT(30)
  <2> HIDE DEF s
  <2>2. /\ Len(s) \in Nat
        /\ DOMAIN s = 1..Len(s) /\ DOMAIN Append(s, p) = 1..(Len(s) + 1)
        /\ \A i \in 1..Len(s) : Append(s, p)[i] = s[i] /\ s[i] \in PendingAck
        /\ Append(s, p)[Len(s) + 1] = p
    BY <2>1
  <2> QED
    BY <2>1, <2>2, ZenonT(30) DEF s
<1> HIDE DEF n
<1>7. \A i \in 1..n : pending[vb][i].checkpoint.seqno \in Nat
  BY <1>6, ZenonT(30) DEF PendingAck, Checkpoint
<1>8. Ordered(vb)'
  <2>1. \A i \in 1..n : /\ pending[vb][i].checkpoint.seqno < seqno
                        /\ processed[vb].seqno < pending[vb][i].checkpoint.seqno
    <3> SUFFICES ASSUME NEW i \in 1..n
                 PROVE  /\ pending[vb][i].checkpoint.seqno < seqno
                        /\ processed[vb].seqno < pending[vb][i].checkpoint.seqno
      OBVIOUS
    <3>1. /\ processed[vb].seqno < pending[vb][i].checkpoint.seqno
          /\ pending[vb][i].checkpoint.seqno <= last_registered_seqno[vb]
      BY <1>6, ZenonT(30) DEF Ordered
    <3>2. pending[vb][i].checkpoint.seqno \in Nat
      BY <1>7
    <3>3. seqno > last_registered_seqno[vb] /\ last_registered_seqno[vb] \in Nat /\ seqno \in Nat
      BY <1>2, <1>4, ZenonT(30)
    <3> QED
      BY <3>1, <3>2, <3>3
  <2>2. processed[vb].seqno < seqno
    <3>1. /\ processed[vb].seqno \in Nat /\ last_registered_seqno[vb] \in Nat /\ seqno \in Nat
          /\ seqno > last_registered_seqno[vb]
      BY <1>2, <1>4, ZenonT(30)
    <3>2. processed[vb].seqno <= last_registered_seqno[vb]
      BY ZenonT(30) DEF Ordered
    <3> QED
      BY <3>1, <3>2, SeqnoChain, ZenonT(30)
  <2>3. \A i \in 1..(n + 1) : i \in 1..n \/ i = n + 1
    BY <1>6
  <2>4. ASSUME NEW i \in DOMAIN pending'[vb]
        PROVE  /\ processed[vb].seqno < pending'[vb][i].checkpoint.seqno
               /\ pending'[vb][i].checkpoint.seqno <= seqno
    <3>1. CASE i \in 1..n
      <4>1. pending'[vb][i] = pending[vb][i]
        BY <1>6, <3>1
      <4>2. /\ pending[vb][i].checkpoint.seqno \in Nat
            /\ pending[vb][i].checkpoint.seqno < seqno
            /\ processed[vb].seqno < pending[vb][i].checkpoint.seqno
        BY <1>7, <2>1, <3>1
      <4> QED
        BY <4>1, <4>2
    <3>2. CASE i = n + 1
      <4>1. pending'[vb][i].checkpoint.seqno = seqno
        BY <1>3, <1>6, <3>2, ZenonT(30)
      <4> QED
        BY <2>2, <4>1
    <3> QED
      BY <1>6, <2>3, <3>1, <3>2
  <2>5. ASSUME NEW i \in DOMAIN pending'[vb], NEW j \in DOMAIN pending'[vb], i < j
        PROVE  pending'[vb][i].checkpoint.seqno < pending'[vb][j].checkpoint.seqno
    <3>1. i \in 1..n
      BY <1>6, <2>5
    <3>2. CASE j \in 1..n
      BY <1>6, <2>5, <3>1, <3>2, ZenonT(30) DEF Ordered
    <3>3. CASE j = n + 1
      BY <1>3, <1>6, <2>1, <3>1, <3>3, ZenonT(30)
    <3> QED
      BY <1>6, <2>3, <3>2, <3>3
  <2>6. processed[vb].seqno <= seqno
    BY <1>4, <2>2
  <2> QED
    BY <1>5, <2>4, <2>5, <2>6, ZenonT(30) DEF Ordered
<1>9. Matched(vb)'
  <2>1. \A u \in tokens'[vb] : u.delivery_id < next_delivery_id'[vb]
    BY <1>3, <1>4, <1>5 DEF Matched, EventAck
  <2>2. \A u, w \in tokens'[vb] : u.delivery_id = w.delivery_id => u = w
    BY <1>3, <1>4, <1>5 DEF Matched, EventAck
  <2>3. \A u \in tokens'[vb] : u.epoch <= epoch'[vb]
    BY <1>3, <1>4, <1>5 DEF Matched
  <2>4. ASSUME NEW u \in tokens'[vb], u.epoch = epoch'[vb]
        PROVE  \E i \in DOMAIN pending'[vb] :
                 /\ pending'[vb][i].delivery_id = u.delivery_id
                 /\ pending'[vb][i].checkpoint.seqno = u.seqno
                 /\ ~pending'[vb][i].acknowledged
    <3>1. CASE u = t
      <4>1. n + 1 \in DOMAIN pending'[vb]
        BY <1>6
      <4> QED
        BY <1>3, <1>6, <3>1, <4>1
    <3>2. CASE u \in tokens[vb]
      <4>1. PICK i \in DOMAIN pending[vb] :
               /\ pending[vb][i].delivery_id = u.delivery_id
               /\ pending[vb][i].checkpoint.seqno = u.seqno
               /\ ~pending[vb][i].acknowledged
        BY <1>5, <2>4, <3>2 DEF Matched
      <4>2. i \in DOMAIN pending'[vb] /\ pending'[vb][i] = pending[vb][i]
        BY <1>6
      <4> QED
        BY <4>1, <4>2, ZenonT(30)
    <3> QED
      BY <1>5, <3>1, <3>2
  <2> QED
    BY <2>1, <2>2, <2>3, <2>4, ZenonT(30) DEF Matched
<1> QED
  BY <1>8, <1>9

\* Acknowledging pops an acknowledged prefix.  What stays in the queue is later than
\* the new processed position, and no other token's entry is among what goes.
LEMMA AcknowledgeKeepsQueue ==
  ASSUME TypeOK, NEW vb \in VBuckets, Ordered(vb), Matched(vb),
         NEW t \in tokens[vb], Acknowledge(vb, t), AcknowledgeLive(vb, t)
  PROVE  /\ Ordered(vb)' /\ Matched(vb)'
         /\ processed'[vb].seqno >= processed[vb].seqno
<1> DEFINE queue == MarkAcknowledged(pending[vb], t.delivery_id)
<1>0. PartitionsTypeOK
  BY DEF TypeOK
<1>1. /\ pending[vb] \in Seq(PendingAck) /\ queue \in Seq(PendingAck)
      /\ Len(queue) = Len(pending[vb]) /\ Len(queue) \in Nat
  BY <1>0, MarkAcknowledgedType DEF PartitionsTypeOK
<1>2. ASSUME NEW i \in 1..Len(queue)
      PROVE  /\ i \in DOMAIN pending[vb]
             /\ queue[i].delivery_id = pending[vb][i].delivery_id
             /\ queue[i].checkpoint = pending[vb][i].checkpoint
             /\ pending[vb][i].delivery_id # t.delivery_id => queue[i] = pending[vb][i]
             /\ queue[i].checkpoint.seqno \in Nat
  <2>1. i \in DOMAIN pending[vb] /\ queue[i] \in PendingAck
    BY <1>1
  <2>2. queue[i].checkpoint.seqno \in Nat
    BY <2>1 DEF PendingAck, Checkpoint
  <2> QED
    BY <1>1, <2>1, <2>2, MarkAcknowledgedEntry
<1>3. PICK n \in 0..Len(queue) :
        /\ \A i \in 1..n : queue[i].acknowledged
        /\ pending' = [pending EXCEPT ![vb] = SubSeq(queue, n + 1, Len(queue))]
        /\ \/ n = 0 /\ UNCHANGED <<processed, generation, log>>
           \/ n > 0 /\ processed' = [processed EXCEPT ![vb] = queue[n].checkpoint]
  BY ZenonT(30) DEF AcknowledgeLive
<1>4. /\ tokens'[vb] = tokens[vb] \ {t}
      /\ UNCHANGED <<last_registered_seqno, next_delivery_id, epoch>>
  BY <1>0 DEF Acknowledge, PartitionsTypeOK
<1> HIDE DEF queue
<1>5. /\ pending'[vb] = SubSeq(queue, n + 1, Len(queue))
      /\ \/ n = 0 /\ processed'[vb] = processed[vb]
         \/ n > 0 /\ processed'[vb] = queue[n].checkpoint
  BY <1>0, <1>3, ZenonT(30) DEF PartitionsTypeOK
<1> DEFINE m == Len(queue) - n
<1>6. /\ m \in Nat /\ DOMAIN pending'[vb] = 1..m
      /\ \A i \in 1..m : pending'[vb][i] = queue[n + i] /\ n + i \in 1..Len(queue)
  <2>1. n \in Nat /\ n <= Len(queue) /\ Len(queue) \in Nat
    BY <1>1, <1>3
  <2>2. /\ SubSeq(queue, n + 1, Len(queue)) \in Seq(PendingAck)
        /\ Len(SubSeq(queue, n + 1, Len(queue))) = m
        /\ \A i \in 1..m : SubSeq(queue, n + 1, Len(queue))[i] = queue[n + i]
    BY <1>1, <2>1
  <2>3. m \in Nat /\ \A i \in 1..m : n + i \in 1..Len(queue)
    BY <2>1
  <2>4. DOMAIN pending'[vb] = 1..m
    BY <1>5, <2>2
  <2> QED
    BY <1>5, <2>2, <2>3, <2>4, ZenonT(30)
<1>7. /\ processed[vb].seqno \in Nat /\ last_registered_seqno[vb] \in Nat
      /\ processed[vb].seqno <= last_registered_seqno[vb]
      /\ \A i \in 1..Len(queue) :
           /\ processed[vb].seqno < queue[i].checkpoint.seqno
           /\ queue[i].checkpoint.seqno <= last_registered_seqno[vb]
      /\ \A i, j \in 1..Len(queue) :
           i < j => queue[i].checkpoint.seqno < queue[j].checkpoint.seqno
  <2>1. processed[vb].seqno \in Nat /\ last_registered_seqno[vb] \in Nat
    BY <1>0, ZenonT(30) DEF PartitionsTypeOK, Checkpoint
  <2> QED
    BY <1>2, <2>1, ZenonT(30) DEF Ordered
<1>8. /\ processed'[vb].seqno \in Nat
      /\ processed'[vb].seqno >= processed[vb].seqno
      /\ processed'[vb].seqno <= last_registered_seqno[vb]
      /\ \A i \in 1..m : processed'[vb].seqno < queue[n + i].checkpoint.seqno
  <2>1. CASE n = 0
    <3>1. processed'[vb] = processed[vb]
      BY <1>5, <2>1
    <3>2. processed[vb].seqno >= processed[vb].seqno
      BY <1>7
    <3> QED
      BY <1>6, <1>7, <3>1, <3>2, ZenonT(30)
  <2>2. CASE n > 0
    <3>1. n \in 1..Len(queue)
      BY <1>1, <2>2
    <3>2. processed'[vb].seqno = queue[n].checkpoint.seqno
      BY <1>5, <2>2
    <3>3. \A i \in 1..m : n < n + i
      BY <1>6
    <3>4. /\ processed[vb].seqno < queue[n].checkpoint.seqno
          /\ queue[n].checkpoint.seqno \in Nat
          /\ queue[n].checkpoint.seqno <= last_registered_seqno[vb]
      BY <1>2, <1>7, <3>1, ZenonT(30)
    <3>5. processed'[vb].seqno >= processed[vb].seqno
      BY <1>7, <3>2, <3>4
    <3>6. \A i \in 1..m : queue[n].checkpoint.seqno < queue[n + i].checkpoint.seqno
      BY <1>6, <1>7, <3>1, <3>3, ZenonT(30)
    <3> QED
      BY <3>2, <3>4, <3>5, <3>6, ZenonT(30)
  <2> QED
    BY <1>3, <2>1, <2>2, ZenonT(30)
<1>9. Ordered(vb)'
  <2>1. ASSUME NEW i \in 1..m, NEW j \in 1..m, i < j
        PROVE  queue[n + i].checkpoint.seqno < queue[n + j].checkpoint.seqno
    <3>1. n + i < n + j
      BY <1>3, <1>6, <2>1
    <3> QED
      BY <1>6, <1>7, <3>1, ZenonT(30)
  <2> QED
    BY <1>4, <1>6, <1>7, <1>8, <2>1, ZenonT(30) DEF Ordered
<1>10. Matched(vb)'
  <2>1. ASSUME NEW u \in tokens'[vb], u.epoch = epoch'[vb]
        PROVE  \E i \in DOMAIN pending'[vb] :
                 /\ pending'[vb][i].delivery_id = u.delivery_id
                 /\ pending'[vb][i].checkpoint.seqno = u.seqno
                 /\ ~pending'[vb][i].acknowledged
    <3>1. PICK j \in DOMAIN pending[vb] :
             /\ pending[vb][j].delivery_id = u.delivery_id
             /\ pending[vb][j].checkpoint.seqno = u.seqno
             /\ ~pending[vb][j].acknowledged
      BY <1>4, <2>1, ZenonT(30) DEF Matched
    <3>2. u.delivery_id # t.delivery_id
      BY <1>4, ZenonT(30) DEF Matched
    <3>3. j \in 1..Len(queue)
      BY <1>1
    <3>4. queue[j] = pending[vb][j]
      BY <1>2, <3>1, <3>2, <3>3
    <3>5. ~(j \in 1..n)
      BY <1>3, <3>1, <3>4, ZenonT(30)
    <3>6. j - n \in 1..m /\ n + (j - n) = j
      BY <1>3, <3>3, <3>5
    <3>7. j - n \in DOMAIN pending'[vb] /\ pending'[vb][j - n] = pending[vb][j]
      BY <1>6, <3>4, <3>6, ZenonT(30)
    <3> QED
      BY <3>1, <3>7, ZenonT(30)
  <2> QED
    BY <1>4, <2>1, ZenonT(30) DEF Matched
<1> QED
  BY <1>8, <1>9, <1>10

\* The queues' invariant holds initially.
LEMMA QueueInit == Init => QueueInv
<1> SUFFICES ASSUME Init, NEW vb \in VBuckets PROVE Ordered(vb) /\ Matched(vb)
  BY ZenonT(30) DEF QueueInv
<1>1. TypeOK
  BY TypingInit, ZenonT(30)
<1>2. /\ processed[vb].seqno \in Nat /\ last_registered_seqno[vb] = processed[vb].seqno
      /\ pending[vb] = <<>> /\ tokens[vb] = {}
  BY <1>1 DEF Init, TypeOK, PartitionsTypeOK, Checkpoint
<1> QED
  BY <1>2 DEF Ordered, Matched

\* Every step keeps the queues' invariant, and only a reopen moves `processed' back.
LEMMA QueueNext ==
  ASSUME TypeOK, QueueInv, [Next]_vars, NEW vb \in VBuckets
  PROVE  /\ Ordered(vb)' /\ Matched(vb)'
         /\ processed'[vb].seqno >= processed[vb].seqno \/ epoch'[vb] # epoch[vb]
<1> DEFINE Goal == /\ Ordered(vb)' /\ Matched(vb)'
                   /\ processed'[vb].seqno >= processed[vb].seqno \/ epoch'[vb] # epoch[vb]
<1> SUFFICES Goal
  OBVIOUS
<1>0. Ordered(vb) /\ Matched(vb) /\ PartitionsTypeOK /\ processed[vb].seqno \in Nat
  BY ZenonT(30) DEF QueueInv, TypeOK, PartitionsTypeOK, Checkpoint
<1>1. CASE UNCHANGED queueVars(vb)
  <2>1. Ordered(vb)' /\ Matched(vb)'
    BY <1>0, <1>1, QueueUnchanged, ZenonT(30)
  <2>2. processed'[vb] = processed[vb]
    BY <1>1, ZenonT(30) DEF queueVars
  <2>3. processed'[vb].seqno >= processed[vb].seqno
    BY <1>0, <2>2
  <2> QED
    BY <2>1, <2>3, ZenonT(30)
<1> HIDE DEF Goal
<1>2. ASSUME NEW w \in VBuckets, TrackNext(w)
      PROVE  Goal
  <2>0. PICK seqno \in Nat, uid \in Nat : TrackEvent(w, seqno, uid)
    <3>0. snapshot[w] \in Nat \X Nat
      BY <1>0, <1>2 DEF PartitionsTypeOK, TrackNext
    <3>1. snapshot[w][1]..snapshot[w][2] \subseteq Nat /\ {0} \cup SystemUids(w) \subseteq Nat
      BY <3>0 DEF SystemUids
    <3> QED
      BY <1>2, <3>1, ZenonT(30) DEF TrackNext
  <2>1. CASE w # vb
    BY <1>0, <1>1, <2>0, <2>1 DEF TrackEvent, Register, queueVars, PartitionsTypeOK
  <2>2. CASE w = vb
    <3>1. processed' = processed
      BY <2>0 DEF TrackEvent, Register
    <3>2. TrackEvent(vb, seqno, uid)
      BY <2>0, <2>2
    <3>3. Ordered(vb)' /\ Matched(vb)'
      BY <1>0, <3>2, TrackKeepsQueue
    <3> QED
      BY <1>0, <3>1, <3>3 DEF Goal
  <2> QED
    BY <2>1, <2>2
<1>3. ASSUME NEW w \in VBuckets, NEW t \in tokens[w], Acknowledge(w, t)
      PROVE  Goal
  <2>1. CASE AcknowledgeLive(w, t) /\ w = vb
    BY <1>0, <1>3, <2>1, AcknowledgeKeepsQueue, ZenonT(30) DEF Goal
  <2>2. CASE AcknowledgeLive(w, t) /\ w # vb
    <3>1. UNCHANGED <<pending[vb], processed[vb]>>
      BY <1>0, <2>2, ZenonT(30) DEF AcknowledgeLive, PartitionsTypeOK
    <3> QED
      BY <1>0, <1>1, <1>3, <2>2, <3>1, ZenonT(30) DEF Acknowledge, queueVars, PartitionsTypeOK
  <2>3. CASE AcknowledgeObsolete(w, t)
    <3>1. /\ tokens'[vb] \subseteq tokens[vb]
          /\ UNCHANGED <<pending, processed, last_registered_seqno, next_delivery_id, epoch>>
      BY <1>0, <1>3, <2>3, ZenonT(30) DEF Acknowledge, AcknowledgeObsolete, PartitionsTypeOK
    <3>2. Ordered(vb)' /\ Matched(vb)'
      BY <1>0, <3>1 DEF Ordered, Matched
    <3> QED
      BY <1>0, <3>1, <3>2 DEF Goal
  <2> QED
    BY <1>3, <2>1, <2>2, <2>3, ZenonT(30) DEF Acknowledge
<1>4. ASSUME NEW S \in SUBSET VBuckets, NEW effective \in [S -> StartCheckpoints],
             rebase_partitions(S, effective)
      PROVE  Goal
  <2>1. CASE vb \notin S
    BY <1>0, <1>1, <1>4, <2>1 DEF rebase_partitions, queueVars, PartitionsTypeOK
  <2>2. CASE vb \in S
    <3>1. /\ processed'[vb] = effective[vb]
          /\ last_registered_seqno'[vb] = effective[vb].seqno
          /\ pending'[vb] = <<>> /\ epoch'[vb] = epoch[vb] + 1
          /\ UNCHANGED <<tokens, next_delivery_id>>
      BY <1>4, <2>2 DEF rebase_partitions
    <3>2. effective[vb].seqno \in Nat
      BY <2>2, InputsAssumption DEF Checkpoint
    <3>3. Ordered(vb)'
      BY <3>1, <3>2 DEF Ordered
    <3>4. /\ epoch[vb] \in Nat
          /\ \A t \in tokens[vb] : t.epoch \in Nat
      BY <1>0 DEF PartitionsTypeOK, EventAck
    <3>5. \A t \in tokens[vb] : t.epoch <= epoch'[vb] /\ t.epoch # epoch'[vb]
      <4> SUFFICES ASSUME NEW t \in tokens[vb]
                   PROVE  t.epoch <= epoch'[vb] /\ t.epoch # epoch'[vb]
        OBVIOUS
      <4>1. t.epoch <= epoch[vb]
        BY <1>0, ZenonT(30) DEF Matched
      <4>2. epoch'[vb] = epoch[vb] + 1 /\ t.epoch \in Nat /\ epoch[vb] \in Nat
        BY <3>1, <3>4
      <4> QED
        BY <4>1, <4>2
    <3>6. Matched(vb)'
      <4>1. tokens' = tokens /\ next_delivery_id' = next_delivery_id
        BY <3>1
      <4>2. /\ \A t \in tokens[vb] : t.delivery_id < next_delivery_id[vb]
            /\ \A t, u \in tokens[vb] : t.delivery_id = u.delivery_id => t = u
        BY <1>0, ZenonT(30) DEF Matched
      <4> QED
        BY <3>5, <4>1, <4>2, ZenonT(30) DEF Matched
    <3> QED
      BY <3>1, <3>3, <3>4, <3>6 DEF Goal
  <2> QED
    BY <2>1, <2>2, ZenonT(30)
<1>5. CASE \/ \E w \in VBuckets, m \in Markers : TrackMarker(w, m)
           \/ \E w \in VBuckets : mark_dirty(w)
           \/ \E f \in Callers : flush(f) \/ shutdown(f)
           \/ SchedulerTick \/ SchedulerExit
           \/ \E w \in VBuckets : LateWrite(w)
           \/ UNCHANGED vars
  BY <1>1, <1>5, ZenonT(30) DEF TrackMarker, mark_dirty, flush, shutdown, FlushBegin, SchedulerTick,
                    SchedulerExit, LateWrite, vars, partitionVars, queueVars
<1>6. ASSUME NEW f \in Flushers, FlushStep(f) \/ SaveStep(f)
      PROVE  Goal
  BY <1>1, <1>6 DEF FlushStep, FlushGate, FlushTimeout, FlushApply, ShutdownJoin,
                    FlushBegin, SaveStep, SaveOk, SaveFails, SaveEnd, SaveWrite,
                    partitionVars, queueVars
<1> QED
  BY <1>2, <1>3, <1>4, <1>5, <1>6, ZenonT(30) DEF Next, Application

\* The queues' invariant holds in every reachable state of the coordinator.
LEMMA QueueInvariance == Spec => [](TypeOK /\ QueueInv)
<1>1. TypeOK /\ QueueInv /\ [Next]_vars => QueueInv'
  BY QueueNext DEF QueueInv
<1> QED
  BY <1>1, QueueInit, TypingInit, TypeCorrect, PTL DEF Spec

\* `processed' never covers an event of the current stream that the application has
\* not acknowledged, in whatever order it acknowledges and whatever tokens of
\* discarded events it still uses.
THEOREM Contiguity == Spec => []ProcessedIsContiguous
<1>1. TypeOK /\ QueueInv => ProcessedIsContiguous
  <2> SUFFICES ASSUME QueueInv, NEW vb \in VBuckets, NEW t \in tokens[vb],
                      t.epoch = epoch[vb]
               PROVE  processed[vb].seqno < t.seqno
    BY DEF ProcessedIsContiguous
  <2> QED
    BY ZenonT(30) DEF QueueInv, Ordered, Matched
<1> QED
  BY <1>1, QueueInvariance, PTL

\* Only a reopen moves `processed' back; acknowledgements never do.
THEOREM OnlyReopensRewind == Spec => OnlyRebaseRewinds
<1>1. TypeOK /\ QueueInv /\ [Next]_vars =>
        [\A vb \in VBuckets : \/ processed'[vb].seqno >= processed[vb].seqno
                               \/ epoch'[vb] # epoch[vb]]_vars
  BY QueueNext
<1> QED
  BY <1>1, QueueInvariance, PTL DEF Spec, OnlyRebaseRewinds

-----------------------------------------------------------------------------
(* Every stored checkpoint passes the validation of a later load.  Nothing *)
(* validates a position on its way into the store: the argument follows it *)
(* from the queue to `processed', into a batch and into the store.         *)

\* The position of vb and the ones its queue will move it to are valid.
QueueValid(vb) ==
  /\ validate(processed[vb])
  /\ \A i \in DOMAIN pending[vb] : validate(pending[vb][i].checkpoint)

\* What the flusher f took into its batch is valid, also once `processed' moved on.
BatchValid(f) ==
  \A vb \in VBuckets : batch[f][vb] # NoCheckpoint => validate(batch[f][vb].checkpoint)

\* So is what a save gave up on.
AbandonedValid == \A vb \in VBuckets : \A w \in abandoned[vb] : validate(w.checkpoint)

PositionsValid ==
  /\ \A vb \in VBuckets : QueueValid(vb)
  /\ \A f \in Flushers : BatchValid(f)
  /\ AbandonedValid
  /\ StoredCheckpointsLoad

\* Streams open at valid positions and the store starts with valid ones.
LEMMA PositionsInit == Init => PositionsValid
<1> SUFFICES ASSUME Init PROVE PositionsValid
  OBVIOUS
<1>1. \A vb \in VBuckets : processed[vb] \in StartCheckpoints /\ pending[vb] = <<>>
  BY DEF Init
<1>2. \A vb \in VBuckets : QueueValid(vb)
  <2> SUFFICES ASSUME NEW vb \in VBuckets PROVE QueueValid(vb)
    OBVIOUS
  <2>1. validate(processed[vb])
    BY <1>1, InputsAssumption, ZenonT(30)
  <2>2. DOMAIN pending[vb] = {}
    BY <1>1
  <2> QED
    BY <2>1, <2>2, ZenonT(30) DEF QueueValid
<1>3. \A f \in Flushers : BatchValid(f)
  BY ZenonT(30) DEF Init, BatchValid, NoBatch
<1>5. AbandonedValid
  BY ZenonT(30) DEF Init, AbandonedValid
<1>4. StoredCheckpointsLoad
  <2> SUFFICES ASSUME NEW vb \in VBuckets, store[vb] # NoCheckpoint PROVE validate(store[vb])
    BY ZenonT(30) DEF StoredCheckpointsLoad
  <2>1. store[vb] \in StartCheckpoints
    BY ZenonT(30) DEF Init
  <2> QED
    BY <2>1, InputsAssumption, ZenonT(30)
<1> QED
  BY <1>2, <1>3, <1>4, <1>5, ZenonT(30) DEF PositionsValid

\* track_event validates what it queues.
LEMMA TrackKeepsValid ==
  ASSUME TypeOK, NEW vb \in VBuckets, QueueValid(vb),
         NEW seqno \in Nat, NEW uid \in Nat, TrackEvent(vb, seqno, uid)
  PROVE  QueueValid(vb)'
<1> DEFINE c == [LastCheckpoint(vb) EXCEPT !.seqno = seqno,
                   !.snapshot_start = snapshot[vb][1],
                   !.snapshot_end = snapshot[vb][2],
                   !.manifest_uid = IF uid = 0 THEN @ ELSE uid]
           p == [delivery_id |-> next_delivery_id[vb], checkpoint |-> c,
                 acknowledged |-> FALSE]
<1>1. /\ validate(c) /\ p.checkpoint = c
      /\ pending' = [pending EXCEPT ![vb] = Append(@, p)]
      /\ processed' = processed
  BY ZenonT(30) DEF TrackEvent, Register
<1> HIDE DEF p, c
<1>2. pending[vb] \in Seq(PendingAck) /\ pending'[vb] = Append(pending[vb], p)
  BY <1>1, ZenonT(30) DEF TypeOK, PartitionsTypeOK
<1>3. ASSUME NEW i \in DOMAIN pending'[vb]
      PROVE  pending'[vb][i] = p \/ (i \in DOMAIN pending[vb] /\ pending'[vb][i] = pending[vb][i])
  BY <1>2
<1>4. ASSUME NEW i \in DOMAIN pending'[vb]
      PROVE  validate(pending'[vb][i].checkpoint)
  BY <1>1, <1>3, ZenonT(30) DEF QueueValid
<1> QED
  BY <1>1, <1>4, ZenonT(30) DEF QueueValid

\* An acknowledgement moves `processed' to a position of the queue.
LEMMA AcknowledgeKeepsValid ==
  ASSUME TypeOK, NEW vb \in VBuckets, QueueValid(vb), NEW t, AcknowledgeLive(vb, t)
  PROVE  QueueValid(vb)'
<1> DEFINE queue == MarkAcknowledged(pending[vb], t.delivery_id)
<1>0. pending[vb] \in Seq(PendingAck) /\ processed \in [VBuckets -> Checkpoint]
      /\ pending \in [VBuckets -> Seq(PendingAck)]
  BY ZenonT(30) DEF TypeOK, PartitionsTypeOK
<1>1. queue \in Seq(PendingAck) /\ Len(queue) = Len(pending[vb]) /\ Len(queue) \in Nat
  BY <1>0, MarkAcknowledgedType
<1>2. ASSUME NEW i \in 1..Len(queue) PROVE validate(queue[i].checkpoint)
  <2>1. i \in DOMAIN pending[vb]
    BY <1>0, <1>1
  <2>2. queue[i].checkpoint = pending[vb][i].checkpoint
    BY <1>0, <2>1, MarkAcknowledgedEntry, ZenonT(30)
  <2> QED
    BY <2>1, <2>2, ZenonT(30) DEF QueueValid
<1>3. PICK n \in 0..Len(queue) :
        /\ pending' = [pending EXCEPT ![vb] = SubSeq(queue, n + 1, Len(queue))]
        /\ \/ n = 0 /\ UNCHANGED <<processed, generation, log>>
           \/ n > 0 /\ processed' = [processed EXCEPT ![vb] = queue[n].checkpoint]
  BY ZenonT(30) DEF AcknowledgeLive
<1> HIDE DEF queue
<1>4. /\ pending'[vb] = SubSeq(queue, n + 1, Len(queue))
      /\ \/ n = 0 /\ processed'[vb] = processed[vb]
         \/ n > 0 /\ processed'[vb] = queue[n].checkpoint
  BY <1>0, <1>3, ZenonT(30)
<1>5. n > 0 => n \in 1..Len(queue)
  BY <1>1
<1>6. validate(processed'[vb])
  BY <1>2, <1>4, <1>5, ZenonT(30) DEF QueueValid
<1>7. ASSUME NEW i \in DOMAIN pending'[vb]
      PROVE  n + i \in 1..Len(queue) /\ pending'[vb][i] = queue[n + i]
  BY <1>1, <1>4
<1> QED
  BY <1>2, <1>6, <1>7, ZenonT(30) DEF QueueValid

\* Every step keeps the queue of vb valid.
LEMMA QueueStaysValid ==
  ASSUME TypeOK, [Next]_vars, NEW vb \in VBuckets, QueueValid(vb)
  PROVE  QueueValid(vb)'
<1>0. PartitionsTypeOK
  BY DEF TypeOK
<1>1. CASE UNCHANGED <<processed[vb], pending[vb]>>
  BY <1>1, ZenonT(30) DEF QueueValid
<1>2. ASSUME NEW w \in VBuckets, TrackNext(w)
      PROVE  QueueValid(vb)'
  <2>0. PICK seqno \in Nat, uid \in Nat : TrackEvent(w, seqno, uid)
    <3>0. snapshot[w] \in Nat \X Nat
      BY <1>0, <1>2 DEF PartitionsTypeOK, TrackNext
    <3>1. snapshot[w][1]..snapshot[w][2] \subseteq Nat /\ {0} \cup SystemUids(w) \subseteq Nat
      BY <3>0 DEF SystemUids
    <3> QED
      BY <1>2, <3>1, ZenonT(30) DEF TrackNext
  <2>1. CASE w # vb
    BY <1>0, <1>1, <2>0, <2>1 DEF TrackEvent, Register, PartitionsTypeOK
  <2>2. CASE w = vb
    <3>1. TrackEvent(vb, seqno, uid)
      BY <2>0, <2>2
    <3> QED
      BY <3>1, TrackKeepsValid
  <2> QED
    BY <2>1, <2>2
<1>3. ASSUME NEW w \in VBuckets, NEW t \in tokens[w], Acknowledge(w, t)
      PROVE  QueueValid(vb)'
  <2>1. CASE AcknowledgeLive(w, t) /\ w = vb
    BY <2>1, AcknowledgeKeepsValid, ZenonT(30)
  <2>2. CASE AcknowledgeLive(w, t) /\ w # vb
    <3>1. UNCHANGED <<pending[vb], processed[vb]>>
      BY <1>0, <2>2, ZenonT(30) DEF AcknowledgeLive, PartitionsTypeOK
    <3> QED
      BY <1>1, <3>1
  <2>3. CASE AcknowledgeObsolete(w, t)
    BY <1>1, <2>3, ZenonT(30) DEF AcknowledgeObsolete
  <2> QED
    BY <1>3, <2>1, <2>2, <2>3, ZenonT(30) DEF Acknowledge
<1>4. ASSUME NEW S \in SUBSET VBuckets, NEW effective \in [S -> StartCheckpoints],
             rebase_partitions(S, effective)
      PROVE  QueueValid(vb)'
  <2>1. CASE vb \notin S
    BY <1>0, <1>1, <1>4, <2>1 DEF rebase_partitions, PartitionsTypeOK
  <2>2. CASE vb \in S
    <3>1. /\ processed'[vb] = effective[vb] /\ pending'[vb] = <<>>
          /\ validate(effective[vb])
      BY <1>4, <2>2, ZenonT(30) DEF rebase_partitions
    <3>2. DOMAIN pending'[vb] = {}
      BY <3>1
    <3> QED
      BY <3>1, <3>2, ZenonT(30) DEF QueueValid
  <2> QED
    BY <2>1, <2>2, ZenonT(30)
<1>5. CASE \/ \E w \in VBuckets, m \in Markers : TrackMarker(w, m)
           \/ \E w \in VBuckets : mark_dirty(w)
           \/ \E f \in Callers : flush(f) \/ shutdown(f)
           \/ SchedulerTick \/ SchedulerExit
           \/ \E w \in VBuckets : LateWrite(w)
           \/ UNCHANGED vars
  BY <1>1, <1>5, ZenonT(30) DEF TrackMarker, mark_dirty, flush, shutdown, FlushBegin, SchedulerTick,
                    SchedulerExit, LateWrite, vars, partitionVars
<1>6. ASSUME NEW f \in Flushers, FlushStep(f) \/ SaveStep(f)
      PROVE  QueueValid(vb)'
  BY <1>1, <1>6, ZenonT(30) DEF FlushStep, FlushGate, FlushTimeout, FlushApply, ShutdownJoin,
                    FlushBegin, SaveStep, SaveOk, SaveFails, SaveEnd, SaveWrite,
                    partitionVars
<1> QED
  BY <1>2, <1>3, <1>4, <1>5, <1>6, ZenonT(30) DEF Next, Application

\* Neither the application nor the scheduler touches a batch or the store by itself.
LEMMA ApplicationSavesNothing ==
  ASSUME Application \/ SchedulerTick \/ SchedulerExit \/ UNCHANGED vars
  PROVE  UNCHANGED <<batch, store, abandoned>>
<1>1. ASSUME NEW vb \in VBuckets, (\E m \in Markers : TrackMarker(vb, m)) \/ TrackNext(vb)
      PROVE  UNCHANGED <<batch, store, abandoned>>
  BY <1>1, ZenonT(30) DEF TrackMarker, TrackNext, TrackEvent, Register, flushVars, storeVars
<1>2. ASSUME NEW vb \in VBuckets, NEW t \in tokens[vb], Acknowledge(vb, t)
      PROVE  UNCHANGED <<batch, store, abandoned>>
  BY <1>2, ZenonT(30) DEF Acknowledge, flushVars, storeVars
<1>3. ASSUME NEW vb \in VBuckets, mark_dirty(vb)
      PROVE  UNCHANGED <<batch, store, abandoned>>
  BY <1>3, ZenonT(30) DEF mark_dirty, flushVars, storeVars
<1>4. ASSUME NEW S, NEW effective, rebase_partitions(S, effective)
      PROVE  UNCHANGED <<batch, store, abandoned>>
  BY <1>4, ZenonT(30) DEF rebase_partitions, flushVars, storeVars
<1>5. ASSUME NEW f, flush(f) \/ shutdown(f)
      PROVE  UNCHANGED <<batch, store, abandoned>>
  BY <1>5, ZenonT(30) DEF flush, shutdown, FlushBegin, storeVars
<1>6. CASE SchedulerTick
  BY <1>6, ZenonT(30) DEF SchedulerTick, FlushBegin, storeVars
<1>7. CASE SchedulerExit \/ UNCHANGED vars
  BY <1>7, ZenonT(30) DEF SchedulerExit, vars, flushVars, storeVars
<1> QED
  BY <1>1, <1>2, <1>3, <1>4, <1>5, <1>6, <1>7, ZenonT(30) DEF Application

\* A batch is taken from `processed' and then never changed.
LEMMA BatchStaysValid ==
  ASSUME TypeOK, [Next]_vars, \A vb \in VBuckets : QueueValid(vb),
         NEW g \in Flushers, BatchValid(g)
  PROVE  BatchValid(g)'
<1>0. batch \in [Flushers -> [VBuckets -> DirtyCheckpoint \cup {NoCheckpoint}]]
  BY ZenonT(30) DEF TypeOK, FlushesTypeOK
<1>1. CASE batch'[g] = batch[g]
  BY <1>1, ZenonT(30) DEF BatchValid
<1>2. CASE batch'[g] = NoBatch
  BY <1>2, ZenonT(30) DEF BatchValid, NoBatch
<1>3. ASSUME NEW f \in Flushers, FlushGate(f)
      PROVE  BatchValid(g)'
  <2> DEFINE b == [vb \in VBuckets |->
               IF is_dirty(vb)
               THEN [checkpoint |-> processed[vb], generation |-> generation[vb]]
               ELSE NoCheckpoint]
  <2>1. batch' = batch \/ batch' = [batch EXCEPT ![f] = b]
    BY <1>3, ZenonT(30) DEF FlushGate
  <2>2. CASE batch'[g] = b
    <3> SUFFICES ASSUME NEW vb \in VBuckets, b[vb] # NoCheckpoint
                 PROVE  validate(b[vb].checkpoint)
      BY <2>2, ZenonT(30) DEF BatchValid
    <3>1. b[vb] = [checkpoint |-> processed[vb], generation |-> generation[vb]]
      BY ZenonT(30)
    <3>2. b[vb].checkpoint = processed[vb]
      BY <3>1, ZenonT(30)
    <3> QED
      BY <3>2, ZenonT(30) DEF QueueValid
  <2> HIDE DEF b
  <2>3. batch'[g] = batch[g] \/ batch'[g] = b
    BY <1>0, <2>1, ZenonT(30)
  <2> QED
    BY <1>1, <2>2, <2>3, ZenonT(30)
<1>4. ASSUME NEW f \in Flushers, FlushApply(f) \/ SaveOk(f) \/ SaveFails(f)
      PROVE  BatchValid(g)'
  <2>1. batch' = batch \/ batch' = [batch EXCEPT ![f] = NoBatch]
    BY <1>4, ZenonT(30) DEF FlushApply, SaveOk, SaveFails
  <2>2. batch'[g] = batch[g] \/ batch'[g] = NoBatch
    BY <1>0, <2>1, ZenonT(30)
  <2> QED
    BY <1>1, <1>2, <2>2, ZenonT(30)
<1>5. CASE UNCHANGED batch
  BY <1>1, <1>5, ZenonT(30)
<1>6. ASSUME NEW f \in Flushers,
             FlushTimeout(f) \/ ShutdownJoin(f) \/ \E vb \in VBuckets : SaveWrite(f, vb)
      PROVE  BatchValid(g)'
  BY <1>5, <1>6, ZenonT(30) DEF FlushTimeout, ShutdownJoin, FlushBegin, SaveWrite
<1>7. CASE Application \/ SchedulerTick \/ SchedulerExit \/ UNCHANGED vars
  BY <1>5, <1>7, ApplicationSavesNothing, ZenonT(30)
<1>8. ASSUME NEW vb \in VBuckets, LateWrite(vb)
      PROVE  BatchValid(g)'
  BY <1>5, <1>8, ZenonT(30) DEF LateWrite, flushVars
<1> QED
  BY <1>3, <1>4, <1>6, <1>7, <1>8, ZenonT(30) DEF Next, FlushStep, SaveStep

\* What a save gives up on is of its batch.
LEMMA AbandonedStaysValid ==
  ASSUME TypeOK, SaveInv, [Next]_vars, \A f \in Flushers : BatchValid(f), AbandonedValid
  PROVE  AbandonedValid'
<1>1. CASE UNCHANGED abandoned
  BY <1>1, ZenonT(30) DEF AbandonedValid
<1>2. ASSUME NEW f \in Flushers, SaveFails(f)
      PROVE  AbandonedValid'
  <2>1. PICK sent \in SUBSET todo[f] :
          abandoned' = [vb \in VBuckets |-> IF vb \in sent THEN abandoned[vb] \cup {batch[f][vb]}
                                            ELSE abandoned[vb]]
    BY <1>2, ZenonT(30) DEF SaveFails
  <2>2. ASSUME NEW vb \in VBuckets, NEW w \in abandoned'[vb], w \notin abandoned[vb]
        PROVE  vb \in todo[f] /\ w = batch[f][vb]
    BY <2>1, <2>2, ZenonT(30)
  <2> QED
    BY <2>2, ZenonT(30) DEF AbandonedValid, SaveInv, BatchValid
<1>3. ASSUME NEW f \in Flushers,
             FlushStep(f) \/ SaveOk(f) \/ \E vb \in VBuckets : SaveWrite(f, vb)
      PROVE  AbandonedValid'
  BY <1>1, <1>3, ZenonT(30) DEF FlushStep, FlushGate, FlushTimeout, FlushApply, ShutdownJoin,
                    FlushBegin, SaveOk, SaveWrite, storeVars
<1>4. CASE Application \/ SchedulerTick \/ SchedulerExit \/ UNCHANGED vars
  BY <1>1, <1>4, ApplicationSavesNothing, ZenonT(30)
<1>5. ASSUME NEW vb \in VBuckets, LateWrite(vb)
      PROVE  AbandonedValid'
  BY <1>1, <1>5, ZenonT(30) DEF LateWrite
<1> QED
  BY <1>2, <1>3, <1>4, <1>5, ZenonT(30) DEF Next, SaveStep

\* A save writes what its batch holds, and so did one that gave up.
LEMMA StoreStaysValid ==
  ASSUME TypeOK, SaveInv, [Next]_vars, \A f \in Flushers : BatchValid(f), AbandonedValid,
         StoredCheckpointsLoad
  PROVE  StoredCheckpointsLoad'
<1>1. CASE UNCHANGED store
  BY <1>1, ZenonT(30) DEF StoredCheckpointsLoad
<1>2. ASSUME NEW f \in Flushers, NEW vb \in VBuckets, SaveWrite(f, vb)
      PROVE  StoredCheckpointsLoad'
  <2>1. validate(batch[f][vb].checkpoint)
    BY <1>2, ZenonT(30) DEF SaveWrite, SaveInv, BatchValid
  <2>2. /\ store \in [VBuckets -> Position]
        /\ store' = [store EXCEPT ![vb] = batch[f][vb].checkpoint]
    BY <1>2, ZenonT(30) DEF SaveWrite, TypeOK, StoreTypeOK
  <2>3. \A w \in VBuckets : store'[w] = IF w = vb THEN batch[f][vb].checkpoint ELSE store[w]
    BY <2>2, ZenonT(30)
  <2> QED
    BY <2>1, <2>3, ZenonT(30) DEF StoredCheckpointsLoad
<1>3. ASSUME NEW f \in Flushers, FlushStep(f) \/ SaveOk(f) \/ SaveFails(f)
      PROVE  StoredCheckpointsLoad'
  BY <1>1, <1>3, ZenonT(30) DEF FlushStep, FlushGate, FlushTimeout, FlushApply, ShutdownJoin,
                    FlushBegin, SaveOk, SaveFails, SaveEnd, storeVars
<1>4. CASE Application \/ SchedulerTick \/ SchedulerExit \/ UNCHANGED vars
  BY <1>1, <1>4, ApplicationSavesNothing, ZenonT(30)
<1>5. ASSUME NEW vb \in VBuckets, LateWrite(vb)
      PROVE  StoredCheckpointsLoad'
  <2>1. PICK w \in abandoned[vb] : store' = [store EXCEPT ![vb] = w.checkpoint]
    BY <1>5, ZenonT(30) DEF LateWrite
  <2>2. validate(w.checkpoint)
    BY ZenonT(30) DEF AbandonedValid
  <2>3. store \in [VBuckets -> Position]
    BY ZenonT(30) DEF TypeOK, StoreTypeOK
  <2>4. \A v \in VBuckets : store'[v] = IF v = vb THEN w.checkpoint ELSE store[v]
    BY <2>1, <2>3, ZenonT(30)
  <2> QED
    BY <2>2, <2>4, ZenonT(30) DEF StoredCheckpointsLoad
<1> QED
  BY <1>2, <1>3, <1>4, <1>5, ZenonT(30) DEF Next, SaveStep

\* Whatever instant a crash picks, also in the middle of a batch, what it leaves in the
\* store passes the validation of load_checkpoints.
THEOREM StoreLoads == Spec => []StoredCheckpointsLoad
<1>1. TypeOK /\ SaveInv /\ PositionsValid /\ [Next]_vars
        => TypeOK' /\ SaveInv' /\ PositionsValid'
  <2> SUFFICES ASSUME TypeOK, SaveInv, PositionsValid, [Next]_vars
               PROVE  TypeOK' /\ SaveInv' /\ PositionsValid'
    OBVIOUS
  <2>0. /\ \A vb \in VBuckets : QueueValid(vb)
        /\ \A f \in Flushers : BatchValid(f)
        /\ AbandonedValid
        /\ StoredCheckpointsLoad
    BY ZenonT(30) DEF PositionsValid
  <2>1. TypeOK' /\ SaveInv'
    BY TypingNext, ZenonT(30)
  <2>2. \A vb \in VBuckets : QueueValid(vb)'
    BY <2>0, QueueStaysValid, ZenonT(30)
  <2>3. \A f \in Flushers : BatchValid(f)'
    BY <2>0, BatchStaysValid, ZenonT(30)
  <2>4. StoredCheckpointsLoad'
    BY <2>0, StoreStaysValid, ZenonT(30)
  <2>5. AbandonedValid'
    BY <2>0, AbandonedStaysValid, ZenonT(30)
  <2> QED
    BY <2>1, <2>2, <2>3, <2>4, <2>5, ZenonT(30) DEF PositionsValid
<1>2. PositionsValid => StoredCheckpointsLoad
  BY ZenonT(30) DEF PositionsValid
<1> QED
  BY <1>1, <1>2, TypingInit, PositionsInit, PTL DEF Spec

============================================================================

------------------------ MODULE FileCheckpointStore -------------------------
(***************************************************************************)
(* The checkpoint file (checkpoint_store.rs): save and clear read the      *)
(* whole file, change the documents, write a temporary file, rename it     *)
(* over the old one and sync the directory, one call at a time behind a    *)
(* gate.  The blocking task owns the gate, so it goes on when its caller   *)
(* has given up.  The process may crash between any two steps, and then a  *)
(* rename that was not synced may or may not have reached the disk.        *)
(***************************************************************************)
EXTENDS Integers, Sequences, FiniteSetsExt

CONSTANTS
  VBuckets, Buckets,
  None,
  Torn,                  \* a file with a part of its content
  SyncFails,             \* whether syncing the directory may fail
  MaxCalls, MaxCrashes

VARIABLES
  visible,               \* what a read of the file returns, None if it is absent
  durable,               \* what it would return after a crash
  calls,                 \* the calls made so far, in order
  queue,                 \* the gate: its holder and who waits for it
  acknowledged, cleared, \* ghosts: what callers were told about each vBucket
  crashes

vars == <<visible, durable, calls, queue, acknowledged, cleared, crashes>>

Absent == [vb \in VBuckets |-> None]

----------------------------------------------------------------------------
(* Calls.                                                                  *)

\* A call is made and waits for the gate: a batch to save or to clear, of one
\* bucket.  Later calls save later positions: the number of the call.
Invoke ==
  /\ Len(calls) < MaxCalls
  /\ \E kind \in {"load", "save", "clear"}, vbs \in SUBSET VBuckets \ {{}}, b \in Buckets :
       calls' = Append(calls, [kind |-> kind, vbs |-> vbs, bucket |-> b, pc |-> "read",
                               documents |-> Absent, dropped |-> FALSE])
  /\ queue' = Append(queue, Len(calls) + 1)
  /\ UNCHANGED <<visible, durable, acknowledged, cleared, crashes>>

\* The caller drops its future.  Before it has the gate nothing has happened yet;
\* after that the blocking task cannot be stopped.
CallerDrops(i) ==
  /\ ~calls[i].dropped
  /\ \E k \in DOMAIN queue : queue[k] = i
  /\ calls' = [calls EXCEPT ![i].dropped = TRUE]
  /\ queue' = IF i = Head(queue) THEN queue ELSE SelectSeq(queue, LAMBDA j : j # i)
  /\ UNCHANGED <<visible, durable, acknowledged, cleared, crashes>>

----------------------------------------------------------------------------
(* The blocking task of the call that holds the gate.                      *)

Call == calls[Head(queue)]
At(pc) == queue # <<>> /\ Call.pc = pc

\* The call returns, and the gate is free.
Return(ok) ==
  /\ queue' = Tail(queue)
  /\ calls' = [calls EXCEPT ![Head(queue)].pc = "returned"]
  /\ IF ok /\ ~Call.dropped /\ Call.kind = "save"
     THEN acknowledged' = [vb \in VBuckets |->
                             IF vb \in Call.vbs THEN Head(queue) ELSE acknowledged[vb]]
     ELSE UNCHANGED acknowledged
  /\ cleared' = IF ok /\ ~Call.dropped /\ Call.kind = "clear"
                THEN cleared \cup Call.vbs ELSE cleared

\* A document of another bucket.
Mismatch(documents) ==
  \E vb \in Call.vbs : documents[vb] # None /\ documents[vb].bucket # Call.bucket

\* Mutant of Updated: only the batch is written.
Updated_batch(documents) ==
  [vb \in VBuckets |->
     IF vb \notin Call.vbs \/ Call.kind = "clear" THEN None
     ELSE [bucket |-> Call.bucket, value |-> Head(queue)]]

Updated(documents) ==
  [vb \in VBuckets |->
     IF vb \notin Call.vbs THEN documents[vb]
     ELSE IF Call.kind = "clear" THEN None
     ELSE [bucket |-> Call.bucket, value |-> Head(queue)]]

\* read_file_documents, and the checks.  A clear that finds no file is done.  What
\* callers were told about these vBuckets is about to change.
ReadDocuments ==
  /\ At("read")
  /\ \/ Return(FALSE)
     \/ /\ Call.kind = "load"
        /\ Return(~Mismatch(visible))
     \/ /\ Call.kind # "load" /\ Mismatch(visible)
        /\ Return(FALSE)
     \/ /\ Call.kind = "clear" /\ visible = Absent
        /\ Return(TRUE)
     \/ /\ Call.kind # "load" /\ ~Mismatch(visible)
        /\ Call.kind = "clear" => visible # Absent
        /\ calls' = [calls EXCEPT ![Head(queue)].pc = "replace",
                                  ![Head(queue)].documents = Updated(visible)]
        /\ IF Call.kind = "clear"
           THEN /\ acknowledged' = [vb \in VBuckets |->
                                      IF vb \in Call.vbs THEN 0 ELSE acknowledged[vb]]
                /\ UNCHANGED cleared
           ELSE cleared' = cleared \ Call.vbs /\ UNCHANGED acknowledged
        /\ UNCHANGED queue
  /\ UNCHANGED <<visible, durable, crashes>>

\* The content was synced before the rename: the disk has the old file or the new.
Replaced(documents) == durable' \in {durable, documents}

\* write_file_documents up to its rename, or remove_file when nothing is left.  An
\* error before that leaves the file alone and removes the temporary one.
ReplaceFile ==
  /\ At("replace")
  /\ \/ Return(FALSE) /\ UNCHANGED <<visible, durable>>
     \/ /\ visible' = Call.documents
        /\ Replaced(Call.documents)
        /\ calls' = [calls EXCEPT ![Head(queue)].pc = "sync"]
        /\ UNCHANGED <<queue, acknowledged, cleared>>
  /\ UNCHANGED crashes

\* sync_directory.
SyncDirectory ==
  /\ At("sync")
  /\ \/ durable' = visible /\ Return(TRUE)
     \/ SyncFails /\ Return(FALSE) /\ UNCHANGED durable
  /\ UNCHANGED <<visible, crashes>>

----------------------------------------------------------------------------

\* The process dies, and another one opens the file.
Crash ==
  /\ crashes < MaxCrashes
  /\ crashes' = crashes + 1
  /\ visible' = durable
  /\ queue' = <<>>
  /\ UNCHANGED <<durable, calls, acknowledged, cleared>>

Init ==
  /\ visible = Absent /\ durable = Absent
  /\ calls = <<>> /\ queue = <<>>
  /\ acknowledged = [vb \in VBuckets |-> 0] /\ cleared = {}
  /\ crashes = 0

Next ==
  \/ Invoke
  \/ \E i \in DOMAIN calls : CallerDrops(i)
  \/ ReadDocuments \/ ReplaceFile \/ SyncDirectory
  \/ Crash

Spec == Init /\ [][Next]_vars

\* The blocking pool runs every task that is queued for it.
FairSpec == Spec /\ WF_vars(ReadDocuments \/ ReplaceFile \/ SyncDirectory)

----------------------------------------------------------------------------

\* A save that returned without an error is never lost: not by a crash, not by a
\* batch of other vBuckets, and not by an earlier save whose caller gave up.
SavedSurvives ==
  \A vb \in VBuckets : acknowledged[vb] > 0 =>
    \A file \in {visible, durable} : file[vb] # None /\ file[vb].value >= acknowledged[vb]

\* "Removes checkpoints for the supplied vBuckets": after a clear that returned
\* without an error no crash brings a position back.
ClearedIsGone ==
  \A vb \in cleared : visible[vb] = None /\ durable[vb] = None

\* Every call returns, or its process dies, whatever its caller does.
CallsReturn ==
  \A i \in 1..MaxCalls :
    (i \in DOMAIN calls) ~> (\A k \in DOMAIN queue : queue[k] # i)

=============================================================================

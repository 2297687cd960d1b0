---------------------- MODULE CouchbaseCheckpointStore ----------------------
(***************************************************************************)
(* Checkpoints as documents of a Couchbase collection: the store           *)
(* (checkpoint_store.rs), which handles the vBuckets of a batch            *)
(* concurrently and without a CAS, and its KV adapter                      *)
(* (checkpoint_couchbase.rs), which finds the document's owner anew for    *)
(* every attempt and takes a permit for every operation.                   *)
(*                                                                         *)
(* Requests travel: one that its sender gave up on may still be applied.   *)
(***************************************************************************)
EXTENDS Integers, Sequences, FiniteSetsExt

CONSTANTS
  VBuckets, Nodes, Buckets,
  None,
  RoutingAttempts,      \* routing_attempts
  MaxConcurrency,       \* max_concurrency
  Concurrent,           \* whether calls overlap, as those of two clients sharing the store may
  MaxCalls, MaxMoves

VARIABLES
  document,             \* the stored documents
  owner,                \* the active node of each document
  wire,                 \* requests on their way to a node
  calls,                \* the calls so far, in order
  task,                 \* for each call and vBucket, where its future is
  stored, abandoned, acknowledged,   \* ghosts
  moves

vars == <<document, owner, wire, calls, task, stored, abandoned, acknowledged, moves>>
ghosts == <<stored, abandoned, acknowledged>>

Tasks == (DOMAIN calls) \X VBuckets
Running == {"getting", "putting", "sent"}

\* The permits in use: one for each operation from its first attempt to its end.
Permits == Cardinality({t \in Tasks : task[t].pc \in Running})

Move(t, pc) == task' = [task EXCEPT ![t].pc = pc]

----------------------------------------------------------------------------
(* CouchbaseCheckpointStore: load, save, clear.                            *)

\* A call starts a future for each vBucket.  Later calls save later positions.
Invoke ==
  /\ Len(calls) < MaxCalls
  /\ Concurrent \/ \A c \in DOMAIN calls : calls[c].result # None
  /\ \E kind \in {"load", "save", "clear"}, vbs \in SUBSET VBuckets \ {{}}, b \in Buckets :
       /\ calls' = Append(calls, [kind |-> kind, vbs |-> vbs, bucket |-> b, result |-> None])
       /\ task' = [t \in (1..(Len(calls) + 1)) \X VBuckets |->
                     IF t \in Tasks THEN task[t]
                     ELSE [pc |-> IF t[2] \in vbs THEN "get" ELSE "ok",
                           route |-> None, attempts |-> 0]]
       /\ acknowledged' = [vb \in VBuckets |->
            IF kind = "clear" /\ vb \in vbs THEN 0 ELSE acknowledged[vb]]
  /\ UNCHANGED <<document, owner, wire, stored, abandoned, moves>>

\* collect_couchbase_writes waits for every write; a load for its first error.
Ended(c) ==
  \/ \A vb \in calls[c].vbs : task[<<c, vb>>].pc \in {"ok", "failed"}
  \/ calls[c].kind = "load" /\ \E vb \in calls[c].vbs : task[<<c, vb>>].pc = "failed"

Stop(c) ==
  task' = [t \in Tasks |-> IF t[1] = c /\ task[t].pc # "ok" THEN [task[t] EXCEPT !.pc = "failed"]
                           ELSE task[t]]

Return(c) ==
  LET ok == \A vb \in calls[c].vbs : task[<<c, vb>>].pc = "ok" IN
  /\ calls[c].result = None
  /\ Ended(c)
  /\ calls' = [calls EXCEPT ![c].result = IF ok THEN "ok" ELSE "error"]
  /\ Stop(c)
  /\ acknowledged' = [vb \in VBuckets |->
       IF ok /\ vb \in calls[c].vbs /\ calls[c].kind = "save" THEN c ELSE acknowledged[vb]]
  /\ UNCHANGED <<document, owner, wire, stored, abandoned, moves>>

\* The caller drops the future of the call, and all of its operations with it.
CallerDrops(c) ==
  /\ calls[c].result = None
  /\ calls' = [calls EXCEPT ![c].result = "dropped"]
  /\ Stop(c)
  /\ abandoned' = abandoned \cup {w \in wire : w.call = c}
  /\ UNCHANGED <<document, owner, wire, stored, acknowledged, moves>>

----------------------------------------------------------------------------
(* CouchbaseKvCheckpointCollection.                                        *)

\* acquire_operation_permit, and the first attempt: bootstrap, discover_topology.
Acquire(t) ==
  /\ task[t].pc \in {"get", "put"}
  /\ Permits < MaxConcurrency
  /\ task' = [task EXCEPT ![t] = [pc |-> IF task[t].pc = "get" THEN "getting" ELSE "putting",
                                  route |-> owner[t[2]], attempts |-> 1]]
  /\ UNCHANGED <<document, owner, wire, calls, ghosts, moves>>

\* The routed node no longer has the document: a fresh lookup, or none is left.
Reroute(t, pc) ==
  task' = [task EXCEPT ![t] =
    IF task[t].attempts = RoutingAttempts THEN [task[t] EXCEPT !.pc = "failed"]
    ELSE [pc |-> pc, route |-> owner[t[2]], attempts |-> task[t].attempts + 1]]

Mismatch(d, bucket) == d # None /\ d.bucket # bucket

\* get_xattr, and what the store does with the document it finds.
GetXattr(t) ==
  LET c == calls[t[1]]
      mismatch == Mismatch(document[t[2]], c.bucket)
  IN
  /\ task[t].pc = "getting"
  /\ \/ Move(t, "failed")
     \/ task[t].route # owner[t[2]] /\ Reroute(t, "getting")
     \/ /\ task[t].route = owner[t[2]]
        /\ Move(t, IF mismatch THEN "failed" ELSE IF c.kind = "load" THEN "ok" ELSE "put")
  /\ UNCHANGED <<document, owner, wire, calls, ghosts, moves>>

\* upsert_xattr or remove_document is sent.
Send(t) ==
  /\ task[t].pc = "putting"
  /\ \/ Move(t, "failed") /\ UNCHANGED wire
     \/ /\ Move(t, "sent")
        /\ wire' = wire \cup {[call |-> t[1], vb |-> t[2], node |-> task[t].route]}
  /\ UNCHANGED <<document, owner, calls, ghosts, moves>>

\* The answer, if someone still waits for it.
Answered(t, applied) ==
  IF task[t].pc # "sent" THEN UNCHANGED task
  ELSE IF applied THEN Move(t, "ok") ELSE Reroute(t, "putting")

\* The node applies the request, or refuses it as not its own.
Deliver(w) ==
  LET t == <<w.call, w.vb>>
      c == calls[w.call]
      applied == w.node = owner[w.vb]
  IN
  /\ wire' = wire \ {w}
  /\ IF applied
     THEN /\ document' = [document EXCEPT ![w.vb] =
               IF c.kind = "clear" THEN None ELSE [bucket |-> c.bucket, value |-> w.call]]
          /\ stored' = stored \cup {t}
     ELSE UNCHANGED <<document, stored>>
  /\ Answered(t, applied)
  /\ abandoned' = IF w \in abandoned /\ ~applied THEN abandoned \ {w} ELSE abandoned
  /\ UNCHANGED <<owner, calls, acknowledged, moves>>

\* A timeout or a broken connection: the request may still arrive, or it is lost.
GiveUp(t) ==
  LET mine == {w \in wire : w.call = t[1] /\ w.vb = t[2]} IN
  /\ task[t].pc = "sent"
  /\ Move(t, "failed")
  /\ \/ wire' = wire \ mine /\ UNCHANGED abandoned
     \/ abandoned' = abandoned \cup mine /\ UNCHANGED wire
  /\ UNCHANGED <<document, owner, calls, stored, acknowledged, moves>>

OwnerMoves(vb) ==
  /\ moves < MaxMoves
  /\ moves' = moves + 1
  /\ \E n \in Nodes \ {owner[vb]} : owner' = [owner EXCEPT ![vb] = n]
  /\ UNCHANGED <<document, wire, calls, task, ghosts>>

----------------------------------------------------------------------------

Init ==
  /\ document = [vb \in VBuckets |-> None]
  /\ owner \in [VBuckets -> Nodes]
  /\ wire = {} /\ calls = <<>> /\ task = <<>>
  /\ stored = {} /\ abandoned = {} /\ acknowledged = [vb \in VBuckets |-> 0]
  /\ moves = 0

Step(t) == Acquire(t) \/ GetXattr(t) \/ Send(t)

Next ==
  \/ Invoke
  \/ \E c \in DOMAIN calls : Return(c) \/ CallerDrops(c)
  \/ \E t \in Tasks : Step(t) \/ GiveUp(t)
  \/ \E w \in wire : Deliver(w)
  \/ \E vb \in VBuckets : OwnerMoves(vb)

Spec == Init /\ [][Next]_vars

\* Futures are polled when they are ready, and every request has a timeout.
FairSpec ==
  /\ Spec
  /\ \A c \in 1..MaxCalls :
       /\ WF_vars(c \in DOMAIN calls /\ Return(c))
       /\ \A vb \in VBuckets :
            WF_vars(<<c, vb>> \in Tasks /\ (Step(<<c, vb>>) \/ GiveUp(<<c, vb>>)))

----------------------------------------------------------------------------

\* A save or clear that returned without an error reached the owner of every one
\* of its documents, also when they moved meanwhile.
OkIsStored ==
  \A c \in DOMAIN calls : calls[c].result = "ok" /\ calls[c].kind # "load" =>
    \A vb \in calls[c].vbs : <<c, vb>> \in stored

\* A call that has returned has nothing on its way, but for what it gave up on: a
\* failed vBucket of a batch does not leave the others writing behind its back.
QuietAfterReturn ==
  \A w \in wire : calls[w.call].result # None => w \in abandoned

\* With one call at a time a saved position is not lost or replaced by an older
\* one, unless a request of that document was given up on.
SavedSurvives ==
  \A vb \in VBuckets :
    acknowledged[vb] > 0 /\ (\A w \in abandoned : w.vb # vb) =>
      document[vb] # None /\ document[vb].value >= acknowledged[vb]

\* Every call returns: no operation waits for a permit for ever.
CallsReturn ==
  \A c \in 1..MaxCalls : (c \in DOMAIN calls) ~> (c \in DOMAIN calls /\ calls[c].result # None)

=============================================================================

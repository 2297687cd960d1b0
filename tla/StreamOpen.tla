----------------------------- MODULE StreamOpen -----------------------------
(***************************************************************************)
(* Opening the streams of one connection generation (client.rs and         *)
(* stream.rs): node after node, and on each node the high seqnos, then the *)
(* failover log of every vBucket, then a stream request for each, with the *)
(* rollbacks the server asks for.  Every answer is a step of its own: the  *)
(* server writes, fails over and moves vBuckets between them.              *)
(*                                                                         *)
(* The server follows the failover table of Couchbase: a request is        *)
(* refused with the point to go back to unless the branch it names has     *)
(* the whole of its snapshot.                                              *)
(***************************************************************************)
EXTENDS Integers, FiniteSetsExt

CONSTANTS
  VBuckets,             \* numbers: they are opened in this order
  Nodes,                \* numbers: they are opened in this order
  None,                 \* no value
  Policy,               \* config.rollback_policy
  Finite,               \* config.mode
  Selected,             \* the seqnos of the selected collections
  MaxRollbackAttempts,  \* MAX_ROLLBACK_ATTEMPTS
  MaxSeqno, MaxBranches, MaxMoves, MaxOpens

VARIABLES
  \* the server: branches, where each left the one before, and who is active
  branch, fork, high, active,
  \* the request: start positions, and the frozen ends of a finite subscription
  starts, frozen,
  \* the attempt: the topology it follows, and what is left to do
  pc, route, todo, node, left, high_seqnos, requests, attempts, observed,
  \* its result: the open partitions, the nodes with a worker, the error
  opened, streams, error,
  \* bounds
  moves, opens

server == <<branch, fork, high, active>>
result == <<opened, streams, error>>
bounds == <<moves, opens>>
vars == <<server, starts, frozen, pc, route, todo, node, left, high_seqnos,
          requests, attempts, observed, result, bounds>>

Unbounded == MaxSeqno + 1

----------------------------------------------------------------------------
(* The server.                                                             *)

\* The branch on which a history of branch b got its event k.
Writer(vb, b, k) ==
  Max({1} \cup {w \in 2..b : fork[vb][w] < k /\ \A x \in (w + 1)..b : fork[vb][x] >= k})

\* A branch that starts before an older one removes its entry.
FailoverLog(vb) ==
  {[uuid |-> b, seqno |-> fork[vb][b]] : b \in
     {c \in 1..branch[vb] : \A x \in (c + 1)..branch[vb] : fork[vb][x] >= fork[vb][c]}}

Newest(log) == CHOOSE e \in log : \A f \in log : f.uuid <= e.uuid

\* How far the history of the branch reaches into the current one.
Upper(vb, uuid) ==
  Min({high[vb]} \cup {e.seqno : e \in {f \in FailoverLog(vb) : f.uuid > uuid}})

\* None if the stream opens, else where to go back to.
Rollback(vb, r) ==
  LET known == \E e \in FailoverLog(vb) : e.uuid = r.uuid
      lo == IF r.seqno = r.hi THEN r.seqno ELSE r.lo
      hi == IF r.seqno = r.lo THEN r.seqno ELSE r.hi
  IN
  IF r.seqno = 0 /\ ~r.strict THEN None
  ELSE IF ~known THEN 0
  ELSE IF hi <= Upper(vb, r.uuid) THEN None
  ELSE Min({lo, Upper(vb, r.uuid)})

\* The high seqno of the selection: of all collections, or of the chosen ones.
SelectedHigh(vb) == Max({0} \cup (Selected \cap 1..high[vb]))

ServerWrite(vb) ==
  /\ high[vb] < MaxSeqno
  /\ high' = [high EXCEPT ![vb] = @ + 1]
  /\ UNCHANGED <<branch, fork, active, starts, frozen, pc, route, todo, node, left,
                 high_seqnos, requests, attempts, observed, result, bounds>>

\* The vBucket becomes active on another node: with a new branch that has a part
\* of its history, or handed over with all of it.
ServerMoves(vb) ==
  /\ moves < MaxMoves
  /\ moves' = moves + 1
  /\ \E n \in Nodes \ {active[vb]} : active' = [active EXCEPT ![vb] = n]
  /\ \/ /\ branch[vb] < MaxBranches
        /\ \E n \in 0..high[vb] :
             /\ branch' = [branch EXCEPT ![vb] = @ + 1]
             /\ fork' = [fork EXCEPT ![vb][branch[vb] + 1] = n]
             /\ high' = [high EXCEPT ![vb] = n]
     \/ UNCHANGED <<branch, fork, high>>
  /\ UNCHANGED <<starts, frozen, pc, route, todo, node, left, high_seqnos,
                 requests, attempts, observed, result, opens>>

----------------------------------------------------------------------------
(* open_tokio_generation.                                                  *)

NoPartition == [vb \in VBuckets |-> None]
Mine == {vb \in VBuckets : route[vb] = node}

\* The attempt starts, with the topology of this moment.
OpenGeneration ==
  /\ pc \in {"idle", "failed"}
  /\ opens < MaxOpens
  /\ opens' = opens + 1
  /\ route' = active
  /\ todo' = {active[vb] : vb \in VBuckets}
  /\ pc' = "connect"
  /\ opened' = NoPartition
  /\ streams' = {}
  /\ error' = None
  /\ UNCHANGED <<server, starts, frozen, node, left, high_seqnos, requests,
                 attempts, observed, moves>>

\* Mutant of Fail: the streams of the nodes before are forgotten, not shut down.
Fail_leaks(e) ==
  /\ pc' = "failed"
  /\ error' = e
  /\ opened' = NoPartition
  /\ UNCHANGED <<streams, todo, node, left, high_seqnos, requests, attempts, observed>>

\* The connection at hand is dropped, shutdown_stream_vec closes the others.
Fail(e) ==
  /\ pc' = "failed"
  /\ error' = e
  /\ opened' = NoPartition
  /\ streams' = {}
  /\ UNCHANGED <<todo, node, left, high_seqnos, requests, attempts, observed>>

\* bootstrap_connection, and with the first node the collection selection.
OpenNode ==
  /\ pc = "connect" /\ todo # {}
  /\ \/ Fail("connection")
     \/ /\ node' = Min(todo)
        /\ pc' = "high"
        /\ UNCHANGED <<todo, left, high_seqnos, requests, attempts, observed, result>>
  /\ UNCHANGED <<server, starts, frozen, route, bounds>>

\* fetch_selection_high_seqnos: one answer for the node's active vBuckets.
FetchHighSeqnos ==
  /\ pc = "high"
  /\ \/ Fail("connection")
     \/ /\ high_seqnos' = [vb \in VBuckets |->
                             IF active[vb] = node THEN SelectedHigh(vb) ELSE None]
        /\ left' = Mine
        /\ requests' = [vb \in VBuckets |-> IF vb \in Mine THEN None ELSE requests[vb]]
        /\ pc' = "log"
        /\ UNCHANGED <<todo, node, attempts, observed, result>>
  /\ UNCHANGED <<server, starts, frozen, route, bounds>>

----------------------------------------------------------------------------
(* resolve_vbucket_request, VBucketStreamRequest::resolve.                 *)

\* A position at the end of a snapshot.  Two fields are for the properties alone: the
\* branch on which the server refused the request, and whether the position comes from
\* a rollback that this branch was not asked about.
At(uuid, seqno, strict) ==
  [uuid |-> uuid, seqno |-> seqno, lo |-> seqno, hi |-> seqno, strict |-> strict,
   refused |-> None, unasked |-> FALSE]

\* Mutant of Position: the branch of the checkpoint is overwritten by the newest.
Position_newest(vb, newest) ==
  CASE starts[vb].kind = "Earliest" -> At(newest, 0, FALSE)
    [] starts[vb].kind = "Latest" -> At(newest, high_seqnos[vb], FALSE)
    [] starts[vb].kind = "Checkpoint" -> At(newest, starts[vb].checkpoint.seqno, FALSE)

\* The position a start stands for.  A checkpoint at zero asks for its very branch.
Position(vb, newest) ==
  CASE starts[vb].kind = "Earliest" -> At(newest, 0, FALSE)
    [] starts[vb].kind = "Latest" -> At(newest, high_seqnos[vb], FALSE)
    [] starts[vb].kind = "Checkpoint" ->
         LET c == starts[vb].checkpoint IN
         [At(c.uuid, c.seqno, c.seqno = 0) EXCEPT !.lo = c.lo, !.hi = c.hi]

\* rewind: to the newest branch that has the seqno.
Rewound(log, seqno) == At(Max({e.uuid : e \in {f \in log : f.seqno <= seqno}}), seqno, FALSE)

\* The preflight builds a new request, with the flags of an explicit checkpoint.
PreflightRewound(log, seqno) ==
  [Rewound(log, seqno) EXCEPT !.strict = (seqno = 0), !.unasked = TRUE]

\* The end of a finite stream: the high seqno of the first open, ever after.
EndSeqno(vb) ==
  IF ~Finite THEN Unbounded
  ELSE IF frozen # NoPartition THEN frozen[vb] ELSE high_seqnos[vb]

\* with_frozen_end_seqno, validate_requests: the request is kept, and the next
\* vBucket follows, or once all have one the stream requests.
Resolved(vb, r) ==
  IF EndSeqno(vb) < r.seqno THEN Fail("stream")
  ELSE /\ requests' = [requests EXCEPT ![vb] = r]
       /\ left' = IF left = {vb} THEN Mine ELSE left \ {vb}
       /\ pc' = IF left = {vb} THEN "request" ELSE "log"
       /\ attempts' = 0
       /\ UNCHANGED <<todo, node, high_seqnos, observed, result>>

\* What the policy does with a rollback to the seqno; a handler is waited for.
Decide(log, seqno, proceed, wait) ==
  CASE Policy = "StopAndReport" -> Fail("RollbackRequired")
    [] Policy = "RewindAndReplay" -> proceed
    [] Policy = "DelegateToHandler" ->
         /\ observed' = [seqno |-> seqno, log |-> log]
         /\ pc' = wait
         /\ UNCHANGED <<todo, node, left, high_seqnos, requests, attempts, result>>

\* The start is past the high seqno that was captured.
Ahead(vb, r) == r.seqno > high_seqnos[vb]

\* fetch_failover_log for the next vBucket, and its request.  A start past the high
\* seqno is a rollback that the server is not asked about.
ResolveRequest ==
  LET vb == Min(left)
      log == FailoverLog(vb)
      r == Position(vb, Newest(log).uuid)
  IN
  /\ pc = "log"
  /\ \/ Fail("connection")
     \/ /\ high_seqnos[vb] = None \/ active[vb] # node
        /\ Fail("topology")
     \/ /\ high_seqnos[vb] # None /\ active[vb] = node
        /\ ~Ahead(vb, r)
        /\ Resolved(vb, r)
     \/ /\ high_seqnos[vb] # None /\ active[vb] = node
        /\ Ahead(vb, r)
        /\ Decide(log, high_seqnos[vb],
                  Resolved(vb, PreflightRewound(log, high_seqnos[vb])), "preflight")
  /\ UNCHANGED <<server, starts, frozen, route, bounds>>

\* The handler answers, with whatever delay.
PreflightHandler ==
  /\ pc = "preflight"
  /\ \/ Fail("handler") \/ Fail("RollbackRequired")
     \/ Resolved(Min(left), PreflightRewound(observed.log, observed.seqno))
  /\ UNCHANGED <<server, starts, frozen, route, bounds>>

----------------------------------------------------------------------------
(* open_dcp_stream, open_partition.                                        *)

\* Events of the current history that the stream leaves out and the start had not.
Lost(vb, seqno) ==
  /\ starts[vb].kind = "Checkpoint"
  /\ \E k \in 1..seqno : Writer(vb, branch[vb], k) # Writer(vb, starts[vb].checkpoint.uuid, k)

\* The partition is open: the next one, or the node is done.
PartitionOpened(vb) ==
  LET r == requests[vb] IN
  /\ opened' = [opened EXCEPT ![vb] =
       [seqno |-> r.seqno, uuid |-> branch[vb], end |-> EndSeqno(vb),
        lost |-> Lost(vb, r.seqno), unasked |-> r.unasked]]
  /\ left' = left \ {vb}
  /\ attempts' = 0
  /\ IF left = {vb}
     THEN /\ streams' = streams \cup {node}
          /\ todo' = todo \ {node}
          /\ pc' = "connect"
     ELSE UNCHANGED <<streams, todo, pc>>
  /\ UNCHANGED <<node, high_seqnos, requests, observed, error>>

\* A rollback that does not go back, or one too many.
RollbackRefused(r, seqno) == seqno >= r.seqno \/ attempts = MaxRollbackAttempts

\* The request is sent and answered.
RequestStream ==
  LET vb == Min(left)
      r == requests[vb]
      back == Rollback(vb, r)
  IN
  /\ pc = "request"
  /\ \/ Fail("connection")
     \/ active[vb] = node /\ back = None /\ PartitionOpened(vb)
     \/ /\ active[vb] = node /\ back # None
        /\ IF RollbackRefused(r, back) THEN Fail("malformed")
           ELSE /\ attempts' = attempts + 1
                /\ observed' = [seqno |-> back, log |-> {}]
                /\ requests' = [requests EXCEPT ![vb].refused = branch[vb]]
                /\ pc' = "rollback"
                /\ UNCHANGED <<todo, node, left, high_seqnos, result>>
  /\ UNCHANGED <<server, starts, frozen, route, bounds>>

\* The rewound request is sent next.
Rewind(vb, log, seqno) ==
  /\ requests' = [requests EXCEPT ![vb] =
       [Rewound(log, seqno) EXCEPT
          !.unasked = requests[vb].unasked \/ requests[vb].refused # Newest(log).uuid]]
  /\ observed' = None
  /\ pc' = "request"
  /\ UNCHANGED <<todo, node, left, high_seqnos, attempts, result>>

\* fetch_failover_log after a rollback answer, and the policy.
RollbackLog ==
  LET vb == Min(left) IN
  /\ pc = "rollback"
  /\ \/ Fail("connection")
     \/ /\ active[vb] = node
        /\ Decide(FailoverLog(vb), observed.seqno,
                  Rewind(vb, FailoverLog(vb), observed.seqno), "handler")
  /\ UNCHANGED <<server, starts, frozen, route, bounds>>

RollbackHandler ==
  /\ pc = "handler"
  /\ \/ Fail("handler") \/ Fail("RollbackRequired")
     \/ Rewind(Min(left), observed.log, observed.seqno)
  /\ UNCHANGED <<server, starts, frozen, route, bounds>>

\* validate_opened_partitions: every vBucket, with the ends it must keep.
OpenedValid ==
  LET ends == [vb \in VBuckets |-> opened[vb].end] IN
  /\ \A vb \in VBuckets : opened[vb] # None
  /\ frozen = NoPartition \/ ends = frozen
  /\ \A vb \in VBuckets : opened[vb].seqno <= ends[vb]

\* All nodes are open.  The mitigation's observer is started, which may fail.
GenerationOpened ==
  /\ pc = "connect" /\ todo = {}
  /\ \/ Fail("mitigation") /\ UNCHANGED frozen
     \/ IF ~OpenedValid THEN Fail("invalid") /\ UNCHANGED frozen
        ELSE /\ pc' = "opened"
             /\ frozen' = IF frozen # NoPartition THEN frozen
                          ELSE [vb \in VBuckets |-> opened[vb].end]
             /\ UNCHANGED <<todo, node, left, high_seqnos, requests, attempts, observed, result>>
  /\ UNCHANGED <<server, starts, route, bounds>>

\* The generation ends.  The next starts from what was processed of its streams:
\* a seqno and the snapshot it is in.
GenerationEnds ==
  LET limit(vb) == LET b == opened[vb].uuid
                       l == IF b = branch[vb] THEN high[vb] ELSE fork[vb][b + 1]
                   IN Max({opened[vb].seqno, Min({l, opened[vb].end})})
      reached(vb) == {[kind |-> "Checkpoint",
                       checkpoint |-> [uuid |-> opened[vb].uuid, seqno |-> s, lo |-> l, hi |-> h]] :
                        s \in opened[vb].seqno..limit(vb), l \in {opened[vb].seqno, limit(vb)},
                        h \in {opened[vb].seqno, limit(vb)}}
      valid(c) == c.checkpoint.lo <= c.checkpoint.seqno /\ c.checkpoint.seqno <= c.checkpoint.hi
  IN
  /\ pc = "opened"
  /\ \E next \in [VBuckets -> UNION {reached(vb) : vb \in VBuckets}] :
       /\ \A vb \in VBuckets : next[vb] \in reached(vb) /\ valid(next[vb])
       /\ starts' = next
  /\ pc' = "idle"
  /\ opened' = NoPartition
  /\ streams' = {}
  /\ observed' = None
  /\ requests' = NoPartition /\ high_seqnos' = NoPartition
  /\ UNCHANGED <<server, frozen, route, todo, node, left, attempts, error, bounds>>

----------------------------------------------------------------------------

Init ==
  /\ branch = [vb \in VBuckets |-> 1]
  /\ fork = [vb \in VBuckets |-> [b \in 1..MaxBranches |-> 0]]
  /\ high \in [VBuckets -> 0..MaxSeqno]
  /\ active \in [VBuckets -> Nodes]
  /\ starts \in [VBuckets -> {[kind |-> "Earliest"], [kind |-> "Latest"]}]
  /\ frozen = NoPartition
  /\ pc = "idle" /\ route = active /\ todo = {} /\ node = Min(Nodes) /\ left = {}
  /\ high_seqnos = NoPartition /\ requests = NoPartition
  /\ attempts = 0 /\ observed = None
  /\ opened = NoPartition /\ streams = {} /\ error = None
  /\ moves = 0 /\ opens = 0

Next ==
  \/ \E vb \in VBuckets : ServerWrite(vb) \/ ServerMoves(vb)
  \/ OpenGeneration \/ OpenNode \/ FetchHighSeqnos
  \/ ResolveRequest \/ PreflightHandler
  \/ RequestStream \/ RollbackLog \/ RollbackHandler
  \/ GenerationOpened \/ GenerationEnds

Spec == Init /\ [][Next]_vars

----------------------------------------------------------------------------

\* All or nothing: an attempt that failed leaves no worker behind, and one that
\* succeeded has every vBucket open, with a worker of the node it was routed to.
AllOrNothing ==
  /\ pc = "failed" => streams = {}
  /\ pc = "opened" =>
       \A vb \in VBuckets : opened[vb] # None /\ route[vb] \in streams

\* The last check of the partitions finds nothing: the streams of all nodes are the
\* ones asked for, and a reopened finite stream ends where the first one did, also
\* when the high seqno has moved since.
OpenedAsRequested == error # "invalid"

\* A rewind that the server asked for replays everything the new history has and
\* the start position had not (follow_rollback).  Two rewinds are not of this kind:
\* the preflight's, and one for which the vBucket has left the node and come back with
\* another branch between the answer and the failover log.
RewindLosesNothing ==
  \A vb \in VBuckets : opened[vb] # None /\ ~opened[vb].unasked => ~opened[vb].lost

\* "The server requires the partition to roll back to an earlier history": a
\* rollback reported for a checkpoint is one the server would ask for.  It holds of
\* selections that have every seqno, and not of explicit collections: a checkpoint
\* advances past their last event with the seqnos the server announces.
RollbackIsReal ==
  error = "RollbackRequired" /\ starts[Min(left)].kind = "Checkpoint" =>
    Rollback(Min(left), Position(Min(left), branch[Min(left)])) # None

=============================================================================

------------------------ MODULE CouchbaseMembership -------------------------
(***************************************************************************)
(* A group of processes that share one registry document                   *)
(* (rust-dcp-membership-couchbase).  Each process registers, then renews   *)
(* its entry and prunes stale ones from a background task (run_membership) *)
(* while with_store settles in the foreground.  All of them change the     *)
(* document by load, change and CAS replace (mutate_registry).             *)
(*                                                                         *)
(* A timestamp is kept as an age, which Tick increases up to StaleAfter:   *)
(* in the document, and in every copy of it that is about to be written.   *)
(* Wall clocks agree on ages; join times may sort anywhere.                *)
(***************************************************************************)
EXTENDS Assignment, Sequences, FiniteSets, SequencesExt

CONSTANTS
  Processes,            \* member incarnations
  MemberId,             \* the member ID of each of them
  VBucketCount,         \* vbucket_count
  HeartbeatInterval, MonitorInterval, StaleAfter, OperationTimeout,   \* in ticks
  MaxCasAttempts,       \* max_cas_attempts
  FaultKinds,           \* which of "store", "drop" and "crash" happen
  MaxFaults             \* and how many of them in a behaviour

VARIABLES
  registry,             \* the document, or None
  op,                   \* for each process and context, the mutation it is in, or None
  late,                 \* documents that may still replace it, their senders having given up
  connect,              \* for each process, how far with_store is
  task,                 \* for each process, its background task
  published,            \* for each process, the assignment in its watch channel, or None
  faults

vars == <<registry, op, late, connect, task, published, faults>>

Contexts == {"foreground", "background"}
Ops == Processes \X Contexts

Fault(kind) == kind \in FaultKinds /\ faults < MaxFaults /\ faults' = faults + 1

----------------------------------------------------------------------------
(* RegistryDocument (model.rs).  order sorts the members by join time.     *)

Members(r) == ToSet(r.order)

IsStale(r, q) == r.age[q] >= StaleAfter

NewRegistry == [generation |-> 0, order |-> <<>>, age |-> [q \in Processes |-> 0]]

Without(r, gone) ==
  [generation |-> r.generation + 1,
   order |-> SelectSeq(r.order, LAMBDA q : q \notin gone),
   age |-> [q \in Processes |-> IF q \in gone THEN 0 ELSE r.age[q]]]

PruneStale(r) ==
  LET stale == {q \in Members(r) : IsStale(r, q)} IN
  IF stale = {} THEN r ELSE Without(r, stale)

\* The documents register may produce, or an error: another live process has the
\* member ID, or there are as many members as vBuckets.
Register(r, p) ==
  LET same == {q \in Members(r) : MemberId[q] = MemberId[p]} IN
  IF p \in Members(r) THEN {[r EXCEPT !.age[p] = 0]}
  ELSE IF \/ \E q \in same : ~IsStale(r, q)
          \/ same = {} /\ Len(r.order) >= VBucketCount THEN {Error}
  ELSE LET rest == SelectSeq(r.order, LAMBDA q : q \notin same) IN
       {[r EXCEPT !.generation = @ + 1, !.order = InsertAt(rest, i, p), !.age[p] = 0] :
         i \in 1..(Len(rest) + 1)}

\* Fenced, for a process that was pruned or replaced.
Heartbeat(r, p) == IF p \in Members(r) THEN [r EXCEPT !.age[p] = 0] ELSE Error

RemoveMember(r, p) ==
  IF p \in Members(r) THEN Without(r, {p})
  ELSE IF \E q \in Members(r) : MemberId[q] = MemberId[p] THEN Error ELSE r

\* Mutant of Snapshot: only the members up to this one are counted.
Snapshot_prefix(r, p) ==
  LET i == CHOOSE j \in DOMAIN r.order : r.order[j] = p IN
  [generation |-> r.generation, vbuckets |-> Balanced(VBucketCount, i, i)]

\* The assignment of a member, from its place in the order.
Snapshot(r, p) ==
  [generation |-> r.generation,
   vbuckets |-> Balanced(VBucketCount, CHOOSE i \in DOMAIN r.order : r.order[i] = p,
                         Len(r.order))]

----------------------------------------------------------------------------
(* mutate_registry.                                                        *)

\* RegistryDocument::validate, of what the abstraction keeps: the loaded document has a
\* vBucket for each member and one entry for each member ID.
validate(r) ==
  /\ Len(r.order) <= VBucketCount
  /\ \A i, j \in DOMAIN r.order : i # j => MemberId[r.order[i]] # MemberId[r.order[j]]

\* The documents an action makes of a loaded one.
Changed(r, p, action) ==
  CASE r # None /\ ~validate(r) -> {Error}
    [] action = "register"  -> Register(PruneStale(IF r = None THEN NewRegistry ELSE r), p)
    [] r = None             -> {Error}
    [] action = "heartbeat" -> {Heartbeat(r, p)}
    [] action = "monitor"   -> LET h == Heartbeat(r, p) IN {IF h = Error THEN Error ELSE PruneStale(h)}
    [] action = "remove"    -> {RemoveMember(r, p)}

NewOp(action) ==
  [action |-> action, stage |-> "load", document |-> None, fresh |-> FALSE,
   elapsed |-> 0, attempts |-> 1]

\* The load, and the change to what it returned; without a change there is no write.
LoadAndChange(p, c) ==
  LET o == op[p, c] IN
  /\ o # None /\ o.stage = "load"
  /\ \E document \in Changed(registry, p, o.action) :
       op' = [op EXCEPT ![p, c] =
         IF document = Error THEN [o EXCEPT !.stage = "refused"]
         ELSE IF document = registry THEN [o EXCEPT !.stage = "stored", !.document = document]
         ELSE [o EXCEPT !.stage = "write", !.document = document, !.fresh = TRUE]]
  /\ UNCHANGED <<registry, late, connect, task, published, faults>>

\* Another document is stored: no other copy has its CAS.
StillFresh(fresh) == FALSE

Outdated(ops) ==
  [x \in Ops |-> IF ops[x] = None THEN None ELSE [ops[x] EXCEPT !.fresh = StillFresh(@)]]

\* The node handles the conditional write.
ConditionalWrite(p, c) ==
  LET o == op[p, c] IN
  /\ o # None /\ o.stage = "write"
  /\ IF o.fresh
     THEN /\ registry' = o.document
          /\ op' = [Outdated(op) EXCEPT ![p, c].stage = "stored"]
          /\ late' = {w \in late : StillFresh(TRUE)}
     ELSE /\ op' = [op EXCEPT ![p, c].stage = "conflict"]
          /\ UNCHANGED <<registry, late>>
  /\ UNCHANGED <<connect, task, published, faults>>

\* A write whose CAS still holds arrives after its sender gave it up or crashed.
LateWrite(w) ==
  /\ registry' = w
  /\ op' = Outdated(op)
  /\ late' = {x \in late \ {w} : StillFresh(TRUE)}
  /\ UNCHANGED <<connect, task, published, faults>>

\* A conflict is retried from a new load.
Retry(p, c) ==
  LET o == op[p, c] IN
  /\ o # None /\ o.stage = "conflict" /\ o.attempts < MaxCasAttempts
  /\ op' = [op EXCEPT ![p, c] = [o EXCEPT !.stage = "load", !.document = None,
                                          !.attempts = @ + 1]]
  /\ UNCHANGED <<registry, late, connect, task, published, faults>>

\* A write of o that may still arrive.
Orphans(o) ==
  IF o # None /\ o.stage = "write" /\ o.fresh THEN {o.document} ELSE {}

----------------------------------------------------------------------------
(* with_store, close and drop, in the foreground.                          *)

\* send_replace, when the assignment has changed.
Publish(p, snapshot) ==
  published' = IF published[p] = snapshot THEN published
               ELSE [published EXCEPT ![p] = snapshot]

NewTask == [state |-> "waiting", cancelled |-> FALSE, idle |-> 0,
            heartbeat |-> HeartbeatInterval, monitor |-> MonitorInterval]

Connect(p) ==
  /\ connect[p] = "new"
  /\ connect' = [connect EXCEPT ![p] = "registering"]
  /\ op' = [op EXCEPT ![p, "foreground"] = NewOp("register")]
  /\ UNCHANGED <<registry, late, task, published, faults>>

\* The rebalance delay is over.
Settle(p) ==
  /\ connect[p] = "settling"
  /\ connect' = [connect EXCEPT ![p] = "refreshing"]
  /\ op' = [op EXCEPT ![p, "foreground"] = NewOp("register")]
  /\ UNCHANGED <<registry, late, task, published, faults>>

Running(p) == task[p] # None /\ task[p].state \in {"waiting", "running"}

Cancelled(p) == [task EXCEPT ![p].cancelled = TRUE]

ForegroundStored(p) ==
  LET o == op[p, "foreground"] IN
  /\ o # None /\ o.stage = "stored"
  /\ op' = [op EXCEPT ![p, "foreground"] = None]
  /\ Publish(p, Snapshot(o.document, p))
  /\ IF connect[p] = "registering"
     THEN /\ connect' = [connect EXCEPT ![p] = "settling"]
          /\ task' = [task EXCEPT ![p] = NewTask]
     ELSE /\ connect' = [connect EXCEPT ![p] =
               IF Running(p) THEN "ready" ELSE "failed"]
          /\ UNCHANGED task
  /\ UNCHANGED <<registry, late, faults>>

\* Any error of a registration ends with_store; after the second one it calls close.
ForegroundFails(p) ==
  /\ op' = [op EXCEPT ![p, "foreground"] = None]
  /\ IF connect[p] = "registering"
     THEN connect' = [connect EXCEPT ![p] = "failed"] /\ UNCHANGED task
     ELSE connect' = [connect EXCEPT ![p] = "aborting"] /\ task' = Cancelled(p)
  /\ UNCHANGED <<registry, published>>

\* close of what with_store returned; dropping it does the same.
Close(p) ==
  /\ connect[p] = "ready"
  /\ connect' = [connect EXCEPT ![p] = "closing"]
  /\ task' = Cancelled(p)
  /\ UNCHANGED <<registry, op, late, published, faults>>

\* with_store is dropped: once the task runs, dropping the handle cancels it.
ConnectDropped(p) ==
  /\ connect[p] \in {"registering", "settling", "refreshing"}
  /\ Fault("drop")
  /\ op' = [op EXCEPT ![p, "foreground"] = None]
  /\ late' = late \cup Orphans(op[p, "foreground"])
  /\ IF connect[p] = "registering"
     THEN connect' = [connect EXCEPT ![p] = "failed"] /\ UNCHANGED task
     ELSE connect' = [connect EXCEPT ![p] = "dropped"] /\ task' = Cancelled(p)
  /\ UNCHANGED <<registry, published>>

----------------------------------------------------------------------------
(* run_membership, in the background.                                      *)

\* The biased select: a cancellation, then the heartbeat, then the monitor.
Due(p) ==
  IF task[p].cancelled THEN "remove"
  ELSE IF task[p].heartbeat = 0 THEN "heartbeat"
  ELSE IF task[p].monitor = 0 THEN "monitor" ELSE "nothing"

\* The interval that ticked starts again.
Restarted(t, due) ==
  [t EXCEPT !.heartbeat = IF due = "heartbeat" THEN HeartbeatInterval ELSE @,
            !.monitor = IF due = "monitor" THEN MonitorInterval ELSE @]

Wake(p) ==
  /\ task[p] # None /\ task[p].state = "waiting" /\ Due(p) # "nothing"
  /\ op' = [op EXCEPT ![p, "background"] = NewOp(Due(p))]
  /\ task' = [task EXCEPT ![p] = [Restarted(@, Due(p)) EXCEPT !.state = "running"]]
  /\ UNCHANGED <<registry, late, connect, published, faults>>

BackgroundStored(p) ==
  LET o == op[p, "background"] IN
  /\ o # None /\ o.stage = "stored"
  /\ op' = [op EXCEPT ![p, "background"] = None]
  /\ IF o.action = "remove"
     THEN task' = [task EXCEPT ![p].state = "removed"] /\ UNCHANGED published
     ELSE /\ task' = [task EXCEPT ![p].state = "waiting", ![p].idle = 0]
          /\ Publish(p, Snapshot(o.document, p))
  /\ UNCHANGED <<registry, late, connect, faults>>

\* Mutant of LeaseOver: a failed renewal is always retried.
LeaseOver_never(p) == FALSE

LeaseOver(p) == task[p].idle >= StaleAfter

\* A transient error is tolerated within the lease; any other one ends the task.
BackgroundFails(p, transient) ==
  /\ op' = [op EXCEPT ![p, "background"] = None]
  /\ task' = [task EXCEPT ![p].state =
       IF op[p, "background"].action # "remove" /\ transient /\ ~LeaseOver(p)
       THEN "waiting" ELSE "ended"]
  /\ UNCHANGED <<registry, connect, published>>

----------------------------------------------------------------------------

Fails(p, c, transient) ==
  IF c = "foreground" THEN ForegroundFails(p) ELSE BackgroundFails(p, transient)

\* Fenced, DuplicateMember or Configuration.
Refused(p, c) ==
  /\ op[p, c] # None /\ op[p, c].stage = "refused"
  /\ Fails(p, c, FALSE)
  /\ UNCHANGED <<late, faults>>

\* The CAS conflicted for all attempts.
CasExhausted(p, c) ==
  /\ op[p, c] # None /\ op[p, c].stage = "conflict" /\ op[p, c].attempts = MaxCasAttempts
  /\ Fails(p, c, TRUE)
  /\ UNCHANGED <<late, faults>>

\* The store fails, or operation_timeout ends the mutation; what it sent may arrive.
StoreFails(p, c) ==
  /\ op[p, c] # None /\ op[p, c].stage # "refused"
  /\ Fault("store")
  /\ Fails(p, c, TRUE)
  /\ \/ late' = late \cup Orphans(op[p, c])
     \/ Orphans(op[p, c]) # {} /\ UNCHANGED late

\* The process dies, and with it both of its tasks.
Crash(p) ==
  /\ connect[p] \notin {"new", "failed", "crashed"}
  /\ Fault("crash")
  /\ connect' = [connect EXCEPT ![p] = "crashed"]
  /\ task' = [task EXCEPT ![p] = None]
  /\ op' = [op EXCEPT ![p, "foreground"] = None, ![p, "background"] = None]
  /\ late' = late \cup UNION {Orphans(op[p, c]) : c \in Contexts}
  /\ UNCHANGED <<registry, published>>

----------------------------------------------------------------------------
(* Time.                                                                   *)

Older(r) ==
  IF r = None THEN None
  ELSE [r EXCEPT !.age = [q \in Processes |->
          IF q \in Members(r) THEN Lesser(r.age[q] + 1, StaleAfter) ELSE 0]]

\* The longest a running task can go without a renewal.
LeaseBound == StaleAfter + HeartbeatInterval + OperationTimeout

Less(n) == IF n = 0 THEN 0 ELSE n - 1

\* Nothing is overdue: no mutation beyond its timeout, and no task that should wake.
Tick ==
  /\ \A x \in Ops : op[x] # None => op[x].elapsed < OperationTimeout /\ op[x].stage # "refused"
  /\ \A p \in Processes : task[p] # None /\ task[p].state = "waiting" => Due(p) = "nothing"
  /\ registry' = Older(registry)
  /\ op' = [x \in Ops |-> IF op[x] = None THEN None
                          ELSE [op[x] EXCEPT !.elapsed = @ + 1, !.document = Older(@)]]
  /\ late' = {Older(w) : w \in late}
  /\ task' = [p \in Processes |->
       IF ~Running(p) THEN task[p]
       ELSE [task[p] EXCEPT !.heartbeat = Less(@), !.monitor = Less(@),
                            !.idle = Lesser(@ + 1, LeaseBound + 1)]]
  /\ UNCHANGED <<connect, published, faults>>

----------------------------------------------------------------------------

Init ==
  /\ registry = None
  /\ op = [x \in Ops |-> None]
  /\ late = {}
  /\ connect = [p \in Processes |-> "new"]
  /\ task = [p \in Processes |-> None]
  /\ published = [p \in Processes |-> None]
  /\ faults = 0

Mutation(p, c) == LoadAndChange(p, c) \/ ConditionalWrite(p, c) \/ Retry(p, c)

Ends(p) ==
  \/ ForegroundStored(p) \/ BackgroundStored(p)
  \/ \E c \in Contexts : Refused(p, c) \/ CasExhausted(p, c)

Next ==
  \/ Tick
  \/ \E w \in late : LateWrite(w)
  \/ \E p \in Processes :
       \/ Connect(p) \/ Settle(p) \/ Close(p) \/ ConnectDropped(p)
       \/ Wake(p) \/ Ends(p) \/ Crash(p)
       \/ \E c \in Contexts : Mutation(p, c) \/ StoreFails(p, c)

Spec == Init /\ [][Next]_vars

----------------------------------------------------------------------------

\* Assignments with the same fence generation never overlap, whichever member
\* published them and whenever, although each is computed from its own copy.
SameGenerationDisjoint ==
  \A p, q \in Processes :
    /\ p # q /\ published[p] # None /\ published[q] # None
    /\ published[p].generation = published[q].generation
    => published[p].vbuckets \cap published[q].vbuckets = {}

\* A process that its owner closed without an error stays removed: no earlier write of
\* its own or of another process brings the entry back.
ClosedIsRemoved ==
  \A p \in Processes :
    connect[p] = "closing" /\ task[p] # None /\ task[p].state = "removed" =>
      p \notin Members(registry)

\* A task that cannot renew its entry ends within the stale timeout, a heartbeat and a
\* mutation: so long may its assignment outlive the entry.
StopsInTime ==
  \A p \in Processes : Running(p) => task[p].idle <= LeaseBound

=============================================================================

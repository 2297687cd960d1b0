------------------------------ MODULE MCClient ------------------------------
(***************************************************************************)
(* Small instances of a client, of what its tasks share and of its         *)
(* checkpoint stores, for TLC, beside those of MCGroup.  A behaviour       *)
(* belongs to one scenario, in which the variables of the other components *)
(* rest:                                                                   *)
(*   "calls"    ClientLifecycle: two callers of subscribe() and two of     *)
(*              close(), with the health task;                             *)
(*   "fencing"  TopologyState: two tasks that apply configurations over    *)
(*              two epochs;                                                *)
(*   "impact"   TopologyState: one task and two nodes with two addresses;  *)
(*   "unversioned"  TopologyState: a node of a cluster that may send no    *)
(*              revisions;                                                 *)
(*   "saves"    FileCheckpointStore with two vBuckets, where syncing the   *)
(*              directory may fail;                                        *)
(*   "clear"    the same on a disk that can be synced;                     *)
(*   "two buckets"  one file for the vBuckets of two buckets;              *)
(*   "batches"  CouchbaseCheckpointStore with two vBuckets whose documents *)
(*              move between two nodes;                                    *)
(*   "documents"  the same document for two buckets, one call at a time.   *)
(***************************************************************************)
EXTENDS MCGroup

CONSTANTS driver, prober, n1, n2, Free, v1, v2, b1, b2, d1, d2, Torn

VARIABLES
  \* ClientLifecycle, whose `task' is `runner' here
  closed, cancel, active_subscription, lifecycle, subscription, runner, local_cancel,
  join_lock, joined, subscriber, closer, waits_for, health_task, health_lock,
  health_handle, status, gauge, drops, probes,
  \* TopologyState, whose `published' and `subscription' are `newest' and `routed' here
  configs, state, newest, pending, change, routed,
  \* FileCheckpointStore
  visible, durable, calls, queue, acknowledged, cleared, crashes,
  \* CouchbaseCheckpointStore, whose `calls' and `acknowledged' are those of the file and
  \* whose `task' is `batch'
  document, owner, wire, batch, stored, abandoned, moves

Calls == INSTANCE ClientLifecycle
           WITH Subscribers <- {s1, s2}, Closers <- {c1, c2}, HealthCheck <- TRUE,
                MaxSubscriptions <- 2, MaxDrops <- 1, MaxProbes <- 1, task <- runner

Fencing == INSTANCE TopologyState
             WITH Tasks <- {prober, driver}, Driver <- driver, Nodes <- {n1},
                  VBuckets <- {0}, Unversioned <- FALSE, MaxEpoch <- 1,
                  MaxRevision <- 2, MaxGeneration <- 4, published <- newest, subscription <- routed

Impact == INSTANCE TopologyState
            WITH Tasks <- {driver}, Driver <- driver, Nodes <- {n1, n2},
                 VBuckets <- {0, 1}, Unversioned <- FALSE, MaxEpoch <- 0,
                 MaxRevision <- 2, MaxGeneration <- 3, published <- newest, subscription <- routed

NoRevisions == INSTANCE TopologyState
                 WITH Tasks <- {prober, driver}, Driver <- driver, Nodes <- {n1},
                      VBuckets <- {0}, Unversioned <- TRUE, MaxEpoch <- 0,
                      MaxRevision <- 1, MaxGeneration <- 4, published <- newest, subscription <- routed

Saves == INSTANCE FileCheckpointStore
           WITH VBuckets <- {v1, v2}, Buckets <- {b1}, SyncFails <- TRUE,
                MaxCalls <- 3, MaxCrashes <- 1

Clear == INSTANCE FileCheckpointStore
           WITH VBuckets <- {v1, v2}, Buckets <- {b1}, SyncFails <- FALSE,
                MaxCalls <- 3, MaxCrashes <- 1

OneFile == INSTANCE FileCheckpointStore
             WITH VBuckets <- {v1}, Buckets <- {b1, b2}, SyncFails <- TRUE,
                  MaxCalls <- 3, MaxCrashes <- 1

Batches == INSTANCE CouchbaseCheckpointStore
             WITH VBuckets <- {v1, v2}, Nodes <- {d1, d2}, Buckets <- {b1},
                  RoutingAttempts <- 2, MaxConcurrency <- 1, Concurrent <- TRUE,
                  MaxCalls <- 2, MaxMoves <- 1, task <- batch

Documents == INSTANCE CouchbaseCheckpointStore
               WITH VBuckets <- {v1}, Nodes <- {d1, d2}, Buckets <- {b1, b2},
                    RoutingAttempts <- 2, MaxConcurrency <- 1, Concurrent <- FALSE,
                    MaxCalls <- 2, MaxMoves <- 1, task <- batch

callVars == <<closed, cancel, active_subscription, lifecycle, subscription, runner,
              local_cancel, join_lock, joined, subscriber, closer, waits_for,
              health_task, health_lock, health_handle, status, gauge, drops, probes>>
topologyVars == <<configs, state, newest, pending, change, routed>>
fileVars == <<visible, durable, queue, cleared, crashes>>
documentVars == <<document, owner, wire, batch, stored, abandoned, moves>>
storeVars == <<calls, acknowledged, fileVars, documentVars>>
clientVars == <<callVars, topologyVars, storeVars>>

CallsRest ==
  /\ closed = None /\ cancel = None /\ active_subscription = None /\ lifecycle = None
  /\ subscription = None /\ runner = None /\ local_cancel = None /\ join_lock = None
  /\ joined = None /\ subscriber = None /\ closer = None /\ waits_for = None
  /\ health_task = None /\ health_lock = None /\ health_handle = None
  /\ status = None /\ gauge = None /\ drops = None /\ probes = None

TopologyRests ==
  /\ configs = None /\ state = None /\ newest = None
  /\ pending = None /\ change = None /\ routed = None

FileRests == /\ visible = None /\ durable = None /\ queue = None
             /\ cleared = None /\ crashes = None

DocumentsRest ==
  /\ document = None /\ owner = None /\ wire = None /\ batch = None
  /\ stored = None /\ abandoned = None /\ moves = None

StoresRest == FileRests /\ DocumentsRest /\ calls = None /\ acknowledged = None

ClientInit ==
  \/ GroupInit /\ CallsRest /\ TopologyRests /\ StoresRest
  \/ scenario = "calls" /\ Calls!Init /\ GroupRests /\ TopologyRests /\ StoresRest
  \/ /\ \/ scenario = "fencing" /\ Fencing!Init
        \/ scenario = "impact" /\ Impact!Init
        \/ scenario = "unversioned" /\ NoRevisions!Init
     /\ GroupRests /\ CallsRest /\ StoresRest
  \/ /\ \/ scenario = "saves" /\ Saves!Init /\ DocumentsRest
        \/ scenario = "clear" /\ Clear!Init /\ DocumentsRest
        \/ scenario = "two buckets" /\ OneFile!Init /\ DocumentsRest
        \/ scenario = "batches" /\ Batches!Init /\ FileRests
        \/ scenario = "documents" /\ Documents!Init /\ FileRests
     /\ GroupRests /\ CallsRest /\ TopologyRests

\* Calls that overlap, or that a crash may hit, change something.
NoLoads == \A i \in DOMAIN calls' : calls'[i].kind # "load"

\* Of the calls that overlap, the first is the batch.
OneBatch == \A i \in DOMAIN calls' : i > 1 => calls'[i].vbs \in {{v1}, {v2}}

ClientNext ==
  \/ GroupNext /\ UNCHANGED clientVars
  \/ /\ scenario = "calls" /\ Calls!Next
     /\ UNCHANGED <<scenario, groupVars, topologyVars, storeVars>>
  \/ /\ \/ scenario = "fencing" /\ Fencing!Next
        \/ scenario = "impact" /\ Impact!Next
        \/ scenario = "unversioned" /\ NoRevisions!Next
     /\ UNCHANGED <<scenario, groupVars, callVars, storeVars>>
  \/ /\ \/ scenario = "saves" /\ Saves!Next /\ NoLoads
        \/ scenario = "clear" /\ Clear!Next /\ NoLoads
        \/ scenario = "two buckets" /\ OneFile!Next
     /\ UNCHANGED <<scenario, groupVars, callVars, topologyVars, documentVars>>
  \/ /\ \/ scenario = "batches" /\ Batches!Next /\ NoLoads /\ OneBatch
        \/ scenario = "documents" /\ Documents!Next
     /\ UNCHANGED <<scenario, groupVars, callVars, topologyVars, fileVars>>

ClientSpec == ClientInit /\ [][ClientNext]_<<scenario, groupVars, clientVars>>

\* vBuckets, the nodes of their documents, processes and callers are interchangeable.
\* (The configuration uses the names of processes for vBuckets and those of callers for
\* nodes, so that there are fewer permutations.)
ClientSymmetry == Symmetry \cup Permutations({v1, v2}) \cup Permutations({d1, d2})

-----------------------------------------------------------------------------

\* "A client deliberately owns at most one active subscription", whoever fails, drops or
\* closes; its reservation is held exactly while a call or a task has it.
OneActiveSubscription ==
  scenario = "calls" => Calls!OneActiveSubscription /\ Calls!ReservationHeld

\* When DcpClient::close has returned, no subscription task runs and none will start.
CloseLeavesNothingRunning == scenario = "calls" => Calls!CloseLeavesNothingRunning

\* Snapshots are ordered by generation exactly as their configurations are, and the
\* TopologyChange of apply() names what has moved and nothing else.
GenerationsFollowRevisions ==
  /\ scenario = "fencing" => Fencing!GenerationsFollowRevisions
  /\ scenario = "impact" => Impact!ImpactIsExact
  /\ scenario = "unversioned" => NoRevisions!ImpactIsExact

\* What a store call that returned without an error did is so.  A save of the file is lost
\* neither by a crash nor by a batch of other vBuckets or a late save whose caller gave up,
\* and after a clear no crash brings a position back, on a disk that can be synced.  A
\* batch of documents reached the owner of every one of them, also when they moved
\* meanwhile, and has nothing on its way but what it gave up on; with one call at a time no
\* document is lost or replaced by an older one, unless a request for it was given up on.
SavedSurvives ==
  /\ scenario = "saves" => Saves!SavedSurvives
  /\ scenario = "two buckets" => OneFile!SavedSurvives
  /\ scenario = "clear" => Clear!ClearedIsGone
  /\ scenario = "batches" => Batches!OkIsStored /\ Batches!QuietAfterReturn
  /\ scenario = "documents" => Documents!SavedSurvives

=============================================================================

------------------------------ MODULE MCCalls -------------------------------
(***************************************************************************)
(* Calls that wait for a task, a lock or a permit come back: small         *)
(* instances for TLC.  A behaviour belongs to one scenario, in which the   *)
(* other components stay in their initial state:                           *)
(*   "client"     ClientLifecycle: one subscription, two callers of        *)
(*                close(), and the health task;                            *)
(*   "pods"       KubernetesMembership: two callers of close, which may    *)
(*                give up;                                                 *)
(*   "file"       FileCheckpointStore: two calls and a crash;              *)
(*   "documents"  CouchbaseCheckpointStore: two documents, one permit.     *)
(***************************************************************************)
EXTENDS Integers

CONSTANTS s1, c1, c2, v1, v2, b1, n1, n2, Free, None, Error, Torn

VARIABLES
  scenario,
  \* ClientLifecycle
  closed, cancel, active_subscription, lifecycle, subscription, task, local_cancel,
  join_lock, joined, subscriber, closer, waits_for, health_task, health_lock,
  health_handle, status, gauge, drops, probes,
  \* KubernetesMembership, whose `task' is `membership'
  history, watcher, process, published, membership, call, errors,
  \* FileCheckpointStore
  visible, durable, calls, queue, acknowledged, cleared, crashes,
  \* CouchbaseCheckpointStore, whose `calls', `task' and `acknowledged' are `batches',
  \* `batch' and `confirmed'
  document, owner, wire, batches, batch, stored, abandoned, confirmed, moves

clientVars == <<closed, cancel, active_subscription, lifecycle, subscription, task,
                local_cancel, join_lock, joined, subscriber, closer, waits_for,
                health_task, health_lock, health_handle, status, gauge, drops, probes>>
podVars == <<history, watcher, process, published, membership, call, errors>>
fileVars == <<visible, durable, calls, queue, acknowledged, cleared, crashes>>
documentVars == <<document, owner, wire, batches, batch, stored, abandoned, confirmed, moves>>
vars == <<scenario, clientVars, podVars, fileVars, documentVars>>

Client == INSTANCE ClientLifecycle
            WITH Subscribers <- {s1}, Closers <- {c1, c2}, HealthCheck <- TRUE,
                 MaxSubscriptions <- 1, MaxDrops <- 1, MaxProbes <- 1

Pods == INSTANCE KubernetesMembership
          WITH PodNames <- {1}, Uids <- {1}, Consumers <- {1}, Callers <- {c1, c2},
               VBucketCount <- 1, MaxVBuckets <- 4, MaxChanges <- 2, MaxErrors <- 2,
               InitialPods <- {[n \in {1} |-> None]},
               task <- membership

File == INSTANCE FileCheckpointStore
          WITH VBuckets <- {v1}, Buckets <- {b1}, SyncFails <- TRUE, MaxCalls <- 2,
               MaxCrashes <- 1

Documents == INSTANCE CouchbaseCheckpointStore
               WITH VBuckets <- {v1, v2}, Nodes <- {n1, n2}, Buckets <- {b1},
                    RoutingAttempts <- 2, MaxConcurrency <- 1, Concurrent <- FALSE,
                    MaxCalls <- 1, MaxMoves <- 0, calls <- batches, task <- batch,
                    acknowledged <- confirmed

Init ==
  /\ scenario \in {"client", "pods", "file", "documents"}
  /\ Client!Init /\ Pods!Init /\ File!Init /\ Documents!Init
  /\ scenario # "documents" => owner = [vb \in {v1, v2} |-> n1]

\* A step A of one component.
ClientStep(A) ==
  scenario = "client" /\ A /\ UNCHANGED <<scenario, podVars, fileVars, documentVars>>
PodStep(A) ==
  scenario = "pods" /\ A /\ UNCHANGED <<scenario, clientVars, fileVars, documentVars>>
FileStep(A) ==
  scenario = "file" /\ A /\ UNCHANGED <<scenario, clientVars, podVars, documentVars>>
DocumentStep(A) ==
  scenario = "documents" /\ A /\ UNCHANGED <<scenario, clientVars, podVars, fileVars>>

\* A caller gives up, or the health task probes.
DropsOrProbes == drops' = 0 \/ probes' = 0

Next ==
  \/ ClientStep(Client!Next /\ DropsOrProbes) \/ PodStep(Pods!Next)
  \/ FileStep(File!Next) \/ DocumentStep(Documents!Next)

-----------------------------------------------------------------------------
(* The fairness the components state: ClientLifecycle!Fairness and the     *)
(* FairSpec of the others.  Their steps are numbered: only one component   *)
(* takes steps, so fairness of the i-th step of any is fairness of that    *)
(* step of each.                                                           *)

WeakClient(i) ==
  CASE i = 1 -> (cancel \/ local_cancel[1]) /\ Client!TaskLeaves(1)
    [] i = 2 -> Client!TaskReleases(1) [] i = 3 -> Client!TaskEnds(1)
    [] i = 4 -> Client!DiscardEnds(s1)
    [] i = 5 -> Client!WaitEnds(c1) [] i = 6 -> Client!WaitEnds(c2)
    [] i = 7 -> Client!HealthJoined(c1) [] i = 8 -> Client!HealthJoined(c2)
    [] i = 9 -> Client!CloseReturns(c1) [] i = 10 -> Client!CloseReturns(c2)
    [] i = 11 -> Client!HealthReports [] i = 12 -> Client!HealthStops
StrongClient(i) ==
  CASE i = 1 -> Client!WaitBegins(c1) [] i = 2 -> Client!WaitBegins(c2)
    [] i = 3 -> Client!HealthWait(c1) [] i = 4 -> Client!HealthWait(c2)
    [] i = 5 -> Client!ClientClose(c1) [] i = 6 -> Client!ClientClose(c2)

WeakPods(i) ==
  CASE i = 1 -> Pods!Receive(1) [] i = 2 -> Pods!TaskCancelled(1)
    [] i = 3 -> Pods!StartupTimeout(1)
    [] i = 4 -> Pods!CloseLocks(1, c1) [] i = 5 -> Pods!CloseLocks(1, c2)
    [] i = 6 -> Pods!CloseJoins(1, c1) [] i = 7 -> Pods!CloseJoins(1, c2)
    [] OTHER -> FALSE

WeakFile(i) == i = 1 /\ (File!ReadDocuments \/ File!ReplaceFile \/ File!SyncDirectory)

Operation(vb) ==
  <<1, vb>> \in Documents!Tasks /\ (Documents!Step(<<1, vb>>) \/ Documents!GiveUp(<<1, vb>>))
WeakDocuments(i) ==
  CASE i = 1 -> 1 \in DOMAIN batches /\ Documents!Return(1)
    [] i = 2 -> Operation(v1) [] i = 3 -> Operation(v2) [] OTHER -> FALSE

CallSpec ==
  /\ Init /\ [][Next]_vars
  /\ \A i \in 1..12 : WF_vars(\/ ClientStep(WeakClient(i)) \/ PodStep(WeakPods(i))
                              \/ FileStep(WeakFile(i)) \/ DocumentStep(WeakDocuments(i)))
  /\ \A i \in 1..6 : SF_vars(ClientStep(StrongClient(i)))

-----------------------------------------------------------------------------

\* Every call returns unless its caller drops it: close() of a client whose streams shut
\* down and of a Kubernetes membership, although another caller waits for the same task or
\* gave up while it held the lock; a call of the file store behind the gate, whatever the
\* callers before it do; and a batch of documents whose operations share one permit.
CallsReturn ==
  /\ Client!CloseTerminates
  /\ Pods!CloseReturns
  /\ File!CallsReturn
  /\ Documents!CallsReturn

=============================================================================

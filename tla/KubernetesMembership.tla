------------------------ MODULE KubernetesMembership ------------------------
(***************************************************************************)
(* Pod-watch membership (rust-dcp-membership-kubernetes).  Each process    *)
(* runs in one pod incarnation and follows the pods of its group through a *)
(* kube watcher: a list (Init, InitApply, InitDone) and then incremental   *)
(* events, with a new list whenever the watch cannot be resumed.  From     *)
(* what it has seen it computes, on its own, its part of the vBuckets.     *)
(*                                                                         *)
(* The API server keeps every state the pods were in; a watcher is at one  *)
(* of these revisions.  A process is named by the UID of its pod.          *)
(***************************************************************************)
EXTENDS Assignment, Sequences, FiniteSets, SequencesExt

CONSTANTS
  PodNames, Uids,       \* sets of integers: names and UIDs are ordered strings
  Consumers,            \* the UIDs of the pods whose processes are followed
  Callers,              \* tasks that may call close
  VBucketCount,         \* vbucket_count
  MaxChanges,           \* changes of the pods in a behaviour
  MaxErrors,            \* watcher errors, stream ends and crashes in a behaviour
  InitialPods           \* the pods a behaviour may start with

VARIABLES
  history,              \* each revision: the pods, and the one that was changed
  watcher,              \* for each process, its kube watcher
  process,              \* for each process, PodMembershipState and its outcome
  published,            \* for each process, the snapshot in its watch channel, or None
  task,                 \* for each process, what close works with
  call,                 \* for each process and caller, its close call
  errors

vars == <<history, watcher, process, published, task, call, errors>>

NoPods == [n \in PodNames |-> None]
Pods(revision) == history[revision].pods
Latest == Len(history)

Uid(pods, n) == IF pods[n] = None THEN None ELSE pods[n].uid

----------------------------------------------------------------------------
(* The pods of the group (external).                                       *)

Change(n, pod) ==
  /\ Latest <= MaxChanges
  /\ history' = Append(history, [pods |-> [Pods(Latest) EXCEPT ![n] = pod], name |-> n])
  /\ UNCHANGED <<watcher, process, published, task, call, errors>>

UsedUids == {Uid(Pods(i), n) : i \in 1..Latest, n \in PodNames}

\* Two pods may be created within one tick of the creation timestamp.
PodCreated(n) ==
  /\ Pods(Latest)[n] = None
  /\ \E uid \in Uids \ UsedUids, created \in {1, 2} :
       /\ \A i \in 1..Latest, m \in PodNames : Pods(i)[m] # None => Pods(i)[m].created <= created
       /\ Change(n, [uid |-> uid, created |-> created, ready |-> FALSE, terminating |-> FALSE])

PodReadiness(n) ==
  LET pod == Pods(Latest)[n] IN
  pod # None /\ Change(n, [pod EXCEPT !.ready = ~@])

PodTerminates(n) ==
  LET pod == Pods(Latest)[n] IN
  pod # None /\ ~pod.terminating /\ Change(n, [pod EXCEPT !.terminating = TRUE])

PodDeleted(n) ==
  LET pod == Pods(Latest)[n] IN
  pod # None /\ pod.terminating /\ Change(n, None)

----------------------------------------------------------------------------
(* PodMembershipState (model.rs).                                          *)

Effective(pod) == pod # None /\ pod.ready /\ ~pod.terminating

NewState(n) ==
  [status |-> "starting", name |-> n, generation |-> 0, active |-> NoPods,
   initializing |-> None, initialized |-> FALSE, published_once |-> FALSE]

EffectiveOnly(pods) == [n \in PodNames |-> IF Effective(pods[n]) THEN pods[n] ELSE None]

Before(pods, m, n) ==
  \/ pods[m].created < pods[n].created
  \/ pods[m].created = pods[n].created /\ pods[m].uid < pods[n].uid
  \/ pods[m].created = pods[n].created /\ pods[m].uid = pods[n].uid /\ m < n

Present(pods) == {n \in PodNames : pods[n] # None}

MemberNumber(pods, n) == 1 + Cardinality({m \in Present(pods) : Before(pods, m, n)})

\* What apply returns: the new state, and a snapshot, None or Error.
Snapshot(s, p) ==
  LET local == s.active[s.name]
      vbuckets == Balanced(VBucketCount, MemberNumber(s.active, s.name),
                           Cardinality(Present(s.active))) IN
  IF local = None
  THEN [state |-> s, result |-> IF s.published_once THEN Error ELSE None]
  ELSE IF local.uid # p \/ vbuckets = Error THEN [state |-> s, result |-> Error]
  ELSE [state |-> [s EXCEPT !.published_once = TRUE],
        result |-> [generation |-> s.generation, vbuckets |-> vbuckets, members |-> s.active]]

UniqueUids(pods) == \A m, n \in Present(pods) : pods[m].uid = pods[n].uid => m = n

Commit(s, p, next) ==
  IF ~UniqueUids(next) THEN [state |-> s, result |-> Error]
  ELSE IF next = s.active THEN [state |-> s, result |-> None]
  ELSE Snapshot([s EXCEPT !.active = next, !.generation = @ + 1], p)

Incremental(s) == s.initialized /\ s.initializing = None

ApplyInit(s) == [state |-> [s EXCEPT !.initializing = NoPods], result |-> None]

ApplyInitApply(s, n, pod) ==
  IF s.initializing = None \/ s.initializing[n] # None THEN [state |-> s, result |-> Error]
  ELSE [state |-> [s EXCEPT !.initializing[n] = IF Effective(pod) THEN pod ELSE None],
        result |-> None]

ApplyInitDone(s, p) ==
  IF s.initializing = None THEN [state |-> s, result |-> Error]
  ELSE Commit([s EXCEPT !.initializing = None, !.initialized = TRUE], p, s.initializing)

ApplyApply(s, p, n, pod) ==
  IF ~Incremental(s) THEN [state |-> s, result |-> Error]
  ELSE Commit(s, p, [s.active EXCEPT ![n] = IF Effective(pod) THEN pod ELSE None])

\* Only the incarnation that was deleted is removed.
ApplyDelete(s, p, n, uid) ==
  IF ~Incremental(s) THEN [state |-> s, result |-> Error]
  ELSE Commit(s, p, IF Uid(s.active, n) = uid THEN [s.active EXCEPT ![n] = None] ELSE s.active)

----------------------------------------------------------------------------
(* The runtime: with_source, run_membership and close (runtime.rs).        *)

Off == [phase |-> "off", at |-> 0, left |-> {}, seen |-> 0]
NoTask == [open |-> FALSE, cancelled |-> FALSE, lock |-> None, handle |-> FALSE, terminal |-> None]

\* with_source, in a container of the pod.
Connect(p) ==
  /\ process[p] = None
  /\ \E n \in PodNames :
       /\ Uid(Pods(Latest), n) = p
       /\ process' = [process EXCEPT ![p] = NewState(n)]
  /\ watcher' = [watcher EXCEPT ![p] = [Off EXCEPT !.phase = "empty"]]
  /\ UNCHANGED <<history, published, task, call, errors>>

Polls(p) ==
  /\ process[p] # None
  /\ \/ process[p].status = "starting"
     \/ process[p].status = "running" /\ ~task[p].cancelled

\* The next event of the stream: wait_for_initial_snapshot returns on the first snapshot,
\* and the task that run_membership is publishes the ones after it.
Receives(p, applied, w) ==
  /\ Polls(p)
  /\ watcher' = [watcher EXCEPT ![p] = w]
  /\ IF applied.result = Error
     THEN /\ process' = [process EXCEPT ![p] = [applied.state EXCEPT !.status = "failed"]]
          /\ UNCHANGED <<published, task>>
     ELSE IF applied.result = None
     THEN /\ process' = [process EXCEPT ![p] = applied.state]
          /\ UNCHANGED <<published, task>>
     ELSE /\ process' = [process EXCEPT ![p] = [applied.state EXCEPT !.status = "running"]]
          /\ published' = [published EXCEPT ![p] = applied.result]
          /\ task' = IF process[p].status = "running" THEN task
                     ELSE [task EXCEPT ![p] = [NoTask EXCEPT !.open = TRUE, !.handle = TRUE]]
  /\ UNCHANGED <<history, call, errors>>

\* The list is of the newest revision.
WatchInit(p) ==
  /\ watcher[p].phase = "empty"
  /\ Receives(p, ApplyInit(process[p]),
              [watcher[p] EXCEPT !.phase = "listing", !.at = Latest, !.left = Present(Pods(Latest))])

WatchInitApply(p) ==
  /\ watcher[p].phase = "listing"
  /\ \E n \in watcher[p].left :
       Receives(p, ApplyInitApply(process[p], n, Pods(watcher[p].at)[n]),
                [watcher[p] EXCEPT !.left = @ \ {n}])

WatchInitDone(p) ==
  /\ watcher[p].phase = "listing" /\ watcher[p].left = {}
  /\ Receives(p, ApplyInitDone(process[p], p),
              [watcher[p] EXCEPT !.phase = "watch", !.seen = watcher[p].at])

WatchChange(p) ==
  LET w == watcher[p]
      n == history[w.at + 1].name
      pod == Pods(w.at + 1)[n]
      next == [w EXCEPT !.at = @ + 1, !.seen = w.at + 1] IN
  /\ w.phase = "watch" /\ w.at < Latest
  /\ IF pod = None
     THEN Receives(p, ApplyDelete(process[p], p, n, Uid(Pods(w.at), n)), next)
     ELSE Receives(p, ApplyApply(process[p], p, n, pod), next)

CountError == errors < MaxErrors /\ errors' = errors + 1

\* A recoverable error: after the backoff the watch goes on where it was, or with a new list.
WatchError(p) ==
  /\ Polls(p) /\ CountError
  /\ \E phase \in {"empty"} \cup (IF watcher[p].phase = "watch" THEN {"watch"} ELSE {}) :
       watcher' = [watcher EXCEPT ![p].phase = phase]
  /\ UNCHANGED <<history, process, published, task, call>>

WatchEnded(p) ==
  /\ Polls(p) /\ CountError
  /\ process' = [process EXCEPT ![p].status = "failed"]
  /\ UNCHANGED <<history, watcher, published, task, call>>

StartupTimeout(p) ==
  /\ process[p] # None /\ process[p].status = "starting"
  /\ process' = [process EXCEPT ![p].status = "failed"]
  /\ UNCHANGED <<history, watcher, published, task, call, errors>>

TaskCancelled(p) ==
  /\ process[p] # None /\ process[p].status = "running" /\ task[p].cancelled
  /\ process' = [process EXCEPT ![p].status = "cancelled"]
  /\ UNCHANGED <<history, watcher, published, task, call, errors>>

\* The process ends, wherever it is; its container may be started again.
Exit(p) ==
  /\ process[p] # None /\ CountError
  /\ process' = [process EXCEPT ![p] = None]
  /\ watcher' = [watcher EXCEPT ![p] = Off]
  /\ published' = [published EXCEPT ![p] = None]
  /\ task' = [task EXCEPT ![p] = NoTask]
  /\ call' = [call EXCEPT ![p] = [c \in Callers |-> "idle"]]
  /\ UNCHANGED history

CloseBegins(p, c) ==
  /\ task[p].open /\ call[p][c] = "idle"
  /\ task' = [task EXCEPT ![p].cancelled = TRUE]
  /\ call' = [call EXCEPT ![p][c] = "locking"]
  /\ UNCHANGED <<history, watcher, process, published, errors>>

CloseLocks(p, c) ==
  /\ call[p][c] = "locking" /\ task[p].lock = None
  /\ IF task[p].terminal # None
     THEN call' = [call EXCEPT ![p][c] = task[p].terminal] /\ UNCHANGED task
     ELSE IF ~task[p].handle THEN call' = [call EXCEPT ![p][c] = "ok"] /\ UNCHANGED task
     ELSE /\ call' = [call EXCEPT ![p][c] = "joining"]
          /\ task' = [task EXCEPT ![p].lock = c, ![p].handle = FALSE]
  /\ UNCHANGED <<history, watcher, process, published, errors>>

Outcome(p) == IF process[p].status = "failed" THEN "error" ELSE "ok"

CloseJoins(p, c) ==
  /\ call[p][c] = "joining" /\ process[p].status \in {"failed", "cancelled"}
  /\ call' = [call EXCEPT ![p][c] = Outcome(p)]
  /\ task' = [task EXCEPT ![p].lock = None, ![p].terminal = Outcome(p)]
  /\ UNCHANGED <<history, watcher, process, published, errors>>

\* The future of a close call is dropped: the handle it took is gone.
CloseDropped(p, c) ==
  /\ call[p][c] \in {"locking", "joining"}
  /\ call' = [call EXCEPT ![p][c] = "dropped"]
  /\ task' = [task EXCEPT ![p].lock = IF @ = c THEN None ELSE @]
  /\ UNCHANGED <<history, watcher, process, published, errors>>

\* KubernetesMembership is dropped, which no call outlives.
MembershipDropped(p) ==
  /\ task[p].open /\ \A c \in Callers : call[p][c] \notin {"locking", "joining"}
  /\ task' = [task EXCEPT ![p].open = FALSE, ![p].cancelled = TRUE]
  /\ UNCHANGED <<history, watcher, process, published, call, errors>>

----------------------------------------------------------------------------
Init ==
  /\ \E pods \in InitialPods : history = <<[pods |-> pods, name |-> None]>>
  /\ watcher = [p \in Consumers |-> Off]
  /\ process = [p \in Consumers |-> None]
  /\ published = [p \in Consumers |-> None]
  /\ task = [p \in Consumers |-> NoTask]
  /\ call = [p \in Consumers |-> [c \in Callers |-> "idle"]]
  /\ errors = 0

Receive(p) == WatchInit(p) \/ WatchInitApply(p) \/ WatchInitDone(p) \/ WatchChange(p)

Next ==
  \/ \E n \in PodNames : PodCreated(n) \/ PodReadiness(n) \/ PodTerminates(n) \/ PodDeleted(n)
  \/ \E p \in Consumers :
       \/ Connect(p) \/ Receive(p) \/ WatchError(p) \/ WatchEnded(p) \/ StartupTimeout(p)
       \/ TaskCancelled(p) \/ Exit(p) \/ MembershipDropped(p)
       \/ \E c \in Callers :
            CloseBegins(p, c) \/ CloseLocks(p, c) \/ CloseJoins(p, c) \/ CloseDropped(p, c)

Spec == Init /\ [][Next]_vars

\* The watcher and the Tokio tasks run; the lock is fair, and a pod, a fault, a start or a
\* call may be the last one.
FairSpec ==
  /\ Spec
  /\ \A p \in Consumers :
       /\ WF_vars(Receive(p)) /\ WF_vars(TaskCancelled(p)) /\ WF_vars(StartupTimeout(p))
       /\ \A c \in Callers : WF_vars(CloseLocks(p, c)) /\ WF_vars(CloseJoins(p, c))

----------------------------------------------------------------------------
(* Properties.                                                             *)

Running(p) == process[p] # None /\ process[p].status = "running"

\* A list is applied as a whole: while a process runs, its snapshot is the set of ready,
\* nonterminating pods, by UID, of the last revision its watcher has completed (apply,
\* commit: InitApply stays invisible until InitDone, and a stale delete removes nothing).
SnapshotIsView ==
  \A p \in Consumers : Running(p) =>
    /\ published[p].members = EffectiveOnly(Pods(watcher[p].seen))
    /\ \E n \in PodNames : Uid(published[p].members, n) = p

\* Processes that have the same pods in their snapshots split the vBuckets: no two own the
\* same one, and if all of these pods are such processes then all are owned (snapshot).
SameViewPartition ==
  \A p \in Consumers : Running(p) =>
    LET group == {q \in Consumers : Running(q) /\ published[q].members = published[p].members} IN
    /\ \A q \in group \ {p} : published[p].vbuckets \cap published[q].vbuckets = {}
    /\ Cardinality(group) = Cardinality(Present(published[p].members)) =>
         UNION {published[q].vbuckets : q \in group} = 0..(VBucketCount - 1)

Reported(p, c) ==
  process[p].status \in {"failed", "cancelled"} /\ call[p][c] = Outcome(p)

\* Nobody will know how the task ended: the call that took its handle was given up.
HandleLost(p) == ~task[p].handle /\ task[p].lock = None /\ task[p].terminal = None

\* close returns when the task has ended, and every call reports the failure of a task
\* that failed, also to callers that waited while another call was given up, unless that
\* one had taken the handle (close).
CloseReports ==
  \A p \in Consumers, c \in Callers :
    call[p][c] \in {"ok", "error"} => Reported(p, c) \/ HandleLost(p)

\* A close call returns, unless the process ends or the caller gives it up (close).
CloseReturns ==
  \A p \in Consumers, c \in Callers :
    call[p][c] \in {"locking", "joining"} ~> call[p][c] \notin {"locking", "joining"}

=============================================================================

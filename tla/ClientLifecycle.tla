--------------------------- MODULE ClientLifecycle ---------------------------
(***************************************************************************)
(* The life of a DcpClient (client.rs): subscribe() with its reservation,  *)
(* the subscription tasks and their completion, close() of the client and  *)
(* of a subscription by several callers, the health task, and the gauges   *)
(* and the health status they all write (observability.rs).                *)
(*                                                                         *)
(* A caller may drop a future at any await.  What a subscription does      *)
(* while it runs is the module Subscription.                               *)
(***************************************************************************)
EXTENDS Integers, FiniteSets

CONSTANTS
  Subscribers,        \* callers of subscribe()
  Closers,            \* callers of DcpClient::close and DcpSubscription::close
  Free,               \* a lock nobody holds, nothing to wait for
  HealthCheck,        \* health_check.enabled
  MaxSubscriptions,   \* bound on activated subscriptions
  MaxDrops,           \* bound on dropped futures
  MaxProbes           \* bound on health probes

Subscriptions == 1..MaxSubscriptions

VARIABLES
  closed, cancel, active_subscription, lifecycle,   \* ClientInner
  subscription,       \* the control stored in the client, 0 before the first
  task,               \* phase of each subscription task
  local_cancel,       \* cancellation of each subscription
  join_lock, joined,  \* SubscriptionControl::join: its lock, and whether it is taken
  subscriber,         \* where each subscribe() call is
  closer, waits_for,  \* where each close() call is, and its subscription
  health_task, health_lock, health_handle,
  status,             \* DcpHealthStatus
  gauge,              \* active_connections is not zero
  drops, probes       \* bounds

client == <<closed, cancel, active_subscription, lifecycle, subscription>>
tasks == <<task, local_cancel, join_lock, joined>>
health == <<health_task, health_lock, health_handle, probes>>
closers == <<closer, waits_for>>
vars == <<client, tasks, subscriber, closers, health, status, gauge, drops>>

\* A subscription task that still owns streams or its coordinator.
Live == {i \in Subscriptions : task[i] \in {"running", "reopening", "hung", "finishing"}}

----------------------------------------------------------------------------
(* subscribe().                                                            *)

\* Mutant of ActiveReservation: a store instead of the compare-exchange.
ActiveReservation_store == active_subscription' = TRUE

\* ActiveReservation::acquire.
ActiveReservation ==
  /\ ~active_subscription
  /\ active_subscription' = TRUE

\* validate_subscription_spec and the reservation.  A refused call changes nothing.
SubscribeBegins(p) ==
  /\ subscriber[p] = "idle"
  /\ ~closed
  /\ Cardinality({i \in Subscriptions : task[i] = "none"}) > 0
  /\ ActiveReservation
  /\ subscriber' = [subscriber EXCEPT ![p] = "prepare"]
  /\ UNCHANGED <<closed, cancel, lifecycle, subscription, tasks, closers, health,
                 status, gauge, drops>>

\* prepare_subscription has opened the streams and waits for the lifecycle lock.
Prepared(p) ==
  /\ subscriber[p] = "prepare"
  /\ subscriber' = [subscriber EXCEPT ![p] = "lock"]
  /\ UNCHANGED <<client, tasks, closers, health, status, gauge, drops>>

\* Drop of an uncommitted ActiveReservation.
ReleaseReservation == active_subscription' = FALSE

\* Preparation fails, or the caller drops the future before the activation.
SubscribeFails(p) ==
  /\ \/ subscriber[p] = "prepare" /\ UNCHANGED drops
     \/ subscriber[p] \in {"prepare", "lock", "discard", "hung"} /\ drops < MaxDrops
        /\ drops' = drops + 1
  /\ subscriber' = [subscriber EXCEPT ![p] = "idle"]
  /\ ReleaseReservation
  /\ lifecycle' = IF lifecycle = p THEN Free ELSE lifecycle
  /\ UNCHANGED <<closed, cancel, subscription, tasks, closers, health, status, gauge>>

\* Under the lifecycle lock: activate_subscription spawns the task, publishes its
\* control and sets the gauges, and the reservation is the task's from now on.
Activate(p) ==
  \E i \in Subscriptions :
    /\ subscriber[p] = "lock"
    /\ lifecycle = Free
    /\ ~closed
    /\ task[i] = "none" /\ \A j \in 1..(i - 1) : task[j] # "none"
    /\ task' = [task EXCEPT ![i] = "running"]
    /\ subscription' = i
    /\ gauge' = TRUE
    /\ status' = "Healthy"
    /\ subscriber' = [subscriber EXCEPT ![p] = "idle"]
    /\ UNCHANGED <<closed, cancel, active_subscription, lifecycle, local_cancel,
                   join_lock, joined, closers, health, drops>>

\* The client was closed meanwhile: the streams are shut down under the lock ...
DiscardBegins(p) ==
  /\ subscriber[p] = "lock"
  /\ lifecycle = Free
  /\ closed
  /\ lifecycle' = p
  /\ subscriber' = [subscriber EXCEPT ![p] = "discard"]
  /\ UNCHANGED <<closed, cancel, active_subscription, subscription, tasks,
                 closers, health, status, gauge, drops>>

\* ... which a stream that is full never does (see Subscription), ...
DiscardHangs(p) ==
  /\ subscriber[p] = "discard"
  /\ subscriber' = [subscriber EXCEPT ![p] = "hung"]
  /\ UNCHANGED <<client, tasks, closers, health, status, gauge, drops>>

\* ... and subscribe() returns Cancelled.
DiscardEnds(p) ==
  /\ subscriber[p] = "discard"
  /\ lifecycle' = Free
  /\ subscriber' = [subscriber EXCEPT ![p] = "idle"]
  /\ ReleaseReservation
  /\ UNCHANGED <<closed, cancel, subscription, tasks, closers, health, status,
                 gauge, drops>>

----------------------------------------------------------------------------
(* The subscription task: run_subscription and its guard.                  *)

\* A stream error, a failed shutdown or a failed attempt to reopen is reported.
TaskReports(i) ==
  /\ task[i] \in {"running", "reopening"}
  /\ status # "Degraded" /\ status' = "Degraded"
  /\ UNCHANGED <<client, tasks, subscriber, closers, health, gauge, drops>>

\* The generation is closed to be reopened, ...
TaskReconnects(i) ==
  /\ task[i] = "running"
  /\ task' = [task EXCEPT ![i] = "reopening"]
  /\ gauge' = FALSE
  /\ status' \in {status, "Degraded"}
  /\ UNCHANGED <<client, local_cancel, join_lock, joined, subscriber, closers,
                 health, drops>>

\* ... and accept_reopened_generation installs the new one.
TaskReopens(i) ==
  /\ task[i] = "reopening"
  /\ task' = [task EXCEPT ![i] = "running"]
  /\ gauge' = TRUE
  /\ status' = "Healthy"
  /\ UNCHANGED <<client, local_cancel, join_lock, joined, subscriber, closers,
                 health, drops>>

\* The streams of the generation do not shut down.
TaskHangs(i) ==
  /\ task[i] = "running"
  /\ task' = [task EXCEPT ![i] = "hung"]
  /\ UNCHANGED <<client, local_cancel, join_lock, joined, subscriber, closers, health,
                 status, gauge, drops>>

\* The driver leaves its loop: cancelled, complete or failed.  Its streams are gone.
TaskLeaves(i) ==
  /\ task[i] \in {"running", "reopening"}
  /\ task' = [task EXCEPT ![i] = "finishing"]
  /\ gauge' = FALSE
  /\ status' \in {status, "Degraded"}
  /\ UNCHANGED <<client, local_cancel, join_lock, joined, subscriber, closers,
                 health, drops>>

\* finish_subscription ends with the final flush, and the guard is dropped: first it
\* gives the reservation up, ...
TaskReleases(i) ==
  /\ task[i] = "finishing"
  /\ task' = [task EXCEPT ![i] = "released"]
  /\ active_subscription' = FALSE
  /\ status' \in {status, "Healthy", "Degraded"}
  /\ UNCHANGED <<closed, cancel, lifecycle, subscription, local_cancel, join_lock,
                 joined, subscriber, closers, health, gauge, drops>>

\* ... then it clears the gauges.  The completion is published and the task ends.
TaskEnds(i) ==
  /\ task[i] = "released"
  /\ task' = [task EXCEPT ![i] = "ended"]
  /\ gauge' = FALSE
  /\ UNCHANGED <<client, local_cancel, join_lock, joined, subscriber, closers,
                 health, status, drops>>

----------------------------------------------------------------------------
(* close().                                                                *)

\* DcpSubscription::close, for a subscription that was activated.
SubscriptionClose(c, i) ==
  /\ closer[c] = "idle"
  /\ task[i] # "none"
  /\ local_cancel' = [local_cancel EXCEPT ![i] = TRUE]
  /\ closer' = [closer EXCEPT ![c] = "waitSubscription"]
  /\ waits_for' = [waits_for EXCEPT ![c] = i]
  /\ UNCHANGED <<client, task, join_lock, joined, subscriber, health, status,
                 gauge, drops>>

\* Drop of a DcpSubscription: cancelled, and nobody waits.
SubscriptionDropped(i) ==
  /\ task[i] # "none"
  /\ ~local_cancel[i]
  /\ local_cancel' = [local_cancel EXCEPT ![i] = TRUE]
  /\ UNCHANGED <<client, task, join_lock, joined, subscriber, closers, health,
                 status, gauge, drops>>

\* DcpClient::close waits for the lifecycle lock ...
CloseBegins(c) ==
  /\ closer[c] = "idle"
  /\ closer' = [closer EXCEPT ![c] = "lock"]
  /\ UNCHANGED <<client, tasks, subscriber, waits_for, health, status, gauge, drops>>

\* ... and closes the client under it.
ClientClose(c) ==
  /\ closer[c] = "lock"
  /\ lifecycle = Free
  /\ closed' = TRUE
  /\ cancel' = TRUE
  /\ closer' = [closer EXCEPT ![c] = IF subscription = 0 THEN "health" ELSE "wait"]
  /\ waits_for' = [waits_for EXCEPT ![c] = subscription]
  /\ UNCHANGED <<active_subscription, lifecycle, subscription, tasks, subscriber,
                 health, status, gauge, drops>>

\* What follows the wait for a subscription.
AfterWait(c) ==
  closer' = [closer EXCEPT ![c] =
    IF closer[c] \in {"wait", "join", "completion"} THEN "health" ELSE "idle"]

\* SubscriptionControl::wait: the first waiter takes the join handle and keeps the
\* lock while it waits for the task; the others look at the completion.
WaitBegins(c) ==
  LET i == waits_for[c] IN
  /\ closer[c] \in {"wait", "waitSubscription"}
  /\ join_lock[i] = Free
  /\ IF joined[i]
     THEN /\ closer' = [closer EXCEPT ![c] = IF @ = "wait" THEN "completion"
                                             ELSE "completionSubscription"]
          /\ UNCHANGED <<join_lock, joined>>
     ELSE /\ closer' = [closer EXCEPT ![c] = IF @ = "wait" THEN "join"
                                             ELSE "joinSubscription"]
          /\ join_lock' = [join_lock EXCEPT ![i] = c]
          /\ joined' = [joined EXCEPT ![i] = TRUE]
  /\ UNCHANGED <<client, task, local_cancel, subscriber, waits_for, health, status,
                 gauge, drops>>

\* Mutant of WaitEnds: a waiter without the handle does not wait.
WaitEnds_noCompletion(c) ==
  LET i == waits_for[c] IN
  /\ closer[c] \in {"join", "joinSubscription", "completion", "completionSubscription"}
  /\ closer[c] \in {"join", "joinSubscription"} => task[i] = "ended"
  /\ AfterWait(c)
  /\ join_lock' = [join_lock EXCEPT ![i] = IF @ = c THEN Free ELSE @]
  /\ UNCHANGED <<client, task, local_cancel, joined, subscriber, waits_for, health,
                 status, gauge, drops>>

\* Mutant of WaitEnds: the join lock is never released.
WaitEnds_keepsLock(c) ==
  LET i == waits_for[c] IN
  /\ closer[c] \in {"join", "joinSubscription", "completion", "completionSubscription"}
  /\ task[i] = "ended"
  /\ AfterWait(c)
  /\ UNCHANGED <<client, tasks, subscriber, waits_for, health, status, gauge, drops>>

WaitEnds(c) ==
  LET i == waits_for[c] IN
  /\ closer[c] \in {"join", "joinSubscription", "completion", "completionSubscription"}
  /\ task[i] = "ended"
  /\ AfterWait(c)
  /\ join_lock' = [join_lock EXCEPT ![i] = IF @ = c THEN Free ELSE @]
  /\ UNCHANGED <<client, task, local_cancel, joined, subscriber, waits_for, health,
                 status, gauge, drops>>

\* The rest of DcpClient::close: the health task is joined by whoever finds its
\* handle, with the lock held, ...
HealthWait(c) ==
  /\ closer[c] = "health"
  /\ health_lock = Free
  /\ IF health_handle
     THEN /\ health_lock' = c
          /\ health_handle' = FALSE
          /\ closer' = [closer EXCEPT ![c] = "healthJoin"]
     ELSE /\ closer' = [closer EXCEPT ![c] = "stop"]
          /\ UNCHANGED <<health_lock, health_handle>>
  /\ UNCHANGED <<client, tasks, subscriber, waits_for, health_task, probes, status,
                 gauge, drops>>

HealthJoined(c) ==
  /\ closer[c] = "healthJoin"
  /\ health_task = "stopped"
  /\ health_lock' = Free
  /\ closer' = [closer EXCEPT ![c] = "stop"]
  /\ UNCHANGED <<client, tasks, subscriber, waits_for, health_task, health_handle,
                 probes, status, gauge, drops>>

\* ... and the client is reported stopped.
CloseReturns(c) ==
  /\ closer[c] = "stop"
  /\ closer' = [closer EXCEPT ![c] = "returned"]
  /\ gauge' = FALSE
  /\ status' = "Stopped"
  /\ UNCHANGED <<client, tasks, subscriber, waits_for, health, drops>>

\* A caller drops its close(): locks are released, a handle it took is gone.
CloseDropped(c) ==
  /\ closer[c] \notin {"idle", "returned"}
  /\ drops < MaxDrops
  /\ drops' = drops + 1
  /\ closer' = [closer EXCEPT ![c] = "idle"]
  /\ join_lock' = [i \in Subscriptions |-> IF join_lock[i] = c THEN Free ELSE join_lock[i]]
  /\ health_lock' = IF health_lock = c THEN Free ELSE health_lock
  /\ UNCHANGED <<client, task, local_cancel, joined, subscriber, waits_for,
                 health_task, health_handle, probes, status, gauge>>

----------------------------------------------------------------------------
(* run_health_checks.                                                      *)

HealthProbe ==
  /\ health_task = "sleep"
  /\ ~cancel
  /\ probes < MaxProbes
  /\ probes' = probes + 1
  /\ health_task' = "probe"
  /\ UNCHANGED <<client, tasks, subscriber, closers, health_lock, health_handle,
                 status, gauge, drops>>

\* A probe answers, fails or times out, cancelled or not.
HealthReports ==
  /\ health_task = "probe"
  /\ health_task' = "sleep"
  /\ status' \in {"Healthy", "Degraded"}
  /\ UNCHANGED <<client, tasks, subscriber, closers, health_lock, health_handle,
                 probes, gauge, drops>>

HealthStops ==
  /\ health_task = "sleep"
  /\ cancel
  /\ health_task' = "stopped"
  /\ UNCHANGED <<client, tasks, subscriber, closers, health_lock, health_handle,
                 probes, status, gauge, drops>>

----------------------------------------------------------------------------

\* connect() has discovered the topology and started the health task.
Init ==
  /\ closed = FALSE /\ cancel = FALSE /\ active_subscription = FALSE
  /\ lifecycle = Free /\ subscription = 0
  /\ task = [i \in Subscriptions |-> "none"]
  /\ local_cancel = [i \in Subscriptions |-> FALSE]
  /\ join_lock = [i \in Subscriptions |-> Free]
  /\ joined = [i \in Subscriptions |-> FALSE]
  /\ subscriber = [p \in Subscribers |-> "idle"]
  /\ closer = [c \in Closers |-> "idle"]
  /\ waits_for = [c \in Closers |-> 0]
  /\ health_task = IF HealthCheck THEN "sleep" ELSE "stopped"
  /\ health_handle = HealthCheck
  /\ health_lock = Free
  /\ status = "Healthy" /\ gauge = FALSE
  /\ drops = 0 /\ probes = 0

SubscriberStep(p) ==
  \/ SubscribeBegins(p) \/ Prepared(p) \/ SubscribeFails(p) \/ Activate(p)
  \/ DiscardBegins(p) \/ DiscardHangs(p) \/ DiscardEnds(p)

CloserStep(c) ==
  \/ CloseBegins(c) \/ ClientClose(c) \/ WaitBegins(c) \/ WaitEnds(c) \/ HealthWait(c)
  \/ HealthJoined(c) \/ CloseReturns(c) \/ CloseDropped(c)
  \/ \E i \in Subscriptions : SubscriptionClose(c, i)

Next ==
  \/ \E p \in Subscribers : SubscriberStep(p)
  \/ \E i \in Subscriptions :
       \/ TaskReports(i) \/ TaskReconnects(i) \/ TaskReopens(i) \/ TaskHangs(i)
       \/ TaskLeaves(i) \/ TaskReleases(i) \/ TaskEnds(i) \/ SubscriptionDropped(i)
  \/ \E c \in Closers : CloserStep(c)
  \/ HealthProbe \/ HealthReports \/ HealthStops

Spec == Init /\ [][Next]_vars

(* Tokio runs what is ready and its mutexes are fair.  A cancelled          *)
(* subscription leaves its loop unless its streams hang                     *)
(* (Subscription!CancelEnds), other streams shut down, and a probe has a    *)
(* timeout.                                                                 *)
Fairness ==
  /\ \A i \in Subscriptions :
       /\ WF_vars((cancel \/ local_cancel[i]) /\ TaskLeaves(i))
       /\ WF_vars(TaskReleases(i)) /\ WF_vars(TaskEnds(i))
  /\ \A p \in Subscribers : WF_vars(DiscardEnds(p))
  /\ \A c \in Closers : /\ SF_vars(ClientClose(c))
                        /\ SF_vars(WaitBegins(c)) /\ WF_vars(WaitEnds(c))
                        /\ SF_vars(HealthWait(c)) /\ WF_vars(HealthJoined(c))
                        /\ WF_vars(CloseReturns(c))
  /\ WF_vars(HealthReports) /\ WF_vars(HealthStops)

FairSpec == Spec /\ Fairness

----------------------------------------------------------------------------
(* Properties.                                                             *)

\* "A client deliberately owns at most one active subscription": one task, or one
\* call that opens streams for it, whoever fails, drops or closes.
OneActiveSubscription ==
  Cardinality(Live) + Cardinality({p \in Subscribers : subscriber[p] # "idle"}) <= 1

\* The reservation is never leaked: it is held exactly while a call or a task has
\* it, so that a client whose subscription ended can subscribe again.
ReservationHeld ==
  active_subscription <=> Live # {} \/ \E p \in Subscribers : subscriber[p] # "idle"

\* When DcpClient::close has returned, no subscription task runs, none will start,
\* and the last flush of each is over, whichever of the callers waited for what.
CloseLeavesNothingRunning ==
  (\E c \in Closers : closer[c] = "returned") =>
    closed /\ Live = {}

\* Streams that do not shut down keep c waiting, for their task or for the lifecycle lock.
HeldUp(c) ==
  \/ closer[c] = "lock" /\ \E p \in Subscribers : subscriber[p] = "hung"
  \/ closer[c] # "lock" /\ waits_for[c] # 0 /\ task[waits_for[c]] = "hung"

\* Every close() returns, unless its caller drops it or streams do not shut down.
CloseTerminates ==
  \A c \in Closers : closer[c] # "idle" ~> closer[c] \in {"idle", "returned"} \/ HeldUp(c)

=============================================================================

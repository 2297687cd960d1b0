----------------------------- MODULE KeepAlive -----------------------------
(***************************************************************************)
(* The dead-connection timeout of a stream worker (stream.rs, run_worker)  *)
(* against a server that sends NOOPs at the interval the client announced. *)
(* The worker measures silence from the last frame it read, and may be     *)
(* kept from reading by a full output channel.  Time is counted in ticks,  *)
(* several to a second, because durations are configured more finely than  *)
(* the whole seconds that are announced.                                   *)
(***************************************************************************)
EXTENDS Integers, FiniteSets, FiniteSetsExt

CONSTANTS TicksPerSecond,
          Durations,       \* configured durations, in ticks
          MaxWaiting       \* bound: NOOPs in flight or waiting in the socket

VARIABLES flow_config,     \* noop_interval and dead_connection_timeout
          sent_age,        \* ticks since the server's last NOOP
          in_flight,       \* ages, in ticks, of the NOOPs under way
          waiting,         \* frames in the client's socket buffer
          idle_for,        \* ticks since last_inbound_activity
          worker,          \* "select", "output" (send awaits the channel) or "dead"
          server           \* "alive" or "silent"

vars == <<flow_config, sent_age, in_flight, waiting, idle_for, worker, server>>

\* FlowControlConfig::validate, its checks of the two durations.
validate(config) ==
  /\ config.noop_interval >= TicksPerSecond
  /\ config.dead_connection_timeout > config.noop_interval

\* bootstrap.rs, duration_seconds: the interval announced to the server, in ticks.
duration_seconds(duration) == Max({duration \div TicksPerSecond, 1}) * TicksPerSecond

Interval == duration_seconds(flow_config.noop_interval)

\* The longest delay of a NOOP on its way that the configuration leaves room for.
Latency == Max({flow_config.dead_connection_timeout - flow_config.noop_interval - 1, 0})

\* The server: a NOOP at least every interval.
SendNoop ==
  /\ server = "alive"
  /\ Cardinality(in_flight) + waiting < MaxWaiting
  /\ sent_age > 0
  /\ in_flight' = in_flight \union {0}
  /\ sent_age' = 0
  /\ UNCHANGED <<flow_config, waiting, idle_for, worker, server>>

\* A NOOP arrives, the oldest first.
Arrive ==
  /\ in_flight # {}
  /\ in_flight' = in_flight \ {Max(in_flight)}
  /\ waiting' = waiting + 1
  /\ UNCHANGED <<flow_config, sent_age, idle_for, worker, server>>

ServerStops ==
  /\ server = "alive"
  /\ server' = "silent"
  /\ UNCHANGED <<flow_config, sent_age, in_flight, waiting, idle_for, worker>>

\* Time passes, but not beyond the instant at which the server owes a NOOP or the
\* network a delivery.  Silence beyond the timeout is all one.
Tick ==
  /\ worker # "dead"
  /\ server = "alive" => sent_age < Interval \/ Cardinality(in_flight) + waiting = MaxWaiting
  /\ \A age \in in_flight : age < Latency
  /\ sent_age' = Min({sent_age + 1, Interval})
  /\ in_flight' = {age + 1 : age \in in_flight}
  /\ idle_for' = Min({idle_for + 1, flow_config.dead_connection_timeout})
  /\ UNCHANGED <<flow_config, waiting, worker, server>>

\* The select arm of receive_frame: timeout_at polls the frame before the deadline.
\* The frame is answered, or handed to the output channel, which may be full.
Receive ==
  /\ worker = "select"
  /\ waiting > 0
  /\ waiting' = waiting - 1
  /\ idle_for' = 0
  /\ worker' \in {"select", "output"}
  /\ UNCHANGED <<flow_config, sent_age, in_flight, server>>

\* The application takes an event and the send completes.
OutputSent ==
  /\ worker = "output"
  /\ worker' = "select"
  /\ UNCHANGED <<flow_config, sent_age, in_flight, waiting, idle_for, server>>

\* Mutant of Command: the deadline runs from the last activity of the worker.
Command_activity ==
  /\ worker = "select"
  /\ worker' \in {"select", "output"}
  /\ idle_for' = 0
  /\ UNCHANGED <<flow_config, sent_age, in_flight, waiting, server>>

\* The select arm of commands.recv: the deadline stays where it was.
Command ==
  /\ worker = "select"
  /\ worker' \in {"select", "output"}
  /\ UNCHANGED <<flow_config, sent_age, in_flight, waiting, idle_for, server>>

\* The deadline has passed and no frame is there.
DeadConnection ==
  /\ worker = "select"
  /\ waiting = 0
  /\ idle_for >= flow_config.dead_connection_timeout
  /\ worker' = "dead"
  /\ UNCHANGED <<flow_config, sent_age, in_flight, waiting, idle_for, server>>

Init ==
  /\ flow_config \in {c \in [noop_interval : Durations, dead_connection_timeout : Durations] :
                        validate(c)}
  /\ sent_age = 0 /\ in_flight = {} /\ waiting = 0 /\ idle_for = 0
  /\ worker = "select" /\ server = "alive"

Next ==
  \/ SendNoop \/ Arrive \/ ServerStops \/ Tick
  \/ Receive \/ OutputSent \/ Command \/ DeadConnection

Spec == Init /\ [][Next]_vars

\* Time passes, what is sent arrives, the application goes on reading, and the
\* runtime polls a worker whose deadline has passed however often commands arrive.
FairSpec ==
  /\ Spec
  /\ WF_vars(Tick) /\ WF_vars(Arrive)
  /\ WF_vars(OutputSent) /\ SF_vars(Receive) /\ SF_vars(DeadConnection)

\* Every configuration validate accepts leaves a server that keeps the announced
\* interval unharmed: a worker reports DcpError::DeadConnection only after the server
\* has stopped, whatever the rounding of the interval, the delays within the margin
\* and the time the worker spent on a full output channel.
OnlySilenceIsDead == worker = "dead" => server = "silent"

\* A server that falls silent is found out, also while commands keep coming.
SilenceIsReported == server = "silent" ~> worker = "dead"
=============================================================================

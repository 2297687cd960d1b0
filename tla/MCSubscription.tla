--------------------------- MODULE MCSubscription ---------------------------
(***************************************************************************)
(* Small instances of Subscription for TLC.  A behaviour belongs to one    *)
(* scenario:                                                               *)
(*   "recovery"  the process crashes and starts again, the server fails    *)
(*               over, and the listener cutoff leaves one event out, with  *)
(*               the constants of the configuration;                       *)
(*   "fencing"   the topology changes and streams fail while events wait   *)
(*               for mitigation, the queue and the application;            *)
(*   "finite"    a finite subscription of two vBuckets that reconnects.    *)
(***************************************************************************)
EXTENDS Subscription

CONSTANTS v1, v2

VARIABLE scenario

Fencing == INSTANCE Subscription
             WITH VBuckets <- {v1}, QueueCapacity <- 2, Finite <- FALSE,
                  StartFrom <- "Earliest", Policies <- {"RewindAndReplay", "StopAndReport"},
                  Mitigation <- TRUE, Skipped <- {}, EarlyEnds <- FALSE, MaxSeqno <- 2,
                  MaxBranches <- 1, MaxTopology <- 2, MaxFailures <- 1, MaxStarts <- 1

Captured == INSTANCE Subscription
              WITH VBuckets <- {v1, v2}, QueueCapacity <- 1, Finite <- TRUE,
                   StartFrom <- "Earliest", Policies <- {"RewindAndReplay"},
                   Mitigation <- FALSE, Skipped <- {}, EarlyEnds <- TRUE, MaxSeqno <- 1,
                   MaxBranches <- 1, MaxTopology <- 1, MaxFailures <- 1, MaxStarts <- 1

ScenarioInit ==
  \/ scenario = "recovery" /\ Init
  \/ scenario = "fencing" /\ Fencing!Init
  \/ scenario = "finite" /\ Captured!Init

\* Streams and openings fail in the first subscription only, and of the writes on their
\* way one at a time is followed.
FirstFails ==
  /\ failures' # failures => starts = 1
  /\ \A vb \in VBuckets : Cardinality(late'[vb]) <= 1

\* Nobody reads the store again: only the final flush is of interest.
OneStart ==
  /\ batch' # batch => pc \in {"flush", "flushing"}
  /\ store' # store => batch' # batch

ScenarioNext ==
  /\ UNCHANGED scenario
  /\ \/ scenario = "recovery" /\ Next /\ FirstFails
     \/ scenario = "fencing" /\ Fencing!Next /\ OneStart
     \/ scenario = "finite" /\ Captured!Next /\ OneStart

ScenarioSpec == ScenarioInit /\ [][ScenarioNext]_<<vars, scenario>>

-----------------------------------------------------------------------------

\* A finite subscription that ends by itself without error has handed out every event up
\* to the captured ends, reconnects in between included, of every vBucket whose last
\* stream the server did not end early.
CapturedIsComplete == scenario = "finite" => Captured!FiniteIsComplete

\* "Consume through a captured high sequence number and then finish.", whatever reason
\* the server gives for the end of a stream.
CapturedIsConsumed == scenario = "finite" => Captured!ConsumesThroughCaptured

=============================================================================

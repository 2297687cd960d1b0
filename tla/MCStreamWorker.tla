--------------------------- MODULE MCStreamWorker ---------------------------
(***************************************************************************)
(* A small instance of StreamWorker for TLC.  A behaviour belongs to one   *)
(* scenario, which restricts it:                                           *)
(*   "streams"  two streams of an older producer, on a connection that may *)
(*              break;                                                     *)
(*   "close"    two streams that are closed, by a producer that sends a    *)
(*              stream end for each, on a connection that works;           *)
(*   "faulty"   one stream of a producer that may break the protocol.      *)
(***************************************************************************)
EXTENDS StreamWorker, TLC

VARIABLE scenario

MCInit ==
  /\ Init
  /\ \/ scenario = "streams" /\ ~stream_end_on_close /\ Active = VBuckets
     \/ scenario = "close" /\ stream_end_on_close /\ Active = VBuckets
     \/ scenario = "faulty" /\ ~stream_end_on_close /\ \E vb \in VBuckets : Active = {vb}

\* The events of one snapshot are enough where the producer keeps to the protocol.
OneEvent == \A vb \in VBuckets : feed'[vb].window <= 1

Closes(n) == owner' = "closing" => owner = "closing" \/ opaque < n

MCNext ==
  /\ Next
  /\ UNCHANGED scenario
  /\ scenario = "streams" =>
       faults' = 0 /\ (extra' = 0 \/ failures' = 0) /\ OneEvent /\ Closes(1)
  /\ scenario = "close" => extra' = 0 /\ faults' = 0 /\ failures' = 0 /\ OneEvent
  /\ scenario = "faulty" => extra' + faults' <= 1 /\ Closes(0)

MCSpec == MCInit /\ [][MCNext]_<<vars, scenario>>

\* Streams are interchangeable.
Symmetry == Permutations(VBuckets)

=============================================================================

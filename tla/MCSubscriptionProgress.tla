----------------------- MODULE MCSubscriptionProgress -----------------------
(***************************************************************************)
(* What the subscription driver must eventually do, for TLC, with a        *)
(* vBucket that the server writes to and one that it does not, whose       *)
(* streams end, fail and are reopened like the other's.  The application   *)
(* goes on reading in a behaviour with `reads', and may stop at any point  *)
(* in the others.  The topology changes in some behaviours, streams and    *)
(* opens fail in others.                                                   *)
(***************************************************************************)
EXTENDS Subscription

CONSTANTS v1, v2
VARIABLE reads

MCVBuckets == {v1, v2}

MCInit == Init /\ reads \in BOOLEAN /\ high[v2] = 0

\* Nobody reads the store again: only the final flush is of interest.
OneStart ==
  /\ batch' # batch => pc \in {"flush", "flushing"}
  /\ store' # store => batch' # batch

MCNext ==
  /\ Next
  /\ OneStart
  /\ high'[v2] = 0 /\ branch'[v2] = 1
  /\ topology' = 1 \/ failures' = 0
  /\ UNCHANGED reads

ProgressVars == <<vars, reads>>

\* Fairness is Subscription's, and what is left open is whether the application reads.
ProgressSpec == /\ MCInit /\ [][MCNext]_ProgressVars
                /\ Fairness /\ WF_vars(reads /\ PollNext)

-----------------------------------------------------------------------------

\* What the server has on its current branch reaches an application that reads, across
\* rollbacks, lost streams and topology changes, unless the subscription ends, its streams
\* do not shut down, or the server ends a stream alone.
ReaderIsServed == reads => ContinuesUntilClosed

=============================================================================

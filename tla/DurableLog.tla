----------------------------- MODULE DurableLog -----------------------------
(***************************************************************************)
(* What a checkpoint coordinator promises the next start of the program:   *)
(* every vBucket has a log of resume positions, in the order in which they *)
(* became the processed position, and the store holds one of them.  It     *)
(* moves to a later one, or back to one whose write has no known outcome.  *)
(***************************************************************************)
EXTENDS Integers, Sequences

CONSTANT VBuckets

VARIABLES
  log,    \* log[vb]: the resume positions of vb, oldest first
  saved,  \* how many positions of the log the stored one is past
  lost,   \* the positions whose writes were given up on
  store   \* the position that a restart would load

vars == <<log, saved, lost, store>>

Init ==
  /\ \A vb \in VBuckets : Len(log[vb]) >= 1
  /\ saved = [vb \in VBuckets |-> 0]
  /\ lost = [vb \in VBuckets |-> {}]
  /\ store = [vb \in VBuckets |-> log[vb][1]]

\* The processed positions of some vBuckets move on.
Publish ==
  /\ \A vb \in VBuckets :
       \/ log'[vb] = log[vb]
       \/ /\ Len(log'[vb]) = Len(log[vb]) + 1
          /\ \A i \in 1..Len(log[vb]) : log'[vb][i] = log[vb][i]
  /\ UNCHANGED <<saved, lost, store>>

\* The store moves to a later position of one vBucket.
Save(vb) ==
  \E g \in (saved[vb] + 1)..(Len(log[vb]) - 1) :
    /\ saved' = [saved EXCEPT ![vb] = g]
    /\ store' = [store EXCEPT ![vb] = log[vb][g + 1]]
    /\ UNCHANGED <<log, lost>>

\* Writes of positions of the log are given up on: nobody knows what becomes of them, ...
GiveUp ==
  /\ \A vb \in VBuckets : /\ lost[vb] \subseteq lost'[vb]
                          /\ lost'[vb] \subseteq 0..(Len(log[vb]) - 1)
  /\ UNCHANGED <<log, saved, store>>

\* ... and one of them arrives.
Late(vb) ==
  \E g \in lost[vb] :
    /\ saved' = [saved EXCEPT ![vb] = g]
    /\ store' = [store EXCEPT ![vb] = log[vb][g + 1]]
    /\ UNCHANGED <<log, lost>>

Next == Publish \/ GiveUp \/ \E vb \in VBuckets : Save(vb) \/ Late(vb)

Spec == Init /\ [][Next]_vars

============================================================================

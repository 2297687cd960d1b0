-------------------------- MODULE MitigationProofs --------------------------
(***************************************************************************)
(* What rollback mitigation lets through survives every failover and       *)
(* restart: theorems about RollbackMitigation, for any number of copies,   *)
(* changes, branches, restarts and failed observations.                    *)
(*                                                                         *)
(* The difficulty is that a cycle asks the copies one after the other, and *)
(* publishes its minimum when some answers may be out of date: a copy that *)
(* was asked may have rolled back since, to where another copy, asked      *)
(* before or after, has left the history.  Then that other copy must have  *)
(* answered from its new branch, or have answered no more than the new     *)
(* branch starts with, which is what NoForkMissed says.                    *)
(***************************************************************************)
EXTENDS RollbackMitigation, TLAPS, WellFoundedInduction

\* For the steps that name no prover: an SMT solver, then Zenon.
USE SMTT(30), ZenonT(30)

\* The copy n has answered in this cycle, from the branch that is expected.
Answered(n) ==
  /\ observations[n] \notin {None, Failed}
  /\ observations[n].vbucket_uuid = expected_vbucket_uuid

\* No copy has more on its disk than in memory.
DiskBehind == \A n \in Copies : persisted[n] <= current[n]

\* A copy still has what it answered, unless it rolled back to a fork.
AnswersHold ==
  \A n \in Copies : Answered(n) =>
    \/ persisted[n] >= observations[n].persisted_seqno
    \/ \E b \in 2..uuid : persisted[n] >= forks[b]

\* For every fork, a copy has left the expected branch, and if it answered before, it
\* answered no more than what is before the fork.
NoForkMissed ==
  \A b \in 2..uuid : \E n \in Copies :
    /\ node_uuid[n] # expected_vbucket_uuid
    /\ Answered(n) => observations[n].persisted_seqno <= forks[b]

MitigationInv == TypeOK /\ DiskBehind /\ AnswersHold /\ NoForkMissed /\ DeliveredSurvives

\* The minimum of a set of numbers is the least of them.
LEMMA MinIsLeast ==
  ASSUME NEW S \in SUBSET Nat, S # {}
  PROVE  /\ Min(S) \in S
         /\ \A x \in S : Min(S) <= x
<1>1. PICK m \in S : \A x \in S : ~(<<x, m>> \in OpToRel(<, Nat))
  BY NatLessThanWellFounded, WFMin, ZenonT(30)
<1>2. ASSUME NEW x \in S, x < m PROVE FALSE
  <2>1. <<x, m>> \in Nat \X Nat /\ <<x, m>>[1] = x /\ <<x, m>>[2] = m
    OBVIOUS
  <2>2. <<x, m>>[1] < <<x, m>>[2]
    BY <1>2, <2>1, ZenonT(30)
  <2>3. <<x, m>> \in OpToRel(<, Nat)
    BY <2>1, <2>2, ZenonT(30) DEF OpToRel
  <2> QED
    BY <1>1, <2>3, ZenonT(30)
<1>3. \A x \in S : m <= x
  BY <1>2
<1> QED
  BY <1>3, ZenonT(30) DEF Min

\* The rollback of a replica keeps what all branches have.
LEMMA RollbackPoint ==
  ASSUME TypeOK, NEW x \in Nat
  PROVE  /\ Min({x} \cup Forks) \in Nat
         /\ Min({x} \cup Forks) <= x
         /\ \/ Min({x} \cup Forks) = x
            \/ \E b \in 2..uuid : Min({x} \cup Forks) = forks[b]
<1>1. \A b \in 2..uuid : forks[b] \in Nat
  BY BoundsAssumption DEF TypeOK
<1>2. {x} \cup Forks \in SUBSET Nat /\ {x} \cup Forks # {} /\ x \in {x} \cup Forks
  BY <1>1, ZenonT(30) DEF Forks
<1> DEFINE m == Min({x} \cup Forks)
<1>3. m \in {x} \cup Forks /\ m <= x
  BY <1>2, MinIsLeast, ZenonT(30)
<1> HIDE DEF m
<1>4. m = x \/ \E b \in 2..uuid : m = forks[b]
  BY <1>3, ZenonT(30) DEF Forks
<1>5. m \in Nat
  BY <1>1, <1>4, ZenonT(30)
<1> QED
  BY <1>3, <1>4, <1>5, ZenonT(30) DEF m

-----------------------------------------------------------------------------
(* The steps of the cluster.                                               *)

\* A replica that rolls back loses nothing that survives, and a copy that answered
\* either keeps it or ends at a fork.
LEMMA ReplicateStep ==
  ASSUME MitigationInv, NEW n \in Copies, Replicate(n)
  PROVE  MitigationInv'
<1>0. /\ TypeOK /\ DiskBehind /\ AnswersHold /\ NoForkMissed /\ DeliveredSurvives
      /\ UNCHANGED <<active, up, uuid, forks, restarts, observer, delivery>>
  BY ZenonT(30) DEF MitigationInv, Replicate
<1>1. UNCHANGED <<observations, snapshot, worker, failures, cancel, received, delivered, failed>>
  BY <1>0, ZenonT(30) DEF observer, delivery
<1>2. \A m \in Copies : Answered(m)' <=> Answered(m)
  BY <1>1, ZenonT(30) DEF Answered
<1>3. CASE node_uuid[n] = uuid
  <2>1. /\ current' = [current EXCEPT ![n] = @ + 1]
        /\ UNCHANGED <<node_uuid, persisted>>
    BY <1>3, ZenonT(30) DEF Replicate
  <2>2. TypeOK' /\ DiskBehind'
    BY <1>0, <1>1, <2>1 DEF TypeOK, DiskBehind
  <2>3. AnswersHold' /\ NoForkMissed' /\ DeliveredSurvives'
    BY <1>0, <1>1, <1>2, <2>1, ZenonT(30) DEF AnswersHold, NoForkMissed, DeliveredSurvives, Survives
  <2> QED
    BY <2>2, <2>3, ZenonT(30) DEF MitigationInv
<1>4. CASE node_uuid[n] # uuid
  <2> DEFINE c == Min({current[n]} \cup Forks)
             p == Min({persisted[n]} \cup Forks)
  <2>0. /\ node_uuid' = [node_uuid EXCEPT ![n] = uuid]
        /\ current' = [current EXCEPT ![n] = c]
        /\ persisted' = [persisted EXCEPT ![n] = p]
    BY <1>4, ZenonT(30) DEF Replicate
  <2>1. current[n] \in Nat /\ persisted[n] \in Nat /\ persisted[n] <= current[n]
    BY <1>0, ZenonT(30) DEF TypeOK, DiskBehind
  <2>2. /\ c \in Nat /\ p \in Nat /\ c <= current[n] /\ p <= persisted[n]
        /\ p = persisted[n] \/ \E b \in 2..uuid : p = forks[b]
        /\ c = current[n] \/ \E b \in 2..uuid : c = forks[b]
    BY <1>0, <2>1, RollbackPoint, ZenonT(30)
  <2>3. p <= c
    <3>1. {persisted[n]} \cup Forks \in SUBSET Nat /\ {persisted[n]} \cup Forks # {}
      BY <1>0, <2>1, BoundsAssumption DEF Forks, TypeOK
    <3>2. \A x \in {persisted[n]} \cup Forks : p <= x
      BY <3>1, MinIsLeast, ZenonT(30)
    <3>3. \A b \in 2..uuid : forks[b] \in {persisted[n]} \cup Forks
      BY ZenonT(30) DEF Forks
    <3>4. \A b \in 2..uuid : p <= forks[b]
      BY <3>2, <3>3, ZenonT(30)
    <3> HIDE DEF p, c
    <3> QED
      BY <2>1, <2>2, <3>4
  <2> HIDE DEF p, c
  <2>4. uuid \in Nat /\ uuid # 1 /\ \A b \in 2..uuid : forks[b] \in Nat
    BY <1>0, <1>4, BoundsAssumption DEF TypeOK
  <2>5. TypeOK'
    <3>1. /\ node_uuid' \in [Copies -> 1..uuid'] /\ uuid' = uuid
          /\ current' \in [Copies -> Nat] /\ persisted' \in [Copies -> Nat]
      BY <1>0, <2>0, <2>2, <2>4 DEF TypeOK
    <3> QED
      BY <1>0, <1>1, <3>1, ZenonT(30) DEF TypeOK
  <2>6. \A m \in Copies : /\ persisted'[m] = IF m = n THEN p ELSE persisted[m]
                          /\ current'[m] = IF m = n THEN c ELSE current[m]
                          /\ node_uuid'[m] = IF m = n THEN uuid ELSE node_uuid[m]
                          /\ persisted[m] \in Nat
    BY <1>0, <2>0, ZenonT(30) DEF TypeOK
  <2>7. DiskBehind'
    BY <1>0, <2>3, <2>6, ZenonT(30) DEF DiskBehind
  <2>8. AnswersHold'
    <3> SUFFICES ASSUME NEW m \in Copies, Answered(m)
                 PROVE  \/ persisted'[m] >= observations[m].persisted_seqno
                        \/ \E b \in 2..uuid : persisted'[m] >= forks[b]
      BY <1>0, <1>1, <1>2, ZenonT(30) DEF AnswersHold
    <3>1. CASE persisted'[m] = persisted[m]
      BY <1>0, <3>1, ZenonT(30) DEF AnswersHold
    <3>2. CASE m = n /\ \E b \in 2..uuid : p = forks[b]
      BY <2>4, <2>6, <3>2
    <3> QED
      BY <2>2, <2>6, <3>1, <3>2, ZenonT(30)
  <2>9. NoForkMissed'
    <3> SUFFICES ASSUME NEW b \in 2..uuid
                 PROVE  \E m \in Copies :
                          /\ node_uuid'[m] # expected_vbucket_uuid
                          /\ Answered(m) => observations[m].persisted_seqno <= forks[b]
      BY <1>0, <1>1, <1>2, ZenonT(30) DEF NoForkMissed
    <3>1. PICK m \in Copies :
            /\ node_uuid[m] # expected_vbucket_uuid
            /\ Answered(m) => observations[m].persisted_seqno <= forks[b]
      BY <1>0, ZenonT(30) DEF NoForkMissed
    <3>2. node_uuid'[m] # expected_vbucket_uuid
      BY <2>4, <2>6, <3>1, ZenonT(30) DEF expected_vbucket_uuid
    <3> QED
      BY <3>1, <3>2, ZenonT(30)
  <2>10. ASSUME NEW s \in Nat, Survives(s) PROVE Survives(s)'
    BY <1>0, <2>2, <2>6, <2>10 DEF Survives
  <2>11. DeliveredSurvives'
    <3>1. delivered \in Nat /\ (snapshot.persisted_seqno # None => snapshot.persisted_seqno \in Nat)
      BY <1>0, ZenonT(30) DEF TypeOK
    <3> QED
      BY <1>0, <1>1, <2>10, <3>1, ZenonT(30) DEF DeliveredSurvives, Survives
  <2> QED
    BY <2>5, <2>7, <2>8, <2>9, <2>11, ZenonT(30) DEF MitigationInv
<1> QED
  BY <1>3, <1>4, ZenonT(30)

\* A promoted or restarted active copy begins a new branch with at least what it has on
\* its disk.  Whoever was the witness of the fork that this copy may have rolled back to
\* is a witness for the new fork too.
LEMMA NewBranch ==
  ASSUME MitigationInv, NEW n \in Copies, NEW x \in Nat, persisted[n] <= x,
         uuid < MaxBranches, uuid' = uuid + 1,
         forks' = [forks EXCEPT ![uuid + 1] = x],
         node_uuid' = [node_uuid EXCEPT ![n] = uuid + 1],
         UNCHANGED <<persisted, observer, delivery>>
  PROVE  /\ uuid' \in 1..MaxBranches /\ forks' \in [1..MaxBranches -> Nat]
         /\ node_uuid' \in [Copies -> 1..uuid']
         /\ AnswersHold' /\ NoForkMissed' /\ DeliveredSurvives'
<1>0. TypeOK /\ AnswersHold /\ NoForkMissed /\ DeliveredSurvives
  BY ZenonT(30) DEF MitigationInv
<1>1. UNCHANGED <<observations, snapshot, delivered>>
  BY ZenonT(30) DEF observer, delivery
<1>2. \A m \in Copies : Answered(m)' <=> Answered(m)
  BY <1>1, ZenonT(30) DEF Answered
<1>3. /\ uuid \in Nat /\ uuid >= 1 /\ uuid + 1 \in 2..uuid' /\ uuid + 1 \in 1..MaxBranches
      /\ uuid' \in 1..MaxBranches /\ uuid + 1 # 1
      /\ \A b \in 2..uuid : b \in 2..uuid' /\ b \in 1..MaxBranches /\ b # uuid + 1
      /\ \A b \in 2..uuid' : b \in 2..uuid \/ b = uuid + 1
      /\ 1..uuid \subseteq 1..uuid' /\ uuid + 1 \in 1..uuid'
  BY <1>0, BoundsAssumption DEF TypeOK
<1>4. /\ \A b \in 2..uuid : forks'[b] = forks[b] /\ forks[b] \in Nat
      /\ forks'[uuid + 1] = x
      /\ forks' \in [1..MaxBranches -> Nat]
  BY <1>0, <1>3, ZenonT(30) DEF TypeOK
<1>5. /\ node_uuid'[n] = uuid + 1
      /\ \A m \in Copies : m # n => node_uuid'[m] = node_uuid[m]
      /\ node_uuid' \in [Copies -> 1..uuid']
  BY <1>0, <1>3, ZenonT(30) DEF TypeOK
<1>6. /\ \A m \in Copies : /\ persisted[m] \in Nat
                           /\ Answered(m) => observations[m].persisted_seqno \in Nat
      /\ delivered \in Nat
      /\ snapshot.persisted_seqno # None => snapshot.persisted_seqno \in Nat
  BY <1>0, ZenonT(30) DEF TypeOK, Answered
<1>7. AnswersHold'
  <2> SUFFICES ASSUME NEW m \in Copies, Answered(m)
               PROVE  \/ persisted[m] >= observations[m].persisted_seqno
                      \/ \E b \in 2..uuid' : persisted[m] >= forks'[b]
    BY <1>1, <1>2, ZenonT(30) DEF AnswersHold
  <2>1. CASE persisted[m] >= observations[m].persisted_seqno
    BY <2>1
  <2>2. CASE \E b \in 2..uuid : persisted[m] >= forks[b]
    BY <1>3, <1>4, <2>2, ZenonT(30)
  <2> QED
    BY <1>0, <2>1, <2>2, ZenonT(30) DEF AnswersHold
<1>8. NoForkMissed'
  <2> SUFFICES ASSUME NEW b \in 2..uuid'
               PROVE  \E m \in Copies :
                        /\ node_uuid'[m] # expected_vbucket_uuid
                        /\ Answered(m) => observations[m].persisted_seqno <= forks'[b]
    BY <1>1, <1>2, ZenonT(30) DEF NoForkMissed
  <2>1. ASSUME NEW a \in 2..uuid
        PROVE  \E m \in Copies :
                 /\ node_uuid'[m] # expected_vbucket_uuid
                 /\ Answered(m) => observations[m].persisted_seqno <= forks[a]
    <3>1. PICK m \in Copies :
            /\ node_uuid[m] # expected_vbucket_uuid
            /\ Answered(m) => observations[m].persisted_seqno <= forks[a]
      BY <1>0, ZenonT(30) DEF NoForkMissed
    <3>2. node_uuid'[m] # expected_vbucket_uuid
      BY <1>3, <1>5, <3>1, ZenonT(30) DEF expected_vbucket_uuid
    <3> QED
      BY <3>1, <3>2, ZenonT(30)
  <2>2. CASE b \in 2..uuid
    BY <1>4, <2>1, <2>2, ZenonT(30)
  <2>3. CASE b = uuid + 1
    <3>1. CASE Answered(n) => persisted[n] >= observations[n].persisted_seqno
      <4>1. Answered(n) => observations[n].persisted_seqno <= forks'[b]
        BY <1>4, <1>6, <2>3, <3>1
      <4>2. node_uuid'[n] # expected_vbucket_uuid
        BY <1>3, <1>5, ZenonT(30) DEF expected_vbucket_uuid
      <4> QED
        BY <4>1, <4>2, ZenonT(30)
    <3>2. CASE \E a \in 2..uuid : persisted[n] >= forks[a]
      <4>1. PICK a \in 2..uuid : persisted[n] >= forks[a]
        BY <3>2
      <4>2. PICK m \in Copies :
              /\ node_uuid'[m] # expected_vbucket_uuid
              /\ Answered(m) => observations[m].persisted_seqno <= forks[a]
        BY <2>1, <4>1, ZenonT(30)
      <4>3. Answered(m) => observations[m].persisted_seqno <= forks'[b]
        BY <1>4, <1>6, <2>3, <4>1, <4>2
      <4> QED
        BY <4>2, <4>3, ZenonT(30)
    <3> QED
      BY <1>0, <3>1, <3>2, ZenonT(30) DEF AnswersHold
  <2> QED
    BY <1>3, <2>2, <2>3, ZenonT(30)
<1>9. ASSUME NEW s \in Nat, Survives(s) PROVE Survives(s)'
  <2>1. x >= s
    BY <1>6, <1>9 DEF Survives
  <2> QED
    BY <1>3, <1>4, <1>9, <2>1, ZenonT(30) DEF Survives
<1>10. DeliveredSurvives'
  BY <1>0, <1>1, <1>6, <1>9, ZenonT(30) DEF DeliveredSurvives, Survives
<1> QED
  BY <1>3, <1>4, <1>5, <1>7, <1>8, <1>10, ZenonT(30)

\* The active copy is lost: the replica is promoted with all it has in memory.
LEMMA FailoverStep ==
  ASSUME MitigationInv, NEW n \in Copies, Failover(n)
  PROVE  MitigationInv'
<1>0. TypeOK /\ DiskBehind
  BY ZenonT(30) DEF MitigationInv
<1>1. /\ active' = n /\ up' = up \ {active}
      /\ UNCHANGED <<current, persisted, restarts, observer, delivery>>
  BY ZenonT(30) DEF Failover
<1>2. current[n] \in Nat /\ persisted[n] <= current[n]
  BY <1>0, ZenonT(30) DEF TypeOK, DiskBehind
<1>3. /\ uuid' \in 1..MaxBranches /\ forks' \in [1..MaxBranches -> Nat]
      /\ node_uuid' \in [Copies -> 1..uuid']
      /\ AnswersHold' /\ NoForkMissed' /\ DeliveredSurvives'
  BY <1>2, NewBranch, ZenonT(30) DEF Failover
<1>4. DiskBehind'
  BY <1>0, <1>1, ZenonT(30) DEF DiskBehind
<1>5. TypeOK'
  BY <1>0, <1>1, <1>3, ZenonT(30) DEF TypeOK, observer, delivery
<1> QED
  BY <1>3, <1>4, <1>5, ZenonT(30) DEF MitigationInv

\* A copy comes back with what is on its disk; the active one begins a new branch.
LEMMA RestartStep ==
  ASSUME MitigationInv, NEW n \in Copies, Restart(n)
  PROVE  MitigationInv'
<1>0. /\ TypeOK /\ DiskBehind /\ AnswersHold /\ NoForkMissed /\ DeliveredSurvives
  BY ZenonT(30) DEF MitigationInv
<1>1. /\ current' = [current EXCEPT ![n] = persisted[n]]
      /\ UNCHANGED <<active, up, persisted, observer, delivery>>
  BY ZenonT(30) DEF Restart
<1>2. persisted[n] \in Nat /\ persisted[n] <= persisted[n]
  BY <1>0 DEF TypeOK
<1>3. /\ current' \in [Copies -> Nat]
      /\ \A m \in Copies : current'[m] = IF m = n THEN persisted[n] ELSE current[m]
  BY <1>0, <1>1, <1>2, ZenonT(30) DEF TypeOK
<1>4. DiskBehind'
  BY <1>0, <1>1, <1>2, <1>3, ZenonT(30) DEF DiskBehind
<1>5. CASE n = active
  <2>1. /\ uuid' \in 1..MaxBranches /\ forks' \in [1..MaxBranches -> Nat]
        /\ node_uuid' \in [Copies -> 1..uuid']
        /\ AnswersHold' /\ NoForkMissed' /\ DeliveredSurvives'
    BY <1>2, <1>5, NewBranch, ZenonT(30) DEF Restart
  <2>2. UNCHANGED restarts
    BY <1>5, ZenonT(30) DEF Restart
  <2>3. TypeOK'
    BY <1>0, <1>1, <1>3, <2>1, <2>2, ZenonT(30) DEF TypeOK, observer, delivery
  <2> QED
    BY <1>4, <2>1, <2>3, ZenonT(30) DEF MitigationInv
<1>6. CASE n # active
  <2>1. restarts' = restarts + 1 /\ UNCHANGED <<uuid, forks, node_uuid>>
    BY <1>6, ZenonT(30) DEF Restart
  <2>2. {failures', restarts'} \subseteq Nat
    BY <1>0, <1>1, <2>1 DEF TypeOK, observer
  <2>3. TypeOK'
    BY <1>0, <1>1, <1>3, <2>1, <2>2, ZenonT(30) DEF TypeOK, observer, delivery
  <2>4. AnswersHold' /\ NoForkMissed' /\ DeliveredSurvives'
    BY <1>0, <1>1, <2>1, ZenonT(30) DEF AnswersHold, NoForkMissed, DeliveredSurvives, Survives,
                                   Answered, observer, delivery
  <2> QED
    BY <1>4, <2>3, <2>4, ZenonT(30) DEF MitigationInv
<1> QED
  BY <1>5, <1>6, ZenonT(30)

\* Writes and persistence only add.
LEMMA GrowStep ==
  ASSUME MitigationInv, Write \/ \E n \in Copies : Persist(n)
  PROVE  MitigationInv'
<1>0. /\ TypeOK /\ DiskBehind /\ AnswersHold /\ NoForkMissed /\ DeliveredSurvives
  BY ZenonT(30) DEF MitigationInv
<1>1. UNCHANGED <<active, up, uuid, forks, node_uuid, restarts, observer, delivery>>
  BY ZenonT(30) DEF Write, Persist
<1>2. UNCHANGED <<observations, snapshot, worker, failures, cancel, received, delivered, failed>>
  BY <1>1, ZenonT(30) DEF observer, delivery
<1>3. /\ current' \in [Copies -> Nat] /\ persisted' \in [Copies -> Nat]
      /\ \A m \in Copies : persisted'[m] >= persisted[m] /\ persisted'[m] <= current'[m]
  <2>1. CASE Write
    BY <1>0, <2>1 DEF Write, TypeOK, DiskBehind
  <2>2. ASSUME NEW n \in Copies, Persist(n)
        PROVE  /\ current' \in [Copies -> Nat] /\ persisted' \in [Copies -> Nat]
               /\ \A m \in Copies : persisted'[m] >= persisted[m] /\ persisted'[m] <= current'[m]
    BY <1>0, <2>2 DEF Persist, TypeOK, DiskBehind
  <2> QED
    BY <2>1, <2>2, ZenonT(30)
<1>4. TypeOK' /\ DiskBehind'
  BY <1>0, <1>1, <1>2, <1>3, ZenonT(30) DEF TypeOK, DiskBehind
<1>5. \A b \in 2..uuid : forks[b] \in Nat
  BY <1>0, BoundsAssumption DEF TypeOK
<1>6. AnswersHold'
  <2> SUFFICES ASSUME NEW m \in Copies, Answered(m)
               PROVE  \/ persisted'[m] >= observations[m].persisted_seqno
                      \/ \E b \in 2..uuid : persisted'[m] >= forks[b]
    BY <1>1, <1>2, ZenonT(30) DEF AnswersHold, Answered
  <2>1. /\ observations[m].persisted_seqno \in Nat
        /\ persisted[m] \in Nat /\ persisted'[m] \in Nat /\ persisted'[m] >= persisted[m]
    BY <1>0, <1>3, ZenonT(30) DEF TypeOK, Answered
  <2>2. \/ persisted[m] >= observations[m].persisted_seqno
        \/ \E b \in 2..uuid : persisted[m] >= forks[b]
    BY <1>0, ZenonT(30) DEF AnswersHold
  <2> QED
    BY <1>5, <2>1, <2>2
<1>7. NoForkMissed'
  BY <1>0, <1>1, <1>2, ZenonT(30) DEF NoForkMissed, Answered
<1>8. ASSUME NEW s \in Nat, Survives(s) PROVE Survives(s)'
  BY <1>0, <1>1, <1>3, <1>8 DEF Survives, TypeOK
<1>9. DeliveredSurvives'
  <2>1. delivered \in Nat /\ (snapshot.persisted_seqno # None => snapshot.persisted_seqno \in Nat)
    BY <1>0, ZenonT(30) DEF TypeOK
  <2> QED
    BY <1>0, <1>2, <1>8, <2>1, ZenonT(30) DEF DeliveredSurvives, Survives
<1> QED
  BY <1>4, <1>6, <1>7, <1>9, ZenonT(30) DEF MitigationInv

-----------------------------------------------------------------------------
(* The steps of the observer.                                              *)

\* An answer is what the copy has on its disk, and a copy that has left the expected
\* branch says so.
LEMMA ObserveStep ==
  ASSUME MitigationInv, NEW n \in Copies, ObserveNode(n) \/ ObserveNodeFails(n)
  PROVE  MitigationInv'
<1>0. /\ TypeOK /\ DiskBehind /\ AnswersHold /\ NoForkMissed /\ DeliveredSurvives
  BY ZenonT(30) DEF MitigationInv
<1> DEFINE o == Observation(n)
<1>1. /\ observations' = [observations EXCEPT ![n] = o]
         \/ observations' = [observations EXCEPT ![n] = Failed]
      /\ failures' = failures \/ failures' = failures + 1
      /\ UNCHANGED <<cluster, snapshot, worker, delivery>>
  BY ZenonT(30) DEF ObserveNode, ObserveNodeFails
<1>2. /\ o.vbucket_uuid = node_uuid[n] /\ o.persisted_seqno = persisted[n]
      /\ o \in [did_failover: BOOLEAN, vbucket_uuid: Nat, persisted_seqno: Nat, current_seqno: Nat]
  <2>1. node_uuid[n] \in Nat /\ persisted[n] \in Nat /\ current[n] \in Nat
    BY <1>0, BoundsAssumption DEF TypeOK
  <2> QED
    BY <2>1, ZenonT(30) DEF Observation
<1> HIDE DEF o
<1>3. UNCHANGED <<active, up, uuid, forks, node_uuid, current, persisted, restarts,
                  cancel, received, delivered, failed>>
  BY <1>1, ZenonT(30) DEF cluster, delivery
<1>4. /\ observations'[n] = o \/ observations'[n] = Failed
      /\ \A m \in Copies : m # n => observations'[m] = observations[m]
      /\ observations' \in [Copies -> {None, Failed} \cup
           [did_failover: BOOLEAN, vbucket_uuid: Nat, persisted_seqno: Nat, current_seqno: Nat]]
  BY <1>0, <1>1, <1>2, ZenonT(60) DEF TypeOK
<1>5. TypeOK'
  <2>1. {failures', restarts'} \subseteq Nat
    BY <1>0, <1>1, <1>3 DEF TypeOK
  <2> QED
    BY <1>0, <1>1, <1>3, <1>4, <2>1, ZenonT(30) DEF TypeOK
<1>6. DiskBehind' /\ DeliveredSurvives'
  BY <1>0, <1>1, <1>3, ZenonT(30) DEF DiskBehind, DeliveredSurvives, Survives
<1>7. AnswersHold'
  <2> SUFFICES ASSUME NEW m \in Copies, Answered(m)'
               PROVE  \/ persisted[m] >= observations'[m].persisted_seqno
                      \/ \E b \in 2..uuid : persisted[m] >= forks[b]
    BY <1>3, ZenonT(30) DEF AnswersHold
  <2>1. CASE m = n
    <3>1. observations'[m] = o
      BY <1>4, <2>1, ZenonT(30) DEF Answered
    <3>2. persisted[m] \in Nat
      BY <1>0, ZenonT(30) DEF TypeOK
    <3> QED
      BY <1>2, <2>1, <3>1, <3>2
  <2>2. CASE m # n
    BY <1>0, <1>4, <2>2, ZenonT(30) DEF AnswersHold, Answered
  <2> QED
    BY <2>1, <2>2, ZenonT(30)
<1>8. NoForkMissed'
  <2> SUFFICES ASSUME NEW b \in 2..uuid
               PROVE  \E m \in Copies :
                        /\ node_uuid[m] # expected_vbucket_uuid
                        /\ Answered(m)' => observations'[m].persisted_seqno <= forks[b]
    BY <1>3, ZenonT(30) DEF NoForkMissed
  <2>1. PICK m \in Copies :
          /\ node_uuid[m] # expected_vbucket_uuid
          /\ Answered(m) => observations[m].persisted_seqno <= forks[b]
    BY <1>0, ZenonT(30) DEF NoForkMissed
  <2>2. CASE m = n
    <3>1. ~Answered(m)'
      BY <1>2, <1>4, <2>1, <2>2, ZenonT(30) DEF Answered
    <3> QED
      BY <2>1, <3>1, ZenonT(30)
  <2>3. CASE m # n
    BY <1>4, <2>1, <2>3, ZenonT(30) DEF Answered
  <2> QED
    BY <2>2, <2>3, ZenonT(30)
<1> QED
  BY <1>5, <1>6, <1>7, <1>8, ZenonT(30) DEF MitigationInv

\* What a cycle finds persisted everywhere survives, although the copies answered at
\* different times.
LEMMA PublishedSurvives ==
  ASSUME MitigationInv, \A n \in Copies : observations[n] # None,
         AggregateObservations.kind = "Persisted"
  PROVE  /\ AggregateObservations.persisted_seqno \in Nat
         /\ Survives(AggregateObservations.persisted_seqno)
<1> DEFINE answers == {observations[n] : n \in Copies} \ {Failed}
           changed == {o \in answers : o.did_failover \/ o.vbucket_uuid # expected_vbucket_uuid}
           invalid == {o \in answers : o.persisted_seqno > o.current_seqno}
           least == Min({o.persisted_seqno : o \in answers})
<1>0. TypeOK /\ AnswersHold /\ NoForkMissed
  BY ZenonT(30) DEF MitigationInv
<1>1. AggregateObservations = IF changed # {} THEN [kind |-> "BranchChanged"]
                              ELSE IF invalid # {} \/ \E n \in Copies : observations[n] = Failed
                              THEN [kind |-> "Transient"]
                              ELSE [kind |-> "Persisted", persisted_seqno |-> least]
  BY ZenonT(30) DEF AggregateObservations
<1> HIDE DEF invalid
<1>2. /\ changed = {} /\ \A n \in Copies : observations[n] # Failed
      /\ AggregateObservations.persisted_seqno = least
  <2> HIDE DEF changed, least
  <2>1. [kind |-> "BranchChanged"].kind = "BranchChanged" /\ [kind |-> "Transient"].kind = "Transient"
    BY ZenonT(30)
  <2>2. /\ "BranchChanged" # "Persisted" /\ "Transient" # "Persisted"
        /\ [kind |-> "Persisted", persisted_seqno |-> least].persisted_seqno = least
    BY ZenonT(30)
  <2> QED
    BY <1>1, <2>1, <2>2, ZenonT(30)
<1>3. ASSUME NEW n \in Copies
      PROVE  /\ Answered(n) /\ observations[n] \in answers
             /\ observations[n].persisted_seqno \in Nat
  <2>1. observations[n] \in answers
    BY <1>2, ZenonT(30)
  <2>2. observations[n].vbucket_uuid = expected_vbucket_uuid
    BY <1>2, <2>1, ZenonT(30)
  <2>3. observations[n] \notin {None, Failed}
    BY <1>2, ZenonT(30)
  <2>4. observations[n].persisted_seqno \in Nat
    BY <1>0, <2>3, ZenonT(30) DEF TypeOK
  <2> QED
    BY <2>1, <2>2, <2>3, <2>4, ZenonT(30) DEF Answered
<1> DEFINE numbers == {o.persisted_seqno : o \in answers}
<1>4. numbers \in SUBSET Nat /\ numbers # {}
  BY <1>3, CopiesAssumption, ZenonT(30)
<1>5. least \in numbers /\ \A x \in numbers : least <= x
  BY <1>4, MinIsLeast, ZenonT(30)
<1>6. least \in Nat /\ \A n \in Copies : least <= observations[n].persisted_seqno
  BY <1>3, <1>4, <1>5, ZenonT(30)
<1> HIDE DEF answers, changed, least, numbers
<1>7. \A b \in 2..uuid : forks[b] \in Nat
  BY <1>0, BoundsAssumption DEF TypeOK
<1>8. ASSUME NEW b \in 2..uuid PROVE forks[b] >= least
  <2>1. PICK n \in Copies : Answered(n) => observations[n].persisted_seqno <= forks[b]
    BY <1>0, ZenonT(30) DEF NoForkMissed
  <2>2. observations[n].persisted_seqno <= forks[b] /\ observations[n].persisted_seqno \in Nat
    BY <1>3, <2>1, ZenonT(30)
  <2> QED
    BY <1>6, <1>7, <2>2
<1>9. ASSUME NEW n \in Copies PROVE persisted[n] >= least
  <2>1. persisted[n] \in Nat /\ observations[n].persisted_seqno \in Nat
    BY <1>0, <1>3, ZenonT(30) DEF TypeOK
  <2>2. CASE persisted[n] >= observations[n].persisted_seqno
    BY <1>6, <2>1, <2>2
  <2>3. CASE \E b \in 2..uuid : persisted[n] >= forks[b]
    BY <1>6, <1>7, <1>8, <2>1, <2>3
  <2> QED
    BY <1>0, <1>3, <2>2, <2>3, ZenonT(30) DEF AnswersHold
<1> QED
  BY <1>2, <1>6, <1>8, <1>9, ZenonT(30) DEF Survives

\* The end of a cycle publishes nothing, what it published before, or what it found.
LEMMA CycleStep ==
  ASSUME MitigationInv, ObserveCycle
  PROVE  MitigationInv'
<1> DEFINE outcome == AggregateObservations
<1>0. /\ TypeOK /\ DiskBehind /\ AnswersHold /\ NoForkMissed /\ DeliveredSurvives
  BY ZenonT(30) DEF MitigationInv
<1>1. /\ snapshot' = Apply(outcome) /\ worker' = "sleeping"
      /\ observations' = [n \in Copies |-> None]
      /\ \A n \in Copies : observations[n] # None
      /\ UNCHANGED <<active, up, uuid, forks, node_uuid, current, persisted, restarts,
                     failures, cancel, received, delivered, failed>>
  BY ZenonT(30) DEF ObserveCycle, cluster, delivery
<1>2. \/ outcome.kind = "Persisted"
      \/ outcome.kind = "BranchChanged"
      \/ outcome.kind = "Transient"
  BY DEF AggregateObservations
<1>3. outcome.kind = "Persisted" => outcome.persisted_seqno \in Nat /\ Survives(outcome.persisted_seqno)
  BY <1>1, PublishedSurvives, ZenonT(30)
<1> HIDE DEF outcome
<1>4. /\ snapshot' \in [persisted_seqno: Nat \cup {None}, last_error: BOOLEAN]
      /\ \/ snapshot'.persisted_seqno = None
         \/ snapshot'.persisted_seqno = snapshot.persisted_seqno
         \/ outcome.kind = "Persisted" /\ snapshot'.persisted_seqno = outcome.persisted_seqno
  <2>0. snapshot \in [persisted_seqno: Nat \cup {None}, last_error: BOOLEAN]
    BY <1>0, ZenonT(30) DEF TypeOK
  <2>1. CASE outcome.kind = "BranchChanged"
    <3>1. snapshot' = [persisted_seqno |-> None, last_error |-> TRUE]
      BY <1>1, <2>1 DEF Apply
    <3> QED
      BY <3>1
  <2>2. CASE outcome.kind = "Transient"
    <3>1. snapshot' = [snapshot EXCEPT !.last_error = TRUE]
      BY <1>1, <2>2 DEF Apply
    <3> QED
      BY <2>0, <3>1
  <2>3. CASE outcome.kind = "Persisted"
    <3>1. \/ snapshot' = [persisted_seqno |-> None, last_error |-> TRUE]
          \/ snapshot' = [persisted_seqno |-> outcome.persisted_seqno, last_error |-> FALSE]
      BY <1>1, <2>3 DEF Apply
    <3>2. CASE snapshot' = [persisted_seqno |-> None, last_error |-> TRUE]
      BY <3>2
    <3>3. CASE snapshot' = [persisted_seqno |-> outcome.persisted_seqno, last_error |-> FALSE]
      <4> DEFINE number == outcome.persisted_seqno
      <4>1. number \in Nat
        BY <1>3, <2>3, ZenonT(30)
      <4>2. snapshot' = [persisted_seqno |-> number, last_error |-> FALSE]
        BY <3>3, ZenonT(30)
      <4> HIDE DEF number
      <4>3. /\ snapshot' \in [persisted_seqno: Nat \cup {None}, last_error: BOOLEAN]
            /\ snapshot'.persisted_seqno = number
        BY <4>1, <4>2
      <4> QED
        BY <2>3, <4>3, ZenonT(30) DEF number
    <3> QED
      BY <3>1, <3>2, <3>3, ZenonT(30)
  <2> QED
    BY <1>2, <2>1, <2>2, <2>3, ZenonT(30)
<1>5. TypeOK' /\ DiskBehind'
  BY <1>0, <1>1, <1>4, ZenonT(30) DEF TypeOK, DiskBehind
<1>6. \A n \in Copies : ~Answered(n)'
  BY <1>1, ZenonT(30) DEF Answered
<1>7. AnswersHold' /\ NoForkMissed'
  BY <1>0, <1>1, <1>6, ZenonT(30) DEF AnswersHold, NoForkMissed
<1>8. DeliveredSurvives'
  BY <1>0, <1>1, <1>3, <1>4, ZenonT(30) DEF DeliveredSurvives, Survives
<1> QED
  BY <1>5, <1>7, <1>8, ZenonT(30) DEF MitigationInv

\* The observer sleeps, wakes or stops.
LEMMA ObserverStep ==
  ASSUME MitigationInv, NextCycle \/ ObserverStops
  PROVE  MitigationInv'
<1>0. /\ TypeOK /\ DiskBehind /\ AnswersHold /\ NoForkMissed /\ DeliveredSurvives
  BY ZenonT(30) DEF MitigationInv
<1>1. /\ observations' = observations \/ observations' = [n \in Copies |-> None]
      /\ worker' \in {"observing", "sleeping", "stopped"}
      /\ UNCHANGED <<active, up, uuid, forks, node_uuid, current, persisted, restarts,
                     snapshot, failures, cancel, received, delivered, failed>>
  BY ZenonT(30) DEF NextCycle, ObserverStops, cluster, delivery
<1>2. TypeOK' /\ DiskBehind' /\ DeliveredSurvives'
  BY <1>0, <1>1, ZenonT(30) DEF TypeOK, DiskBehind, DeliveredSurvives, Survives
<1>3. \A n \in Copies : Answered(n)' => Answered(n) /\ observations'[n] = observations[n]
  BY <1>1, ZenonT(30) DEF Answered
<1>4. AnswersHold' /\ NoForkMissed'
  BY <1>0, <1>1, <1>3, ZenonT(30) DEF AnswersHold, NoForkMissed
<1> QED
  BY <1>2, <1>4, ZenonT(30) DEF MitigationInv

-----------------------------------------------------------------------------
(* The steps of the delivery.                                              *)

\* Only an event that the published snapshot covers is let through.
LEMMA DeliveryStep ==
  ASSUME MitigationInv, Receive \/ WaitUntilSafe \/ StallExceeded \/ Close
  PROVE  MitigationInv'
<1>0. /\ TypeOK /\ DiskBehind /\ AnswersHold /\ NoForkMissed /\ DeliveredSurvives
  BY ZenonT(30) DEF MitigationInv
<1>1. UNCHANGED <<active, up, uuid, forks, node_uuid, current, persisted, restarts,
                  observations, snapshot, worker, failures>>
  BY ZenonT(30) DEF Receive, WaitUntilSafe, StallExceeded, Close, cluster, observer
<1>2. DiskBehind' /\ AnswersHold' /\ NoForkMissed'
  BY <1>0, <1>1, ZenonT(30) DEF DiskBehind, AnswersHold, NoForkMissed, Answered
<1>3. /\ received' \in Nat /\ delivered' \in Nat /\ delivered' <= received'
      /\ cancel' \in BOOLEAN /\ failed' \in BOOLEAN
      /\ Survives(delivered')
  <2>0. /\ received \in Nat /\ delivered \in Nat /\ delivered <= received
        /\ cancel \in BOOLEAN /\ failed \in BOOLEAN /\ Survives(delivered)
    BY <1>0, ZenonT(30) DEF TypeOK, DeliveredSurvives
  <2>1. CASE WaitUntilSafe
    <3>1. /\ snapshot.persisted_seqno \in Nat /\ snapshot.persisted_seqno >= received
          /\ Survives(snapshot.persisted_seqno)
          /\ delivered' = received /\ UNCHANGED <<cancel, received, failed>>
      BY <1>0, <2>1, ZenonT(30) DEF WaitUntilSafe, Safe, TypeOK, DeliveredSurvives
    <3>2. Survives(received)
      <4>1. /\ \A n \in Copies : persisted[n] \in Nat
            /\ \A b \in 2..uuid : forks[b] \in Nat
        BY <1>0, BoundsAssumption DEF TypeOK
      <4> QED
        BY <2>0, <3>1, <4>1 DEF Survives
    <3> QED
      BY <2>0, <3>1, <3>2
  <2>2. CASE Receive
    BY <2>0, <2>2 DEF Receive
  <2>3. CASE StallExceeded \/ Close
    BY <2>0, <2>3, ZenonT(30) DEF StallExceeded, Close
  <2> QED
    BY <2>1, <2>2, <2>3, ZenonT(30)
<1>4. TypeOK'
  BY <1>0, <1>1, <1>3, ZenonT(30) DEF TypeOK
<1>5. DeliveredSurvives'
  BY <1>0, <1>1, <1>3, ZenonT(30) DEF DeliveredSurvives, Survives
<1> QED
  BY <1>2, <1>4, <1>5, ZenonT(30) DEF MitigationInv

-----------------------------------------------------------------------------

\* The invariant holds when the generation is opened.
LEMMA MitigationInit == Init => MitigationInv
<1> SUFFICES ASSUME Init PROVE MitigationInv
  OBVIOUS
<1>1. TypeOK
  <2>1. /\ active \in Copies /\ up \subseteq Copies
        /\ node_uuid \in [Copies -> 1..uuid] /\ uuid \in 1..MaxBranches
        /\ current \in [Copies -> Nat] /\ persisted \in [Copies -> Nat]
    BY BoundsAssumption DEF Init
  <2>2. forks \in [1..MaxBranches -> Nat]
    BY BoundsAssumption DEF Init
  <2>3. observations \in [Copies -> {None, Failed} \cup
          [did_failover: BOOLEAN, vbucket_uuid: Nat, persisted_seqno: Nat, current_seqno: Nat]]
    BY ZenonT(30) DEF Init
  <2>4. snapshot \in [persisted_seqno: Nat \cup {None}, last_error: BOOLEAN]
    BY DEF Init
  <2>5. /\ worker \in {"observing", "sleeping", "stopped"}
        /\ received \in Nat /\ delivered \in Nat /\ delivered <= received
        /\ failures \in Nat /\ restarts \in Nat
    BY DEF Init
  <2>6. cancel \in BOOLEAN /\ failed \in BOOLEAN
    BY ZenonT(30) DEF Init
  <2> QED
    BY <2>1, <2>2, <2>3, <2>4, <2>5, <2>6, ZenonT(30) DEF TypeOK
<1>2. 2..uuid = {}
  BY DEF Init
<1>3. DiskBehind
  BY DEF Init, DiskBehind
<1>4. AnswersHold /\ NoForkMissed
  BY <1>2, ZenonT(30) DEF Init, AnswersHold, NoForkMissed, Answered
<1>5. Survives(delivered)
  BY <1>2 DEF Init, Survives
<1>6. snapshot.persisted_seqno = None
  BY DEF Init
<1> QED
  BY <1>1, <1>3, <1>4, <1>5, <1>6, ZenonT(30) DEF MitigationInv, DeliveredSurvives

\* Whatever the copies do between the answers of a cycle, and between a cycle and a
\* delivery that relies on it, no failover and no restart makes the server forget an
\* event that was let through, or that the published snapshot would let through.
THEOREM MitigationTheorem == Spec => []DeliveredSurvives
<1>1. MitigationInv /\ [Next]_vars => MitigationInv'
  <2> SUFFICES ASSUME MitigationInv, [Next]_vars PROVE MitigationInv'
    OBVIOUS
  <2>1. CASE UNCHANGED vars
    BY <2>1, ZenonT(30) DEF vars, cluster, observer, delivery, MitigationInv, TypeOK, DiskBehind,
                       AnswersHold, NoForkMissed, Answered, DeliveredSurvives, Survives
  <2>2. CASE Next
    BY <2>2, ReplicateStep, FailoverStep, RestartStep, GrowStep, ObserveStep, CycleStep,
       ObserverStep, DeliveryStep, ZenonT(30) DEF Next
  <2> QED
    BY <2>1, <2>2, ZenonT(30)
<1>2. MitigationInv => DeliveredSurvives
  BY ZenonT(30) DEF MitigationInv
<1> QED
  BY <1>1, <1>2, MitigationInit, PTL DEF Spec

=============================================================================

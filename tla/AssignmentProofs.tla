-------------------------- MODULE AssignmentProofs --------------------------
(***************************************************************************)
(* The chunks of a group partition its vBuckets, for every number of       *)
(* vBuckets and members.  With b = count \div total and r = count % total, *)
(* a chunk ends where the next one starts, at k * b + Lesser(k, r).        *)
(***************************************************************************)
EXTENDS AssignmentGroup, TLAPS

\* Quotient and remainder.
LEMMA Division ==
  ASSUME NEW a \in Nat, NEW d \in Nat \ {0}
  PROVE  /\ a \div d \in Nat
         /\ a % d \in 0..(d - 1)
         /\ a = d * (a \div d) + (a % d)
  OBVIOUS

\* Multiplication is monotone and distributes over a successor.
LEMMA Products ==
  ASSUME NEW j \in Nat, NEW k \in Nat, NEW b \in Nat
  PROVE  /\ j * b \in Nat
         /\ (j + 1) * b = j * b + b
         /\ j <= k => j * b <= k * b
  OBVIOUS

\* Where the chunk of a member starts and ends.
LEMMA Bounds ==
  ASSUME NEW c \in Nat \ {0}, NEW t \in 1..c, NEW m \in 1..t
  PROVE  /\ Start(c, m, t) = (m - 1) * (c \div t) + Lesser(m - 1, c % t)
         /\ Start(c, m, t) + Size(c, m, t) = m * (c \div t) + Lesser(m, c % t)
         /\ Start(c, m, t) \in Nat
         /\ Size(c, m, t) \in Nat \ {0}
<1>0. c \in Nat /\ t \in Nat \ {0}
  OBVIOUS
<1>1. PICK b \in Nat, r \in 0..(t - 1) : b = c \div t /\ r = c % t /\ c = t * b + r
  BY <1>0, Division, Zenon
<1>2. b # 0
  BY <1>1, SMT
<1>3. (m - 1) * b \in Nat /\ m * b = (m - 1) * b + b
  <2>1. m - 1 \in Nat /\ (m - 1) + 1 = m
    OBVIOUS
  <2>2. (m - 1) * b \in Nat /\ ((m - 1) + 1) * b = (m - 1) * b + b
    BY <1>1, <2>1, Products
  <2>3. QED
    BY <2>1, <2>2
<1>4. QED
  BY <1>1, <1>2, <1>3, SMT DEF Start, Size, Lesser

\* A chunk lies within the vBuckets, and before the chunks of later members.
LEMMA Ordered ==
  ASSUME NEW c \in Nat \ {0}, NEW t \in 1..c, NEW m \in 1..t
  PROVE  /\ Start(c, m, t) + Size(c, m, t) <= c
         /\ \A n \in 1..t : m < n => Start(c, m, t) + Size(c, m, t) <= Start(c, n, t)
<1>0. c \in Nat /\ t \in Nat \ {0}
  OBVIOUS
<1>1. PICK b \in Nat, r \in 0..(t - 1) : b = c \div t /\ r = c % t /\ c = t * b + r
  BY <1>0, Division, Zenon
<1>2. Start(c, m, t) + Size(c, m, t) = m * b + Lesser(m, r)
  BY <1>1, Bounds
<1>3. m * b <= t * b /\ m * b \in Nat /\ t * b \in Nat
  BY <1>1, Products
<1>4. ASSUME NEW n \in 1..t, m < n
      PROVE  Start(c, m, t) + Size(c, m, t) <= Start(c, n, t)
  <2>1. Start(c, n, t) = (n - 1) * b + Lesser(n - 1, r)
    BY <1>1, Bounds
  <2>2. m * b <= (n - 1) * b /\ (n - 1) * b \in Nat
    BY <1>1, <1>4, Products
  <2>3. QED
    BY <1>1, <1>2, <1>3, <1>4, <2>1, <2>2, SMT DEF Lesser
<1>5. QED
  BY <1>1, <1>2, <1>3, <1>4, SMT DEF Lesser

\* A vBucket between the start and the end of a chunk is in it.
LEMMA InChunk ==
  ASSUME NEW c \in Nat \ {0}, NEW t \in 1..c, NEW m \in 1..t, NEW v \in Nat,
         Start(c, m, t) <= v, v < Start(c, m, t) + Size(c, m, t)
  PROVE  v \in Chunk(c, m, t)
<1>1. Start(c, m, t) \in Nat /\ Size(c, m, t) \in Nat
  BY Bounds
<1>2. QED
  BY <1>1, SMT DEF Chunk

\* The chunks of different members have nothing in common.
LEMMA ChunksDisjoint ==
  ASSUME NEW c \in Nat \ {0}, NEW t \in 1..c, NEW m \in 1..t, NEW n \in 1..t, m # n
  PROVE  Chunk(c, m, t) \cap Chunk(c, n, t) = {}
<1>1. \/ Start(c, m, t) + Size(c, m, t) <= Start(c, n, t)
      \/ Start(c, n, t) + Size(c, n, t) <= Start(c, m, t)
  BY Ordered
<1>2. /\ Start(c, m, t) \in Nat /\ Size(c, m, t) \in Nat
      /\ Start(c, n, t) \in Nat /\ Size(c, n, t) \in Nat
  BY Bounds
<1>3. QED
  BY <1>1, <1>2, SMT DEF Chunk

\* Every vBucket is in some chunk: the larger chunks come first, and the quotient by the
\* size of a chunk is the member.
LEMMA ChunksCover ==
  ASSUME NEW c \in Nat \ {0}, NEW t \in 1..c, NEW v \in 0..(c - 1)
  PROVE  \E m \in 1..t : v \in Chunk(c, m, t)
<1>0. c \in Nat /\ t \in Nat \ {0}
  OBVIOUS
<1>1. PICK b \in Nat, r \in 0..(t - 1) : b = c \div t /\ r = c % t /\ c = t * b + r
  BY <1>0, Division, Zenon
<1>2. b # 0
  BY <1>1, SMT
<1>3. \A m \in 1..t : /\ Start(c, m, t) = (m - 1) * b + Lesser(m - 1, r)
                      /\ Start(c, m, t) + Size(c, m, t) = m * b + Lesser(m, r)
  BY <1>1, Bounds
<1>4. CASE v < r * (b + 1)
  <2>0. v \in Nat /\ b + 1 \in Nat \ {0}
    BY <1>1
  <2>1. PICK k \in Nat, q \in 0..b : v = (b + 1) * k + q
    <3>1. v \div (b + 1) \in Nat /\ v % (b + 1) \in 0..((b + 1) - 1)
          /\ v = (b + 1) * (v \div (b + 1)) + (v % (b + 1))
      BY <2>0, Division, Zenon
    <3>2. (b + 1) - 1 = b
      BY <1>1
    <3>3. QED
      BY <3>1, <3>2, Zenon
  <2>2. k < r
    <3>1. ASSUME r <= k PROVE FALSE
      <4>1. r * (b + 1) <= k * (b + 1)
        BY <1>1, <2>1, <3>1, Products
      <4>2. QED
        BY <1>1, <1>4, <2>1, <4>1, SMT
    <3>2. QED
      BY <1>1, <2>1, <3>1
  <2>3. k * (b + 1) = k * b + k /\ (k + 1) * b = k * b + b /\ k * b \in Nat
    BY <1>1, <2>1, SMT
  <2>4. k + 1 \in 1..t
    BY <1>1, <2>1, <2>2
  <2>5. Start(c, k + 1, t) = k * b + k /\ Start(c, k + 1, t) + Size(c, k + 1, t) = (k + 1) * b + (k + 1)
    <3>1. (k + 1) - 1 = k /\ Lesser(k, r) = k /\ Lesser(k + 1, r) = k + 1
      BY <1>1, <2>1, <2>2, SMT DEF Lesser
    <3>2. QED
      BY <1>3, <2>4, <3>1, Zenon
  <2>6. v \in Chunk(c, k + 1, t)
    <3>1. v = k * b + k + q
      BY <1>1, <2>1, <2>3, SMT
    <3>2. k * b + k <= v /\ v < (k + 1) * b + (k + 1) /\ v \in Nat
      BY <1>1, <2>1, <2>3, <3>1, SMT
    <3>3. QED
      BY <2>4, <2>5, <3>2, InChunk, Zenon
  <2>7. QED
    BY <2>4, <2>6
<1>5. CASE ~(v < r * (b + 1))
  <2> DEFINE w == v - r
  <2>1. r * (b + 1) = r * b + r /\ r * b \in Nat
    BY <1>1, SMT
  <2>2. w \in Nat /\ r * b <= w /\ w < t * b
    BY <1>1, <1>5, <2>1, SMT
  <2> HIDE DEF w
  <2>3. PICK k \in Nat, q \in 0..(b - 1) : w = b * k + q
    <3>1. b \in Nat \ {0}
      BY <1>1, <1>2
    <3>2. w \div b \in Nat /\ w % b \in 0..(b - 1) /\ w = b * (w \div b) + (w % b)
      BY <2>2, <3>1, Division, Zenon
    <3>3. QED
      BY <3>2, Zenon
  <2>4. r <= k
    <3>1. ASSUME k + 1 <= r PROVE FALSE
      <4>1. (k + 1) * b <= r * b /\ (k + 1) * b = k * b + b /\ k * b \in Nat
        BY <1>1, <2>3, <3>1, Products
      <4>2. QED
        BY <1>1, <1>2, <2>2, <2>3, <4>1, SMT
    <3>2. QED
      BY <1>1, <2>3, <3>1
  <2>5. k < t
    <3>1. ASSUME t <= k PROVE FALSE
      <4>1. t * b <= k * b /\ k * b \in Nat
        BY <1>1, <2>3, <3>1, Products
      <4>2. QED
        BY <1>1, <1>2, <2>2, <2>3, <4>1, SMT
    <3>2. QED
      BY <1>1, <2>3, <3>1
  <2>6. (k + 1) * b = k * b + b /\ k * b \in Nat
    BY <1>1, <2>3, Products
  <2>7. k + 1 \in 1..t
    BY <2>3, <2>5
  <2>8. Start(c, k + 1, t) = k * b + r /\ Start(c, k + 1, t) + Size(c, k + 1, t) = (k + 1) * b + r
    <3>1. (k + 1) - 1 = k /\ Lesser(k, r) = r /\ Lesser(k + 1, r) = r
      BY <1>1, <2>3, <2>4, SMT DEF Lesser
    <3>2. QED
      BY <1>3, <2>7, <3>1, Zenon
  <2>9. v \in Chunk(c, k + 1, t)
    <3>1. v = k * b + q + r
      BY <1>1, <2>3, <2>6, SMT DEF w
    <3>2. k * b + r <= v /\ v < (k + 1) * b + r /\ v \in Nat
      BY <1>1, <2>3, <2>6, <3>1, SMT
    <3>3. QED
      BY <2>7, <2>8, <3>2, InChunk, Zenon
  <2>10. QED
    BY <2>7, <2>9
<1>6. QED
  BY <1>4, <1>5

----------------------------------------------------------------------------

\* What a member owns is its chunk of the configured vBuckets, all of the bucket's.
Owns ==
  /\ count \in Nat /\ total \in Nat /\ num_vbuckets \in Nat
  /\ \A m \in 1..MaxCount :
       \/ owned[m] \in {None, Error}
       \/ /\ Accepted(count, m, total)
          /\ owned[m] = Chunk(count, m, total)
          /\ owned[m] \subseteq 0..(num_vbuckets - 1)
  /\ DOMAIN owned = 1..MaxCount

\* Owns is an invariant of the group.
LEMMA OwnsInvariant == Spec => []Owns
<1>1. Init => Owns
  BY GroupAssumption, SMT DEF Init, Owns
<1>2. Owns /\ [Next]_vars => Owns'
  <2> SUFFICES ASSUME Owns, [Next]_vars PROVE Owns'
    OBVIOUS
  <2>1. CASE UNCHANGED vars
    BY <2>1, Zenon DEF Owns, vars, Accepted
  <2>2. ASSUME NEW m \in 1..MaxCount, Subscribe(m) PROVE Owns'
    <3>1. UNCHANGED <<count, total, num_vbuckets>> /\ DOMAIN owned' = DOMAIN owned
      BY <2>2, Zenon DEF Subscribe
    <3>2. \A n \in 1..MaxCount : n # m => owned'[n] = owned[n]
      BY <2>2, Zenon DEF Subscribe, Owns
    <3>3. \/ owned'[m] = Error
          \/ /\ Accepted(count, m, total)
             /\ owned'[m] = Chunk(count, m, total)
             /\ owned'[m] \subseteq 0..(num_vbuckets - 1)
      BY <2>2, Zenon DEF Subscribe, Owns, Balanced, ResolveAssignment
    <3>4. ASSUME NEW n \in 1..MaxCount
          PROVE  \/ owned'[n] \in {None, Error}
                 \/ /\ Accepted(count', n, total')
                    /\ owned'[n] = Chunk(count', n, total')
                    /\ owned'[n] \subseteq 0..(num_vbuckets' - 1)
      BY <3>1, <3>2, <3>3, Zenon DEF Owns
    <3>5. QED
      BY <3>1, <3>4, Zenon DEF Owns, Accepted
  <2>3. QED
    BY <2>1, <2>2, Zenon DEF Next
<1>3. QED
  BY <1>1, <1>2, PTL DEF Spec

\* No vBucket has two owners, however many vBuckets and members a group has: balanced
\* gives the members of a group disjoint chunks.
THEOREM OneOwnerTheorem == Spec => []OneOwner
<1>1. Owns => OneOwner
  <2> SUFFICES ASSUME Owns, NEW m \in Subscribed, NEW n \in Subscribed, m # n
               PROVE  owned[m] \cap owned[n] = {}
    BY Zenon DEF OneOwner
  <2>1. /\ Accepted(count, m, total) /\ owned[m] = Chunk(count, m, total)
        /\ Accepted(count, n, total) /\ owned[n] = Chunk(count, n, total)
    BY Zenon DEF Owns, Subscribed
  <2>2. count \in Nat \ {0} /\ total \in 1..count /\ m \in 1..total /\ n \in 1..total
    BY <2>1, SMT DEF Owns, Accepted
  <2>3. QED
    BY <2>1, <2>2, ChunksDisjoint, Zenon
<1>2. QED
  BY <1>1, OwnsInvariant, PTL

\* Once all members have subscribed, every configured vBucket has an owner and every
\* member a vBucket, for groups of any size.
THEOREM AllOwnedTheorem == Spec => []AllOwned
<1>1. Owns => AllOwned
  <2> SUFFICES ASSUME Owns, Subscribed = 1..total, total > 0
               PROVE  /\ \A m \in Subscribed : owned[m] # {}
                      /\ UNION {owned[m] : m \in Subscribed} = 0..(count - 1)
                      /\ count <= num_vbuckets
    BY Zenon DEF AllOwned
  <2>1. ASSUME NEW m \in 1..total
        PROVE  /\ Accepted(count, m, total) /\ owned[m] = Chunk(count, m, total)
               /\ owned[m] \subseteq 0..(num_vbuckets - 1)
    BY Zenon DEF Owns, Subscribed
  <2>2. total \in 1..total
    BY SMT DEF Owns
  <2>3. count \in Nat \ {0} /\ total \in 1..count /\ num_vbuckets \in Nat
    BY <2>1, <2>2, SMT DEF Owns, Accepted
  <2>4. ASSUME NEW m \in 1..total
        PROVE  owned[m] # {} /\ owned[m] \subseteq 0..(count - 1)
    <3>1. owned[m] = Chunk(count, m, total)
      BY <2>1
    <3>2. /\ Start(count, m, total) \in Nat /\ Size(count, m, total) \in Nat \ {0}
          /\ Start(count, m, total) + Size(count, m, total) <= count
      BY <2>3, Bounds, Ordered
    <3>3. QED
      BY <2>3, <3>1, <3>2, SMT DEF Chunk
  <2>5. ASSUME NEW v \in 0..(count - 1) PROVE \E m \in 1..total : v \in owned[m]
    <3>1. PICK m \in 1..total : v \in Chunk(count, m, total)
      BY <2>3, ChunksCover, Zenon
    <3>2. QED
      BY <2>1, <3>1, Zenon
  <2>6. UNION {owned[m] : m \in Subscribed} = 0..(count - 1)
    BY <2>4, <2>5, Zenon
  <2>7. count <= num_vbuckets
    <3>1. count - 1 \in 0..(count - 1)
      BY <2>3
    <3>2. PICK m \in 1..total : count - 1 \in owned[m]
      BY <2>5, <3>1, Zenon
    <3>3. count - 1 \in 0..(num_vbuckets - 1)
      BY <2>1, <3>2, Zenon
    <3>4. QED
      BY <2>3, <3>3
  <2>8. QED
    BY <2>4, <2>6, <2>7, Zenon
<1>2. QED
  BY <1>1, OwnsInvariant, PTL

\* The assignments of a group partition its vBuckets, for groups of any size: what balanced
\* gives to one member is neither given to another nor left out.
THEOREM PartitionTheorem == Spec => []Partitioned
  BY OneOwnerTheorem, AllOwnedTheorem, PTL DEF Partitioned

=============================================================================

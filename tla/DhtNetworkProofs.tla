-------------------------- MODULE DhtNetworkProofs --------------------------
(***************************************************************************)
(* A settled network of any members: a lookup all of whose queries are     *)
(* answered finds the nearest of all, and a reported value is found.  A    *)
(* store over any answers, and the loop of add_nodes over any list.        *)
(*                                                                         *)
(* The first part is about tables alone: a set of members that is closed   *)
(* under what the nearest of it answer holds the nearest of all.  The      *)
(* second shows that a lookup ends with such a set, from QueryInv of       *)
(* DhtQueryProofs, and follows one member that keeps the value.  In the    *)
(* third, QueryInv carries the proof while a store looks for nodes; once   *)
(* they are found the lookup has stopped, and what remains is to count.    *)
(***************************************************************************)
EXTENDS DhtQueryProofs, DhtQueryStore, DhtAddNodes, DhtNetwork, SequenceTheorems

\* Sets of members are finite sets of naturals.
LEMMA MembersFinite ==
  ASSUME NEW S \in SUBSET Node
  PROVE  S \in SUBSET Nat /\ IsFiniteSet(S) /\ Cardinality(S) \in Nat
BY NodeAssumption, FS_Subset, FS_CardinalityType

LEMMA WeightsArePositive == \A b \in 0..Bits : Weight[b] \in Nat /\ Weight[b] > 0
<1>. DEFINE Bad == {b \in 0..Bits : Weight[b] = 0}
<1>1. \A b \in 0..Bits : Weight[b] \in Nat
  BY WeightAssumption
<1>2. ASSUME Bad # {} PROVE FALSE
  <2>1. Bad \in SUBSET Nat
    BY WeightAssumption
  <2>. HIDE DEF Bad
  <2>2. PICK b \in Bad : \A c \in Bad : b <= c
    BY <1>2, <2>1, LeastElement
  <2>3. b \in 0..Bits /\ Weight[b] = 0
    BY <2>2 DEF Bad
  <2>4. b # 0
    BY <2>3, WeightAssumption
  <2>5. b - 1 \in 0..Bits - 1 /\ b - 1 \in 0..Bits /\ (b - 1) + 1 = b
    BY <2>3, <2>4, WeightAssumption
  <2>6. Weight[b] = 2 * Weight[b - 1]
    BY <2>5, WeightAssumption
  <2>7. Weight[b - 1] = 0
    BY <1>1, <2>3, <2>5, <2>6
  <2>8. b - 1 \in Bad
    BY <2>5, <2>7 DEF Bad
  <2>. QED  BY <2>2, <2>3, <2>5, <2>8
<1>. QED  BY <1>1, <1>2

\* Every other member is in some bucket.
LEMMA EveryMemberInBucket ==
  ASSUME NEW n \in Node, NEW m \in Node, m # n
  PROVE  \E b \in 0..Bits - 1 : m \in Bucket(n, b)
<1>. DEFINE Agree == {b \in 0..Bits : m \div Weight[b] = n \div Weight[b]}
<1>1. n \in Nat /\ m \in Nat /\ n < Weight[Bits] /\ m < Weight[Bits] /\ Bits \in 0..Bits
  BY NodeAssumption, MembersAssumption, WeightAssumption
<1>2. Bits \in Agree
  <2>1. m \div Weight[Bits] = 0 /\ n \div Weight[Bits] = 0
    BY <1>1, WeightsArePositive
  <2>. QED  BY <1>1, <2>1
<1>3. 0 \notin Agree
  <2>1. m \div 1 = m /\ n \div 1 = n
    BY <1>1
  <2>. QED  BY <2>1, WeightAssumption
<1>4. Agree \in SUBSET Nat
  BY WeightAssumption
<1>. HIDE DEF Agree
<1>5. PICK b \in Agree : \A c \in Agree : b <= c
  BY <1>2, <1>4, LeastElement
<1>6. b \in 0..Bits /\ b # 0 /\ m \div Weight[b] = n \div Weight[b]
  BY <1>3, <1>5 DEF Agree
<1>7. b - 1 \in 0..Bits - 1 /\ b - 1 \in 0..Bits /\ (b - 1) + 1 = b /\ ~ (b <= b - 1)
  BY <1>6, WeightAssumption
<1>8. m \div Weight[b - 1] # n \div Weight[b - 1]
  BY <1>5, <1>7 DEF Agree
<1>. QED  BY <1>6, <1>7, <1>8 DEF Bucket

\* A bucket lies on one side of its member: one nearer means all are nearer.
LEMMA BucketOnOneSide ==
  ASSUME NEW z \in Node, NEW b \in 0..Bits - 1, NEW x \in Bucket(z, b), x < z,
         NEW y \in Bucket(z, b)
  PROVE  y < z
<1>. DEFINE w == Weight[b]
            Half(n) == n \div w
<1>1. w \in Nat /\ w > 0 /\ Weight[b + 1] = 2 * w
  BY WeightsArePositive, WeightAssumption
<1>2. x \in Nat /\ y \in Nat /\ z \in Nat
  BY NodeAssumption DEF Bucket
<1>3. /\ x \div (2 * w) = z \div (2 * w) /\ y \div (2 * w) = z \div (2 * w)
      /\ Half(x) # Half(z) /\ Half(y) # Half(z)
  BY <1>1 DEF Bucket
<1>. HIDE DEF w
<1>4. \A n \in Nat : n \div (2 * w) = Half(n) \div 2 /\ Half(n) \in Nat
  BY <1>1
<1>5. \A n \in Nat, m \in Nat : Half(n) < Half(m) => n < m
  BY <1>1
<1>. HIDE DEF Half
<1>6. Half(x) \div 2 = Half(z) \div 2 /\ Half(y) \div 2 = Half(z) \div 2
  BY <1>2, <1>3, <1>4
<1>7. ~ (Half(z) < Half(x))
  BY <1>2, <1>4, <1>5
<1>8. Half(x) \in Nat /\ Half(y) \in Nat /\ Half(z) \in Nat
  BY <1>2, <1>4
<1>9. Half(y) < Half(z)
  BY <1>3, <1>6, <1>7, <1>8
<1>. QED  BY <1>2, <1>5, <1>9

\* What a table knows of a bucket: all of it, or k_ of its members.
LEMMA TableKnows ==
  ASSUME NEW n \in Node, NEW T \in Tables(n), NEW m \in Node, m # n
  PROVE  \E b \in 0..Bits - 1 :
            /\ m \in Bucket(n, b)
            /\ m \in T \/ Cardinality(T \cap Bucket(n, b)) = K
<1>1. PICK b \in 0..Bits - 1 : m \in Bucket(n, b)
  BY EveryMemberInBucket
<1>. DEFINE B == Bucket(n, b)
<1>2. T \in SUBSET (Node \ {n}) /\ Cardinality(T \cap B) = Least(K, Cardinality(B))
  BY DEF Tables
<1>3. B \in SUBSET Node /\ T \cap B \in SUBSET B
  BY DEF Bucket
<1>. HIDE DEF B
<1>4. /\ IsFiniteSet(B) /\ Cardinality(B) \in Nat
      /\ m \notin T => Cardinality(T \cap B) # Cardinality(B)
  <2>1. IsFiniteSet(B) /\ Cardinality(B) \in Nat
    BY <1>3, MembersFinite
  <2>2. Cardinality(T \cap B) = Cardinality(B) => T \cap B = B
    BY <1>3, <2>1, FS_Subset
  <2>3. m \in B
    BY <1>1 DEF B
  <2>. QED  BY <2>1, <2>2, <2>3
<1>5. m \notin T => Cardinality(T \cap B) = K
  BY <1>2, <1>4, KAssumption DEF Least
<1>. QED  BY <1>1, <1>5 DEF B

\* The nearest of a set closed under the answers of its nearest members are the
\* nearest of all: if they are k_, whoever were nearer than one of them would be
\* known to it, or would share a bucket with k_ that are; if they are fewer,
\* their tables are short enough to hold everybody.
LEMMA ClosedHoldsNearest ==
  ASSUME NEW S \in SUBSET Node, S # {},
         \A n \in ClosestIn(S, K) : \E T \in Tables(n) : NearestTo(T) \subseteq S
  PROVE  ClosestIn(S, K) = ClosestIn(Node, K)
<1>. DEFINE L == ClosestIn(S, K)
            C == ClosestIn(Node, K)
<1>1. /\ S \in SUBSET Nat /\ IsFiniteSet(S) /\ Node \in SUBSET Nat /\ IsFiniteSet(Node)
      /\ K \in Nat /\ K > 0
  BY MembersFinite, NodeAssumption, KAssumption
<1>2. /\ L \in SUBSET S /\ C \in SUBSET Node
      /\ L \in SUBSET Nat /\ IsFiniteSet(L) /\ Cardinality(L) \in Nat
      /\ \A x \in L : Cardinality(Before(S, x)) < K
      /\ \A x \in C : Cardinality(Before(Node, x)) < K
  BY <1>1, ClosestBasics DEF ClosestIn
<1>3. \A n \in L : \E T \in Tables(n) : NearestTo(T) \subseteq S
  OBVIOUS
<1>4. Cardinality(L) <= K /\ (L # S => Cardinality(L) = K)
  BY <1>1, ClosestCardinality
<1>5. \A x \in C : x \in S => x \in L
  BY <1>1, ClosestAntitone
<1>. HIDE DEF L, C
<1>6. ASSUME Cardinality(L) = K PROVE L = C
  <2>1. ASSUME NEW x \in C, x \notin L PROVE FALSE
    <3>1. x \in Node /\ x \in Nat /\ x \notin S
      BY <1>1, <1>2, <1>5, <2>1
    <3>2. PICK z \in L : x < z
      <4>1. ASSUME \A z \in L : z < x PROVE FALSE
        <5>1. L \in SUBSET Before(Node, x)
          BY <1>2, <4>1 DEF Before
        <5>2. Cardinality(L) <= Cardinality(Before(Node, x))
          BY <1>1, <3>1, <5>1, BeforeFinite, FS_Subset
        <5>3. Cardinality(Before(Node, x)) < K /\ Cardinality(Before(Node, x)) \in Nat
          BY <1>1, <1>2, <2>1, <3>1, BeforeFinite
        <5>. QED  BY <1>1, <1>6, <5>2, <5>3
      <4>. QED  BY <1>2, <2>1, <3>1, <4>1
    <3>3. z \in Node /\ z \in Nat /\ z \in S
      BY <1>1, <1>2
    <3>4. PICK T \in Tables(z) : NearestTo(T) \subseteq S
      BY <1>3
    <3>5. T \in SUBSET Node /\ T \in SUBSET Nat /\ IsFiniteSet(T)
      <4>1. T \in SUBSET Node
        BY DEF Tables
      <4>. QED  BY <4>1, MembersFinite
    <3>6. x \notin T
      <4>1. ASSUME x \in T PROVE FALSE
        <5>1. x \in NearestTo(T)
          BY <1>1, <2>1, <3>5, <4>1, ClosestAntitone DEF C, NearestTo
        <5>. QED  BY <3>1, <3>4, <5>1
      <4>. QED  BY <4>1
    <3>7. PICK b \in 0..Bits - 1 :
             x \in Bucket(z, b) /\ Cardinality(T \cap Bucket(z, b)) = K
      BY <3>1, <3>2, <3>3, <3>6, TableKnows
    <3>. DEFINE N == T \cap Bucket(z, b)
                Q == ClosestIn(T, K)
    <3>8. N \in SUBSET T /\ Cardinality(N) = K /\ \A y \in N : y < z
      BY <3>2, <3>3, <3>7, BucketOnOneSide
    <3>. HIDE DEF N
    <3>9. /\ Q \in SUBSET T /\ IsFiniteSet(Q) /\ Q \in SUBSET S
          /\ \A w \in Q : Cardinality(Before(T, w)) < K
          /\ Q # T => Cardinality(Q) = K
      BY <1>1, <3>4, <3>5, ClosestBasics, ClosestCardinality DEF NearestTo, ClosestIn
    <3>. HIDE DEF Q
    <3>10. \A w \in Q : w < z
      <4>. SUFFICES ASSUME NEW w \in Q, ~ (w < z) PROVE FALSE
        OBVIOUS
      <4>1. w \in Nat /\ w \in T
        BY <3>5, <3>9
      <4>2. N \in SUBSET Before(T, w)
        BY <3>3, <3>5, <3>8, <4>1 DEF Before
      <4>3. Cardinality(N) <= Cardinality(Before(T, w)) /\ Cardinality(Before(T, w)) \in Nat
        BY <3>5, <4>1, <4>2, BeforeFinite, FS_Subset
      <4>. QED  BY <1>1, <3>8, <3>9, <4>3
    <3>11. Cardinality(Q) \in Nat /\ K <= Cardinality(Q)
      <4>1. Cardinality(Q) \in Nat
        BY <3>9, FS_CardinalityType
      <4>2. Q = T => Cardinality(N) <= Cardinality(Q)
        BY <3>5, <3>8, FS_Subset
      <4>. QED  BY <1>1, <3>8, <3>9, <4>1, <4>2
    <3>12. Q \in SUBSET Before(S, z)
      BY <3>9, <3>10 DEF Before
    <3>13. Cardinality(Q) <= Cardinality(Before(S, z)) /\ Cardinality(Before(S, z)) \in Nat
      BY <1>1, <3>3, <3>12, BeforeFinite, FS_Subset
    <3>14. Cardinality(Before(S, z)) < K
      BY <1>2, <3>2
    <3>. QED  BY <1>1, <3>11, <3>13, <3>14
  <2>2. C \in SUBSET L
    BY <2>1
  <2>3. ASSUME NEW y \in L, y \notin C PROVE FALSE
    <3>1. y \in Node /\ y \in Nat
      BY <1>1, <1>2
    <3>2. Cardinality(C) = K /\ \A x \in C : x < y
      BY <1>1, <2>3, <3>1, ClosestBasics, ClosestCardinality DEF C
    <3>3. C \in SUBSET Before(S, y)
      BY <1>2, <2>2, <3>2 DEF Before
    <3>4. Cardinality(C) <= Cardinality(Before(S, y)) /\ Cardinality(Before(S, y)) \in Nat
      BY <1>1, <3>1, <3>3, BeforeFinite, FS_Subset
    <3>5. Cardinality(Before(S, y)) < K
      BY <1>2
    <3>. QED  BY <1>1, <3>2, <3>4, <3>5
  <2>. QED  BY <2>2, <2>3
<1>7. ASSUME Cardinality(L) < K PROVE L = C
  <2>1. L = S
    BY <1>1, <1>2, <1>4, <1>7
  <2>2. PICK n \in S : TRUE
    OBVIOUS
  <2>3. PICK T \in Tables(n) : NearestTo(T) \subseteq S
    BY <1>3, <2>1
  <2>4. T \in SUBSET Node /\ T \in SUBSET Nat /\ IsFiniteSet(T) /\ Cardinality(T) \in Nat
    <3>1. T \in SUBSET Node
      BY DEF Tables
    <3>. QED  BY <3>1, MembersFinite
  <2>5. NearestTo(T) = T /\ Cardinality(T) < K
    <3>1. Cardinality(NearestTo(T)) <= Cardinality(S)
      BY <1>1, <2>3, FS_Subset
    <3>2. Cardinality(NearestTo(T)) # K
      BY <1>1, <1>2, <1>7, <2>1, <3>1
    <3>3. NearestTo(T) = T
      BY <1>1, <2>4, <3>2, ClosestCardinality DEF NearestTo
    <3>. QED  BY <1>1, <1>2, <1>7, <2>1, <2>4, <3>1, <3>3
  <2>6. ASSUME NEW m \in Node, m # n PROVE m \in T
    <3>1. PICK b \in 0..Bits - 1 : m \in T \/ Cardinality(T \cap Bucket(n, b)) = K
      BY <2>6, TableKnows
    <3>2. T \cap Bucket(n, b) \in SUBSET T
      OBVIOUS
    <3>3. Cardinality(T \cap Bucket(n, b)) <= Cardinality(T)
      BY <2>4, <3>2, FS_Subset
    <3>. QED  BY <1>1, <2>4, <2>5, <3>1, <3>3
  <2>7. S = Node
    BY <2>3, <2>5, <2>6
  <2>. QED  BY <2>1, <2>7 DEF L, C
<1>8. L = C
  BY <1>1, <1>2, <1>4, <1>6, <1>7
<1>. QED  BY <1>8 DEF L, C
-----------------------------------------------------------------------------
\* What DhtQueryProofs shows of either lookup.
FindP == INSTANCE DhtQueryProofs WITH FindValue <- FALSE,
  list <- nlist, pending <- npending, active <- nactive, phase <- nphase,
  promise <- npromise, inflight <- ninflight, asked <- nasked, offered <- noffered
GetP == INSTANCE DhtQueryProofs WITH FindValue <- TRUE,
  list <- nlist, pending <- npending, active <- nactive, phase <- nphase,
  promise <- npromise, inflight <- ninflight, asked <- nasked, offered <- noffered

LookupInv == FindP!QueryInv

\* LookupInv is the same of both kinds of lookup.
LEMMA SameInvariant == LookupInv <=> GetP!QueryInv
BY Zenon DEF LookupInv, FindP!QueryInv, GetP!QueryInv, FindP!TypeOK, GetP!TypeOK,
   FindP!ListIsClosest, GetP!ListIsClosest, FindP!AskedOnce, GetP!AskedOnce,
   FindP!ActiveIsInFlight, GetP!ActiveIsInFlight, FindP!EndsExhausted, GetP!EndsExhausted,
   FindP!AnsweredOnStop, GetP!AnsweredOnStop, FindP!Bookkeeping, GetP!Bookkeeping,
   FindP!Unanswered, GetP!Unanswered, FindP!ClosestIn, GetP!ClosestIn,
   FindP!Before, GetP!Before, FindP!Cardinality, GetP!Cardinality

\* What of it is needed here.
LEMMA QueryFacts ==
  ASSUME LookupInv
  PROVE  /\ nlist = ClosestIn(noffered, K) /\ nlist \subseteq noffered
         /\ noffered \in SUBSET Node /\ nasked \in SUBSET Node
         /\ nphase \in {"created", "running"} => npromise.kind = "none"
         /\ npromise.kind \in {"nodes", "not found"} =>
              /\ ninflight = {} /\ nlist \subseteq nasked
              /\ npromise.kind = "nodes" => npromise.nodes = nlist
<1>1. \A S, c : FindP!ClosestIn(S, c) = ClosestIn(S, c)
  BY DEF FindP!ClosestIn, ClosestIn, FindP!Before, Before, FindP!Cardinality, Cardinality
<1>2. nlist = ClosestIn(noffered, K)
  BY <1>1 DEF LookupInv, FindP!QueryInv, FindP!ListIsClosest
<1>3. noffered \in SUBSET Node /\ nasked \in SUBSET Node
  BY DEF LookupInv, FindP!QueryInv, FindP!TypeOK
<1>4. nphase \in {"created", "running"} => npromise.kind = "none"
  BY DEF LookupInv, FindP!QueryInv, FindP!AnsweredOnStop, FindP!Unanswered
<1>5. npromise.kind \in {"nodes", "not found"} =>
        /\ ninflight = {} /\ ClosestIn(noffered, K) \subseteq nasked
        /\ npromise.kind = "nodes" => npromise.nodes = ClosestIn(noffered, K)
  BY <1>1 DEF LookupInv, FindP!QueryInv, FindP!EndsExhausted
<1>. QED  BY <1>2, <1>3, <1>4, <1>5 DEF ClosestIn

\* Each step of a lookup is one of DhtQuery, as DhtQueryProofs instantiates it.
LEMMA FindSteps ==
  ASSUME LookupInv,
         \/ Find!StartUp
         \/ \E n \in Node : Find!OnNoAnswer(n)
         \/ \E n \in Node, nodes \in SUBSET Node : Find!OnNodesFrom(n, nodes)
  PROVE  LookupInv'
<1>. USE DEF Find!SendQueries, FindP!SendQueries, Find!ClosestIn, FindP!ClosestIn,
   Find!Before, FindP!Before, Find!Cardinality, FindP!Cardinality, Find!Finish, FindP!Finish,
   Find!Abort, FindP!Abort, Find!Nodes, FindP!Nodes, Find!NotFound, FindP!NotFound,
   Find!FinishQuery, FindP!FinishQuery
<1>1. ASSUME Find!StartUp PROVE FindP!Next
  BY <1>1 DEF Find!StartUp, FindP!StartUp, FindP!Next
<1>2. ASSUME NEW n \in Node, Find!OnNoAnswer(n) PROVE FindP!Next
  BY <1>2 DEF Find!OnNoAnswer, FindP!OnNoAnswer, FindP!OnResult, FindP!Next
<1>3. ASSUME NEW n \in Node, NEW nodes \in SUBSET Node, Find!OnNodesFrom(n, nodes)
      PROVE  FindP!Next
  BY <1>3 DEF Find!OnNodesFrom, FindP!OnNodesFrom, Find!Listed, FindP!Listed, Find!Pending,
     FindP!Pending, FindP!OnNodes, FindP!OnResult, FindP!Next
<1>4. FindP!Next
  BY <1>1, <1>2, <1>3, Zenon
<1>. QED
  BY <1>4, FindP!QueryStep, NodeAssumption, KAssumption, ParallelAssumption
  DEF LookupInv, FindP!IsFiniteSet, IsFiniteSet

LEMMA GetSteps ==
  ASSUME LookupInv,
         \/ Get!StartUp
         \/ \E n \in Node : Get!OnNoAnswer(n) \/ Get!OnValue(n)
         \/ \E n \in Node, nodes \in SUBSET Node : Get!OnNodesFrom(n, nodes)
  PROVE  LookupInv'
<1>. USE DEF Get!SendQueries, GetP!SendQueries, Get!ClosestIn, GetP!ClosestIn,
   Get!Before, GetP!Before, Get!Cardinality, GetP!Cardinality, Get!Finish, GetP!Finish,
   Get!Abort, GetP!Abort, Get!Nodes, GetP!Nodes, Get!NotFound, GetP!NotFound,
   Get!FinishQuery, GetP!FinishQuery
<1>1. ASSUME Get!StartUp PROVE GetP!Next
  BY <1>1 DEF Get!StartUp, GetP!StartUp, GetP!Next
<1>2. ASSUME NEW n \in Node, Get!OnNoAnswer(n) \/ Get!OnValue(n) PROVE GetP!Next
  BY <1>2 DEF Get!OnNoAnswer, GetP!OnNoAnswer, Get!OnValue, GetP!OnValue, Get!Value,
     GetP!Value, GetP!OnResult, GetP!Next
<1>3. ASSUME NEW n \in Node, NEW nodes \in SUBSET Node, Get!OnNodesFrom(n, nodes)
      PROVE  GetP!Next
  BY <1>3 DEF Get!OnNodesFrom, GetP!OnNodesFrom, Get!Listed, GetP!Listed, Get!Pending,
     GetP!Pending, GetP!OnNodes, GetP!OnResult, GetP!Next
<1>4. GetP!Next
  BY <1>1, <1>2, <1>3, Zenon
<1>5. GetP!QueryInv'
  BY <1>4, SameInvariant, GetP!QueryStep, NodeAssumption, KAssumption, ParallelAssumption
  DEF GetP!IsFiniteSet, IsFiniteSet
<1>6. (LookupInv <=> GetP!QueryInv)'
  BY SameInvariant, PTL
<1>. QED  BY <1>5, <1>6

\* A new lookup, which has asked nobody.
Fresh ==
  /\ \E nodes \in SUBSET Node : nlist = ClosestIn(nodes, K)
  /\ npending = nlist /\ noffered = nlist
  /\ nactive = 0 /\ nphase = "created" /\ npromise = [kind |-> "none", nodes |-> {}]
  /\ ninflight = {} /\ nasked = {}

LEMMA FreshInv == Fresh => LookupInv
<1>. SUFFICES ASSUME Fresh PROVE LookupInv
  OBVIOUS
<1>1. PICK nodes \in SUBSET Node : nlist = ClosestIn(nodes, K)
  BY DEF Fresh
<1>2. nlist \in SUBSET Node /\ Cardinality(nlist) <= K /\ IsFiniteSet(nlist) /\ nlist \in SUBSET Nat
  BY <1>1, MembersFinite, KAssumption, ClosestBasics, ClosestCardinality
<1>3. nlist = ClosestIn(nlist, K)
  BY <1>2, KAssumption, ClosestOfSmall
<1>4. FindP!ClosestIn(nlist, K) = nlist /\ FindP!Cardinality(nlist) <= K
  BY <1>2, <1>3
  DEF FindP!ClosestIn, ClosestIn, FindP!Before, Before, FindP!Cardinality, Cardinality
<1>5. FindP!Init
  BY <1>2, <1>4 DEF Fresh, FindP!Init, FindP!Unanswered
<1>. QED
  BY <1>5, FindP!QueryInit, NodeAssumption, KAssumption, ParallelAssumption
  DEF LookupInv, FindP!IsFiniteSet, IsFiniteSet
-----------------------------------------------------------------------------
NetTypes ==
  /\ writer \in Node /\ reader \in Node
  /\ getting \in BOOLEAN /\ answeredAll \in BOOLEAN
  /\ accepted \in SUBSET Node /\ onway \in SUBSET Node
  /\ nsuccess \in Nat

\* Who has been asked has answered with the nearest of its table.
Taught ==
  /\ noffered # {}
  /\ answeredAll /\ npromise.kind # "value" =>
       \A n \in nasked \ ninflight : \E T \in Tables(n) : NearestTo(T) \subseteq noffered

\* The value is sent to the nearest, which all keep it.
NearestKeep ==
  answeredAll => onway \cup accepted \subseteq ClosestIn(Node, K) /\ accepted \subseteq held

\* A store is reported because a member has confirmed it.
ReportIsConfirmed ==
  /\ nsuccess > 0 \/ nresult = "ok" => accepted # {}
  /\ getting => nstage = "stopped"
  /\ ~getting => lacked = {}

\* One of the nearest keeps the value, and has not said that it lacks it.
KeeperAnswers ==
  getting /\ answeredAll /\ nresult = "ok" =>
    \E n \in held \cap ClosestIn(Node, K) :
       n \notin lacked /\ (n \in nasked \ ninflight => npromise.kind = "value")

\* The inductive invariant.
NetInv == /\ LookupInv /\ NetTypes /\ Taught /\ NearestKeep
          /\ ReportIsConfirmed /\ KeeperAnswers

\* What a lookup that ends has found.
LEMMA NetFindsNearest == ASSUME LookupInv, NetTypes, Taught PROVE FindsNearest
<1>. SUFFICES ASSUME answeredAll, npromise.kind \in {"nodes", "not found"}
              PROVE  nlist = ClosestIn(Node, K)
  BY DEF FindsNearest
<1>1. /\ nlist = ClosestIn(noffered, K) /\ noffered \in SUBSET Node /\ noffered # {}
      /\ ninflight = {} /\ nlist \subseteq nasked /\ npromise.kind # "value"
  BY QueryFacts DEF Taught
<1>2. \A n \in nlist : \E T \in Tables(n) : NearestTo(T) \subseteq noffered
  BY <1>1 DEF Taught
<1>. QED  BY <1>1, <1>2, ClosedHoldsNearest

\* The answers a table gives are some members, and where there are others, not none.
LEMMA AnswersAreMembers ==
  ASSUME NEW n \in Node, NEW T \in Tables(n)
  PROVE  NearestTo(T) \in SUBSET Node /\ NearestTo(T) # {}
<1>1. T \in SUBSET Node
  BY DEF Tables
<1>2. T # {}
  <2>1. PICK m \in Node : m # n
    BY MembersAssumption
  <2>2. PICK b \in 0..Bits - 1 : m \in T \/ Cardinality(T \cap Bucket(n, b)) = K
    BY <2>1, TableKnows
  <2>3. T = {} => Cardinality(T \cap Bucket(n, b)) = 0
    BY FS_EmptySet
  <2>. QED  BY <2>2, <2>3, KAssumption
<1>3. /\ NearestTo(T) \in SUBSET T
      /\ NearestTo(T) # T => Cardinality(NearestTo(T)) = K
  BY <1>1, MembersFinite, KAssumption, ClosestBasics, ClosestCardinality DEF NearestTo
<1>4. NearestTo(T) = {} => Cardinality(NearestTo(T)) = 0
  BY FS_EmptySet
<1>. QED  BY <1>1, <1>2, <1>3, <1>4, KAssumption

\* What the steps of a lookup do to whom it has heard, and of whom.
LEMMA StartEffect ==
  ASSUME Find!StartUp \/ Get!StartUp
  PROVE  /\ nphase = "created" /\ noffered' = noffered
         /\ nasked' \ ninflight' \subseteq nasked \ ninflight
<1>1. ASSUME NEW batch, nasked' = nasked \cup batch, ninflight' = ninflight \cup batch
      PROVE  nasked' \ ninflight' \subseteq nasked \ ninflight
  BY <1>1
<1>2. CASE Find!StartUp
  BY <1>1, <1>2 DEF Find!StartUp, Find!SendQueries
<1>3. CASE Get!StartUp
  BY <1>1, <1>3 DEF Get!StartUp, Get!SendQueries
<1>. QED  BY <1>2, <1>3

LEMMA NodesEffect ==
  ASSUME LookupInv, NEW n, NEW nodes, Find!OnNodesFrom(n, nodes) \/ Get!OnNodesFrom(n, nodes)
  PROVE  /\ nphase = "running"
         /\ noffered \subseteq noffered' /\ nodes \subseteq noffered'
         /\ nasked' \ ninflight' \subseteq (nasked \ ninflight) \cup {n}
<1>1. /\ nphase = "running" /\ noffered' = noffered \cup (nodes \ nlist)
  BY DEF Find!OnNodesFrom, Get!OnNodesFrom
<1>2. nlist \subseteq noffered
  BY QueryFacts
<1>3. ASSUME NEW batch, nasked' = nasked \cup batch,
             ninflight' = (ninflight \ {n}) \cup batch
      PROVE  nasked' \ ninflight' \subseteq (nasked \ ninflight) \cup {n}
  BY <1>3
<1>4. CASE Find!OnNodesFrom(n, nodes)
  <2>1. PICK l, p : Find!FinishQuery(n, l, p)
    BY <1>4 DEF Find!OnNodesFrom
  <2>2. nasked' \ ninflight' \subseteq (nasked \ ninflight) \cup {n}
    BY <1>3, <2>1 DEF Find!FinishQuery, Find!SendQueries
  <2>. QED  BY <1>1, <1>2, <2>2
<1>5. CASE Get!OnNodesFrom(n, nodes)
  <2>1. PICK l, p : Get!FinishQuery(n, l, p)
    BY <1>5 DEF Get!OnNodesFrom
  <2>2. nasked' \ ninflight' \subseteq (nasked \ ninflight) \cup {n}
    BY <1>3, <2>1 DEF Get!FinishQuery, Get!SendQueries
  <2>. QED  BY <1>1, <1>2, <2>2
<1>. QED  BY <1>4, <1>5
-----------------------------------------------------------------------------
LEMMA StartInv ==
  ASSUME NetInv, StartFind \/ StartGet
  PROVE  NetInv'
<1>. USE DEF NetInv
<1>1. /\ Find!StartUp \/ Get!StartUp
      /\ UNCHANGED <<nstoreVars, peerVars, roles, getting, answeredAll>>
  BY DEF StartFind, StartGet
<1>2. LookupInv'
  BY <1>1, FindSteps, GetSteps
<1>3. /\ npromise.kind # "value" /\ noffered' = noffered
      /\ nasked' \ ninflight' \subseteq nasked \ ninflight
  BY <1>1, StartEffect, QueryFacts
<1>4. NetTypes' /\ NearestKeep' /\ ReportIsConfirmed'
  BY <1>1 DEF NetTypes, NearestKeep, ReportIsConfirmed, nstoreVars, peerVars, roles
<1>5. Taught'
  BY <1>1, <1>3 DEF Taught
<1>6. KeeperAnswers'
  BY <1>1, <1>3 DEF KeeperAnswers, nstoreVars, peerVars
<1>. QED  BY <1>2, <1>4, <1>5, <1>6

LEMMA QueryLostInv ==
  ASSUME NetInv, NEW n \in Node, QueryLost(n)
  PROVE  NetInv'
<1>. USE DEF NetInv
<1>1. /\ Find!OnNoAnswer(n) \/ Get!OnNoAnswer(n)
      /\ answeredAll' = FALSE /\ lacked' = lacked \ {n}
      /\ UNCHANGED <<nstoreVars, onway, accepted, held, roles, getting>>
  BY DEF QueryLost
<1>2. LookupInv'
  BY <1>1, FindSteps, GetSteps
<1>3. noffered' = noffered
  BY <1>1 DEF Find!OnNoAnswer, Get!OnNoAnswer
<1>4. NetTypes' /\ NearestKeep' /\ ReportIsConfirmed' /\ KeeperAnswers' /\ Taught'
  BY <1>1, <1>3
  DEF NetTypes, NearestKeep, ReportIsConfirmed, KeeperAnswers, Taught, nstoreVars, roles
<1>. QED  BY <1>2, <1>4

\* An answer teaches the nearest of a table.
LEMMA TaughtByAnswer ==
  ASSUME LookupInv, Taught, NEW n \in Node, NEW T \in Tables(n), answeredAll' = answeredAll,
         Find!OnNodesFrom(n, NearestTo(T)) \/ Get!OnNodesFrom(n, NearestTo(T))
  PROVE  /\ LookupInv' /\ Taught' /\ npromise.kind # "value"
         /\ nasked' \ ninflight' \subseteq (nasked \ ninflight) \cup {n}
<1>1. LookupInv'
  BY AnswersAreMembers, FindSteps, GetSteps
<1>2. /\ npromise.kind # "value"
      /\ noffered \subseteq noffered' /\ NearestTo(T) \subseteq noffered'
      /\ nasked' \ ninflight' \subseteq (nasked \ ninflight) \cup {n}
  BY NodesEffect, QueryFacts
<1>3. ASSUME answeredAll, NEW m \in nasked' \ ninflight'
      PROVE  \E U \in Tables(m) : NearestTo(U) \subseteq noffered'
  <2>1. CASE m = n
    BY <1>2, <2>1
  <2>2. CASE m \in nasked \ ninflight
    <3>1. PICK U \in Tables(m) : NearestTo(U) \subseteq noffered
      BY <1>2, <1>3, <2>2 DEF Taught
    <3>. QED  BY <1>2, <3>1
  <2>. QED  BY <1>2, <2>1, <2>2
<1>4. Taught'
  BY <1>2, <1>3 DEF Taught
<1>. QED  BY <1>1, <1>2, <1>4

LEMMA FindNodeInv ==
  ASSUME NetInv, NEW n \in Node, FindNode(n)
  PROVE  NetInv'
<1>. USE DEF NetInv
<1>1. PICK T \in Tables(n) : Find!OnNodesFrom(n, NearestTo(T))
  BY DEF FindNode
<1>2. ~getting /\ UNCHANGED <<nstoreVars, peerVars, roles, getting, answeredAll>>
  BY DEF FindNode
<1>3. LookupInv' /\ Taught'
  BY <1>1, <1>2, TaughtByAnswer
<1>4. NetTypes' /\ NearestKeep' /\ ReportIsConfirmed' /\ KeeperAnswers'
  BY <1>2
  DEF NetTypes, NearestKeep, ReportIsConfirmed, KeeperAnswers, nstoreVars, peerVars, roles
<1>. QED  BY <1>3, <1>4

LEMMA ValueNotFoundInv ==
  ASSUME NetInv, NEW n \in Node, ValueNotFound(n)
  PROVE  NetInv'
<1>. USE DEF NetInv
<1>1. PICK T \in Tables(n) : Get!OnNodesFrom(n, NearestTo(T))
  BY DEF ValueNotFound
<1>2. /\ getting /\ n \in lacked /\ lacked' = lacked \ {n}
      /\ UNCHANGED <<nstoreVars, onway, accepted, held, roles, getting, answeredAll>>
  BY DEF ValueNotFound
<1>3. /\ LookupInv' /\ Taught' /\ npromise.kind # "value"
      /\ nasked' \ ninflight' \subseteq (nasked \ ninflight) \cup {n}
  BY <1>1, <1>2, TaughtByAnswer
<1>4. NetTypes' /\ NearestKeep' /\ ReportIsConfirmed'
  BY <1>2 DEF NetTypes, NearestKeep, ReportIsConfirmed, nstoreVars, roles
<1>5. KeeperAnswers'
  BY <1>2, <1>3 DEF KeeperAnswers, nstoreVars
<1>. QED  BY <1>3, <1>4, <1>5

LEMMA ValueFoundInv ==
  ASSUME NetInv, NEW n \in Node, ValueFound(n)
  PROVE  NetInv'
<1>. USE DEF NetInv
<1>1. Get!OnValue(n) /\ UNCHANGED <<nstoreVars, peerVars, roles, getting, answeredAll>>
  BY DEF ValueFound
<1>2. LookupInv'
  BY <1>1, GetSteps
<1>3. npromise'.kind = "value" /\ noffered' = noffered
  BY <1>1 DEF Get!OnValue, Get!Value
<1>4. NetTypes' /\ NearestKeep' /\ ReportIsConfirmed' /\ Taught'
  BY <1>1, <1>3
  DEF NetTypes, NearestKeep, ReportIsConfirmed, Taught, nstoreVars, peerVars, roles
<1>5. KeeperAnswers'
  BY <1>1, <1>3 DEF KeeperAnswers, nstoreVars, peerVars
<1>. QED  BY <1>2, <1>4, <1>5

\* A step that leaves the lookup alone.
LEMMA QueryRests == ASSUME LookupInv, UNCHANGED findVars PROVE LookupInv'
<1>1. UNCHANGED FindP!vars
  BY DEF findVars, FindP!vars
<1>. QED
  BY <1>1, FindP!QueryStep, NodeAssumption, KAssumption, ParallelAssumption
  DEF LookupInv, FindP!IsFiniteSet, IsFiniteSet

LEMMA LacksInv ==
  ASSUME NetInv, NEW n \in Node, Lacks(n)
  PROVE  NetInv'
<1>. USE DEF NetInv
<1>1. /\ getting /\ n \notin held /\ lacked' = lacked \cup {n}
      /\ UNCHANGED <<findVars, nstoreVars, onway, accepted, held, roles, getting, answeredAll>>
  BY DEF Lacks
<1>2. LookupInv'
  BY <1>1, QueryRests
<1>3. NetTypes' /\ NearestKeep' /\ ReportIsConfirmed' /\ Taught'
  BY <1>1
  DEF NetTypes, NearestKeep, ReportIsConfirmed, Taught, findVars, nstoreVars, roles
<1>4. KeeperAnswers'
  BY <1>1 DEF KeeperAnswers, findVars, nstoreVars
<1>. QED  BY <1>2, <1>3, <1>4

\* The value goes to all of the nearest.
LEMMA StoreFoundInv ==
  ASSUME NetInv, StoreFound
  PROVE  NetInv'
<1>. USE DEF NetInv
<1>1. /\ nstage = "finding" /\ npromise.kind = "nodes"
      /\ nstoring' = npromise.nodes /\ onway' = nstoring' /\ nstage' = "storing"
      /\ UNCHANGED <<findVars, nsuccess, nresult, accepted, held, lacked, roles, getting,
                     answeredAll>>
  BY DEF StoreFound, Store!SendStores, Store!SendTo, Store!vars, findVars
<1>2. LookupInv'
  BY <1>1, QueryRests
<1>3. /\ onway' = nlist /\ nlist \in SUBSET Node
      /\ answeredAll => onway' = ClosestIn(Node, K)
  BY <1>1, QueryFacts, NetFindsNearest DEF FindsNearest
<1>4. ~getting
  BY <1>1 DEF ReportIsConfirmed
<1>5. NetTypes' /\ NearestKeep' /\ ReportIsConfirmed' /\ Taught' /\ KeeperAnswers'
  BY <1>1, <1>3, <1>4
  DEF NetTypes, NearestKeep, ReportIsConfirmed, Taught, KeeperAnswers, findVars, roles
<1>. QED  BY <1>2, <1>5

\* None of the nearest finds the value too remote.
LEMMA NearestAreNear ==
  ASSUME NEW n \in ClosestIn(Node, K), NEW T \in Tables(n)
  PROVE  Near(n, T)
<1>1. /\ n \in Node /\ n \in Nat /\ T \in SUBSET Node /\ Cardinality(Before(Node, n)) < K
      /\ Node \in SUBSET Nat /\ IsFiniteSet(Node)
  BY NodeAssumption DEF ClosestIn, Tables
<1>2. /\ Cardinality(Before(T, n)) <= Cardinality(Before(Node, n))
      /\ Cardinality(Before(T, n)) \in Nat /\ Cardinality(Before(Node, n)) \in Nat
  BY <1>1, BeforeMonotonic, BeforeFinite, MembersFinite
<1>. QED  BY <1>1, <1>2, KAssumption, MarginAssumption DEF Near

LEMMA StoreArrivesInv ==
  ASSUME NetInv, NEW n \in Node, StoreArrives(n)
  PROVE  NetInv'
<1>. USE DEF NetInv
<1>1. PICK T \in Tables(n) : held' = IF Near(n, T) THEN held \cup {n} ELSE held
  BY DEF StoreArrives
<1>2. /\ n \in onway /\ onway' = onway \ {n} /\ accepted' = accepted \cup {n}
      /\ UNCHANGED <<findVars, nstoreVars, lacked, roles, getting, answeredAll>>
  BY DEF StoreArrives
<1>3. LookupInv'
  BY <1>2, QueryRests
<1>4. NearestKeep'
  <2>. SUFFICES ASSUME answeredAll
                PROVE  /\ onway' \cup accepted' \subseteq ClosestIn(Node, K)
                       /\ accepted' \subseteq held'
    BY <1>2 DEF NearestKeep
  <2>1. n \in ClosestIn(Node, K)
    BY <1>2 DEF NearestKeep
  <2>2. held' = held \cup {n}
    BY <1>1, <2>1, NearestAreNear
  <2>. QED  BY <1>2, <2>1, <2>2 DEF NearestKeep
<1>5. NetTypes' /\ ReportIsConfirmed' /\ Taught'
  BY <1>2
  DEF NetTypes, ReportIsConfirmed, Taught, findVars, nstoreVars, roles
<1>6. KeeperAnswers'
  BY <1>1, <1>2 DEF KeeperAnswers, findVars, nstoreVars
<1>. QED  BY <1>3, <1>4, <1>5, <1>6

LEMMA StoreInOwnInv ==
  ASSUME NetInv, StoreInOwn
  PROVE  NetInv'
<1>. USE DEF NetInv
<1>1. /\ held \subseteq held'
      /\ UNCHANGED <<findVars, nstoreVars, onway, accepted, lacked, roles, getting, answeredAll>>
  BY DEF StoreInOwn
<1>2. LookupInv'
  BY <1>1, QueryRests
<1>3. NetTypes' /\ NearestKeep' /\ ReportIsConfirmed' /\ Taught' /\ KeeperAnswers'
  BY <1>1
  DEF NetTypes, NearestKeep, ReportIsConfirmed, Taught, KeeperAnswers, findVars, nstoreVars, roles
<1>. QED  BY <1>2, <1>3

\* A confirmation comes from a member that sent one.
LEMMA StoreAnswerInv ==
  ASSUME NetInv, NEW n \in Node, StoreAnswer(n)
  PROVE  NetInv'
<1>. USE DEF NetInv
<1>1. PICK ok \in BOOLEAN : (ok => n \in accepted) /\ Store(writer)!StoreAnswered(n, ok)
  BY DEF StoreAnswer
<1>2. /\ nstage = "storing" /\ UNCHANGED findVars
      /\ nsuccess' = IF ok THEN nsuccess + 1 ELSE nsuccess
      /\ nresult' = nresult \/ nresult' = IF nsuccess' > 0 THEN "ok" ELSE "failed"
  BY <1>1 DEF Store!StoreAnswered, Store!Respond, Store!vars, findVars
<1>3. UNCHANGED <<peerVars, roles, getting, answeredAll>>
  BY DEF StoreAnswer
<1>4. LookupInv'
  BY <1>2, QueryRests
<1>5. nsuccess' \in Nat /\ (nsuccess' > 0 \/ nresult' = "ok" => accepted # {}) /\ ~getting
  BY <1>1, <1>2 DEF NetTypes, ReportIsConfirmed
<1>6. NetTypes' /\ NearestKeep' /\ ReportIsConfirmed' /\ Taught' /\ KeeperAnswers'
  BY <1>2, <1>3, <1>5
  DEF NetTypes, NearestKeep, ReportIsConfirmed, Taught, KeeperAnswers, findVars, peerVars, roles
<1>. QED  BY <1>4, <1>6

\* What a lookup starts from.
LEMMA FreshFromTable ==
  ASSUME NEW n \in Node, NEW T \in Tables(n)
  PROVE  \E nodes \in SUBSET Node : NearestTo(T) = ClosestIn(nodes, K)
BY DEF Tables, NearestTo

\* The reader begins: who keeps the value now goes on to.
LEMMA BeginInv ==
  ASSUME NetInv, Begin
  PROVE  NetInv'
<1>. USE DEF NetInv
<1>1. /\ nstage = "stopped" /\ ~getting /\ getting' = TRUE
      /\ npending' = nlist' /\ noffered' = nlist'
      /\ nactive' = 0 /\ nphase' = "created" /\ npromise' = [kind |-> "none", nodes |-> {}]
      /\ ninflight' = {} /\ nasked' = {}
      /\ UNCHANGED <<nstoreVars, peerVars, roles, answeredAll>>
  BY DEF Begin, Get!Unanswered
<1>2. PICK T \in Tables(reader) : nlist' = NearestTo(T)
  BY DEF Begin
<1>3. reader \in Node
  BY DEF NetTypes
<1>4. LookupInv'
  <2>1. Fresh'
    BY <1>1, <1>2, <1>3, FreshFromTable DEF Fresh
  <2>2. Fresh' => LookupInv'
    BY FreshInv, PTL
  <2>. QED  BY <2>1, <2>2
<1>5. Taught'
  <2>1. noffered' # {}
    BY <1>1, <1>2, <1>3, AnswersAreMembers
  <2>. QED  BY <1>1, <2>1 DEF Taught
<1>6. NetTypes' /\ NearestKeep' /\ ReportIsConfirmed'
  BY <1>1 DEF NetTypes, NearestKeep, ReportIsConfirmed, nstoreVars, peerVars, roles
<1>7. KeeperAnswers'
  <2>. SUFFICES ASSUME answeredAll, nresult = "ok"
                PROVE  \E n \in held \cap ClosestIn(Node, K) : n \notin lacked
    BY <1>1 DEF KeeperAnswers, nstoreVars, peerVars
  <2>1. PICK n \in accepted : TRUE
    BY DEF ReportIsConfirmed
  <2>. QED  BY <1>1, <2>1 DEF NearestKeep, ReportIsConfirmed
<1>. QED  BY <1>4, <1>5, <1>6, <1>7
-----------------------------------------------------------------------------
LEMMA NetInitInv == NetInit => NetInv
<1>. SUFFICES ASSUME NetInit PROVE NetInv
  OBVIOUS
<1>. USE DEF NetInit
<1>1. PICK T \in Tables(writer) :
         nlist = NearestTo(T) /\ npending = NearestTo(T) /\ noffered = NearestTo(T)
  OBVIOUS
<1>2. writer \in Node
  OBVIOUS
<1>3. LookupInv
  <2>1. Fresh
    BY <1>1, <1>2, FreshFromTable DEF Fresh, Find!Unanswered
  <2>. QED  BY <2>1, FreshInv
<1>4. noffered # {}
  BY <1>1, <1>2, AnswersAreMembers
<1>5. NetTypes
  BY DEF NetTypes
<1>6. Taught
  BY <1>4 DEF Taught
<1>7. NearestKeep
  BY DEF NearestKeep
<1>8. ReportIsConfirmed
  BY DEF ReportIsConfirmed
<1>9. KeeperAnswers
  BY DEF KeeperAnswers
<1>. QED  BY <1>3, <1>5, <1>6, <1>7, <1>8, <1>9 DEF NetInv

LEMMA NetStepInv == NetInv /\ [NetNext]_netVars => NetInv'
<1>. SUFFICES ASSUME NetInv, [NetNext]_netVars PROVE NetInv'
  OBVIOUS
<1>1. CASE UNCHANGED netVars
  <2>1. UNCHANGED <<findVars, nstoreVars, peerVars, roles, getting, answeredAll>>
    BY <1>1 DEF netVars
  <2>2. LookupInv'
    BY <2>1, QueryRests DEF NetInv
  <2>3. NetTypes' /\ NearestKeep' /\ ReportIsConfirmed' /\ Taught' /\ KeeperAnswers'
    BY <2>1
    DEF NetInv, NetTypes, NearestKeep, ReportIsConfirmed, Taught, KeeperAnswers,
        findVars, nstoreVars, peerVars, roles
  <2>. QED  BY <2>2, <2>3 DEF NetInv
<1>. QED
  BY <1>1, StartInv, StoreFoundInv, StoreInOwnInv, BeginInv, QueryLostInv, FindNodeInv,
     StoreArrivesInv, StoreAnswerInv, LacksInv, ValueNotFoundInv, ValueFoundInv
  DEF NetNext, AnswerFindValue

\* In a settled network a lookup whose queries were all answered ends with the
\* nearest of all members, although each answers from its own table.
THEOREM NetworkFindsNearest == NetSpec => []FindsNearest
<1>1. NetInv => FindsNearest
  BY NetFindsNearest DEF NetInv
<1>. QED  BY <1>1, NetInitInv, NetStepInv, PTL DEF NetSpec

\* Whoever looks up a value whose store was reported is given it, if the queries
\* of both lookups were answered: a store that is reported was confirmed by one of
\* the nearest, which kept the value, and no lookup ends without asking it.
THEOREM NetworkFindsStored == NetSpec => []StoredIsFound
<1>1. ASSUME NetInv PROVE StoredIsFound
  <2>. SUFFICES ASSUME answeredAll, nresult = "ok", getting, npromise.kind = "not found"
                PROVE  FALSE
    BY DEF StoredIsFound
  <2>1. PICK n \in ClosestIn(Node, K) : n \notin nasked \ ninflight
    BY <1>1 DEF NetInv, KeeperAnswers
  <2>2. nlist = ClosestIn(Node, K) /\ ninflight = {} /\ nlist \subseteq nasked
    BY <1>1, NetFindsNearest, QueryFacts DEF NetInv, FindsNearest
  <2>. QED  BY <2>1, <2>2
<1>. QED  BY <1>1, NetInitInv, NetStepInv, PTL DEF NetSpec
-----------------------------------------------------------------------------
\* Until the lookup has answered nothing is counted.
NothingYet ==
  stage = "finding" =>
    storing = {} /\ remaining = 0 /\ success = 0 /\ fail = 0 /\ result = "none"

\* Then each of the nodes found is awaited or counted, and was weighed for kept.
NodesCounted ==
  stage # "finding" =>
    /\ promise.kind = "nodes"
    /\ storing \subseteq promise.nodes
    /\ remaining = Cardinality(storing)
    /\ success + fail + remaining = Cardinality(promise.nodes)
    /\ kept <=> Keep(promise.nodes)

\* The result is known when nobody is awaited any more, and not before.
ResultWhenDone ==
  /\ result # "none" <=> stage = "stopped"
  /\ stage = "stopped" => storing = {} /\ (result = "ok" <=> success > 0)

\* The inductive invariant.
StoreInv == QueryInv /\ StoreTypes /\ NothingYet /\ NodesCounted /\ ResultWhenDone

LEMMA StoreInitInv == StoreInit => StoreInv
<1>. SUFFICES ASSUME StoreInit PROVE StoreInv
  OBVIOUS
<1>1. QueryInv  BY QueryInit DEF StoreInit
<1>2. StoreTypes  BY <1>1 DEF StoreInit, StoreTypes, QueryInv
<1>. QED
  BY <1>1, <1>2 DEF StoreInit, StoreInv, NothingYet, NodesCounted, ResultWhenDone

\* A lookup that has answered does nothing any more.
LEMMA AnsweredRests ==
  ASSUME QueryInv, promise.kind = "nodes", Next
  PROVE  UNCHANGED vars
<1>1. phase = "stopped"  BY DEF QueryInv, AnsweredOnStop, Unanswered
<1>. QED  BY <1>1 DEF Next, StartUp, OnResult, OnNoAnswer, OnNodes, OnNodesFrom, OnValue, Stopped

\* What the lookup hands to the store.
LEMMA FoundNodes ==
  ASSUME QueryInv, promise.kind = "nodes"
  PROVE  /\ promise.nodes = ClosestIn(offered, K) /\ promise.nodes \in SUBSET Node
         /\ promise.nodes \in SUBSET Nat /\ IsFiniteSet(promise.nodes)
         /\ Cardinality(promise.nodes) \in Nat /\ Cardinality(promise.nodes) <= K
<1>1. promise.nodes = ClosestIn(offered, K) /\ promise.nodes \in SUBSET Node
  BY DEF QueryInv, EndsExhausted, TypeOK
<1>2. offered \in SUBSET Nat /\ IsFiniteSet(offered)
  BY NodesFinite DEF QueryInv, TypeOK
<1>3. Cardinality(ClosestIn(offered, K)) <= K
  BY <1>2, KAssumption, ClosestCardinality
<1>. QED  BY <1>1, <1>3, NodesFinite

LEMMA FindStepInv == ASSUME StoreInv, FindStep PROVE StoreInv'
<1>1. QueryInv'  BY QueryStep DEF StoreInv, FindStep
<1>2. UNCHANGED storeVars  BY DEF FindStep
<1>3. StoreTypes'  BY <1>1, <1>2 DEF StoreInv, StoreTypes, storeVars, QueryInv
<1>4. NothingYet' /\ ResultWhenDone'
  BY <1>2 DEF StoreInv, NothingYet, ResultWhenDone, storeVars
<1>5. NodesCounted'
  <2>. SUFFICES ASSUME stage # "finding" PROVE NodesCounted'
    BY <1>2 DEF NodesCounted, storeVars
  <2>1. UNCHANGED vars  BY AnsweredRests DEF StoreInv, NodesCounted, FindStep
  <2>. QED  BY <1>2, <2>1 DEF StoreInv, NodesCounted, Keep, vars, storeVars
<1>. QED  BY <1>1, <1>3, <1>4, <1>5 DEF StoreInv

LEMMA SendStoresInv == ASSUME StoreInv, SendStores PROVE StoreInv'
<1>. DEFINE l == promise.nodes
<1>1. /\ stage = "finding" /\ promise.kind = "nodes" /\ UNCHANGED vars
      /\ kept' = Keep(l) /\ remaining' = Cardinality(l) /\ storing' = l
      /\ stage' = "storing" /\ success' = success /\ fail' = fail /\ result' = result
  BY DEF SendStores, StoreCount, SendTo
<1>2. success = 0 /\ fail = 0 /\ result = "none"
  BY <1>1 DEF StoreInv, NothingYet
<1>3. QueryInv'
  BY <1>1, QueryStep DEF StoreInv
<1>4. l \in SUBSET Node /\ Cardinality(l) \in Nat
  BY <1>1, FoundNodes DEF StoreInv
<1>5. kept' \in BOOLEAN  BY <1>1 DEF Keep
<1>6. StoreTypes'
  BY <1>1, <1>2, <1>3, <1>4, <1>5 DEF StoreTypes, QueryInv
<1>7. NodesCounted'
  <2>1. promise' = promise  BY <1>1 DEF vars
  <2>2. success' + fail' + remaining' = Cardinality(l)  BY <1>1, <1>2, <1>4
  <2>3. kept' <=> Keep(l)'  BY <1>1, <2>1 DEF Keep
  <2>. QED  BY <1>1, <2>1, <2>2, <2>3 DEF NodesCounted
<1>8. NothingYet' /\ ResultWhenDone'
  BY <1>1, <1>2 DEF NothingYet, ResultWhenDone
<1>. QED  BY <1>3, <1>6, <1>7, <1>8 DEF StoreInv

LEMMA StoreAnsweredInv ==
  ASSUME StoreInv, NEW n \in Node, NEW ok \in BOOLEAN, StoreAnswered(n, ok)
  PROVE  StoreInv'
<1>1. /\ stage = "storing" /\ n \in storing /\ UNCHANGED vars /\ kept' = kept
      /\ storing' = storing \ {n} /\ remaining' = remaining - 1
  BY DEF StoreAnswered
<1>2. /\ success \in Nat /\ fail \in Nat /\ remaining \in Nat /\ storing \in SUBSET Node
      /\ kept \in BOOLEAN /\ result = "none"
      /\ promise.kind = "nodes" /\ storing \subseteq promise.nodes
      /\ remaining = Cardinality(storing)
      /\ success + fail + remaining = Cardinality(promise.nodes)
      /\ kept <=> Keep(promise.nodes)
  BY <1>1 DEF StoreInv, StoreTypes, NodesCounted, ResultWhenDone
<1>3. /\ success' \in Nat /\ fail' \in Nat
      /\ success' + fail' = success + fail + 1
  BY <1>2 DEF StoreAnswered
<1>4. remaining' = Cardinality(storing') /\ remaining' \in Nat
  <2>1. IsFiniteSet(storing)  BY <1>2, NodesFinite
  <2>2. Cardinality(storing \ {n}) = Cardinality(storing) - 1
    BY <1>1, <2>1, FS_RemoveElement
  <2>3. storing \ {n} \in SUBSET Node  BY <1>2
  <2>. QED  BY <1>1, <1>2, <2>2, <2>3, NodesFinite
<1>5. /\ remaining' = 0 => /\ stage' = "stopped"
                           /\ result' = IF success' > 0 THEN "ok" ELSE "failed"
      /\ remaining' # 0 => stage' = "storing" /\ result' = "none"
  BY <1>1, <1>2 DEF StoreAnswered, Respond
<1>6. QueryInv'  BY <1>1, QueryStep DEF StoreInv
<1>7. StoreTypes'
  <2>1. TypeOK'  BY <1>6 DEF QueryInv
  <2>2. storing' \in SUBSET Node /\ kept' \in BOOLEAN  BY <1>1, <1>2
  <2>3. /\ stage' \in {"finding", "storing", "stopped"}
        /\ result' \in {"none", "ok", "failed"}
    BY <1>5
  <2>. QED  BY <1>3, <1>4, <2>1, <2>2, <2>3 DEF StoreTypes
<1>8. NodesCounted'
  <2>1. promise' = promise  BY <1>1 DEF vars
  <2>2. success' + fail' + remaining' = Cardinality(promise.nodes)
    <3>1. success' + fail' + remaining' = (success + fail + 1) + (remaining - 1)
      BY <1>1, <1>3, Zenon
    <3>2. (success + fail + 1) + (remaining - 1) = success + fail + remaining
      BY <1>2
    <3>. QED  BY <1>2, <3>1, <3>2, Zenon
  <2>3. kept' <=> Keep(promise.nodes)'  BY <1>1, <1>2, <2>1 DEF Keep
  <2>. QED  BY <1>1, <1>2, <1>4, <2>1, <2>2, <2>3 DEF NodesCounted
<1>9. remaining' = 0 => storing' = {}
  BY <1>2, <1>1, <1>4, NodesFinite, FS_EmptySet
<1>10. NothingYet' /\ ResultWhenDone'
  BY <1>5, <1>9 DEF NothingYet, ResultWhenDone
<1>. QED  BY <1>6, <1>7, <1>8, <1>10 DEF StoreInv

\* Every step preserves the invariant.
LEMMA StoreStepInv == StoreInv /\ [StoreNext]_actorVars => StoreInv'
<1>. SUFFICES ASSUME StoreInv, [StoreNext]_actorVars PROVE StoreInv'
  OBVIOUS
<1>1. CASE UNCHANGED actorVars
  <2>1. UNCHANGED vars /\ UNCHANGED storeVars  BY <1>1 DEF actorVars
  <2>2. QueryInv'  BY <2>1, QueryStep DEF StoreInv
  <2>. QED
    BY <2>1, <2>2 DEF StoreInv, StoreTypes, NothingYet, NodesCounted, ResultWhenDone,
       Keep, vars, storeVars, QueryInv
<1>. QED
  BY <1>1, FindStepInv, SendStoresInv, StoreAnsweredInv DEF StoreNext, StoreReady

\* A store reports only after every one of the k_ closest nodes ever heard of has
\* answered, and success only if one of them confirmed (send_stores, store_ready).
THEOREM StoreReportsReplicated == StoreSpec => []ReportsReplicated
<1>1. ASSUME StoreInv, result # "none"
      PROVE  /\ storing = {}
             /\ success + fail = Cardinality(ClosestIn(offered, K))
             /\ result = "ok" <=> success > 0
  <2>1. /\ stage = "stopped" /\ promise.kind = "nodes" /\ storing = {}
        /\ remaining = Cardinality(storing)
        /\ success + fail + remaining = Cardinality(promise.nodes)
        /\ result = "ok" <=> success > 0
    BY <1>1 DEF StoreInv, NodesCounted, ResultWhenDone
  <2>2. remaining = 0  BY <2>1, FS_EmptySet
  <2>3. success \in Nat /\ fail \in Nat  BY <1>1 DEF StoreInv, StoreTypes
  <2>4. promise.nodes = ClosestIn(offered, K)  BY <1>1, <2>1, FoundNodes DEF StoreInv
  <2>. QED  BY <2>1, <2>2, <2>3, <2>4
<1>2. StoreInv => ReportsReplicated  BY <1>1 DEF ReportsReplicated
<1>. QED  BY <1>2, StoreInitInv, StoreStepInv, PTL DEF StoreSpec

\* What Keep decides: whether this node is one of the k_ closest among itself and
\* at most k_ nodes.
LEMMA KeepIsNear ==
  ASSUME NEW l \in SUBSET Nat, IsFiniteSet(l), Cardinality(l) \in Nat,
         Cardinality(l) <= K
  PROVE  LET near == ClosestIn(l \cup {Self}, K) IN
         /\ Keep(l) => Self \in near
         /\ Self \in near => Keep(l) \/ Self \in l
<1>. USE KAssumption, SelfAssumption
<1>1. CASE Self \in l
  <2>1. l \cup {Self} = l  BY <1>1
  <2>2. ClosestIn(l, K) = l  BY ClosestOfSmall
  <2>. QED  BY <1>1, <2>1, <2>2
<1>2. CASE Self \notin l /\ Cardinality(l) < K
  <2>1. /\ l \cup {Self} \in SUBSET Nat /\ IsFiniteSet(l \cup {Self})
        /\ Cardinality(l \cup {Self}) = Cardinality(l) + 1
    BY <1>2, FS_AddElement
  <2>2. Cardinality(l \cup {Self}) <= K  BY <1>2, <2>1
  <2>3. ClosestIn(l \cup {Self}, K) = l \cup {Self}
    BY <2>1, <2>2, ClosestOfSmall
  <2>. QED  BY <1>2, <2>3 DEF Keep
<1>3. CASE Self \notin l /\ Cardinality(l) = K
  <2>1. /\ Self < Farthest(l)
             => ClosestIn(l \cup {Self}, K) = (l \cup {Self}) \ {Farthest(l)}
        /\ ~ (Self < Farthest(l)) => ClosestIn(l \cup {Self}, K) = l
    BY <1>3, InsertIsClosest
  <2>2. l # {}  BY <1>3, FS_EmptySet
  <2>3. Farthest(l) \in Nat  BY <2>2, FarthestExists
  <2>4. Keep(l) <=> Self < Farthest(l)  BY <1>3 DEF Keep
  <2>. QED  BY <1>3, <2>1, <2>3, <2>4
<1>. QED  BY <1>1, <1>2, <1>3

\* The value stays at this node exactly when it is one of the k_ closest among
\* itself and the nodes found (send_stores).
THEOREM StoreKeepsIfClose == StoreSpec => []KeepsIfClose
<1>1. ASSUME StoreInv PROVE KeepsIfClose
  <2>. SUFFICES ASSUME stage # "finding"
                PROVE  LET near == ClosestIn(promise.nodes \cup {Self}, K) IN
                       /\ kept => Self \in near
                       /\ Self \in near => kept \/ Self \in promise.nodes
    BY DEF KeepsIfClose
  <2>1. promise.kind = "nodes" /\ (kept <=> Keep(promise.nodes))
    BY <1>1 DEF StoreInv, NodesCounted
  <2>2. /\ promise.nodes \in SUBSET Nat /\ IsFiniteSet(promise.nodes)
        /\ Cardinality(promise.nodes) \in Nat /\ Cardinality(promise.nodes) <= K
    BY <1>1, <2>1, FoundNodes DEF StoreInv
  <2>. QED  BY <2>1, <2>2, KeepIsNear
<1>. QED  BY <1>1, StoreInitInv, StoreStepInv, PTL DEF StoreSpec
-----------------------------------------------------------------------------
(***************************************************************************)
(* The add_nodes loop computes ClosestIn, for every list of nodes.         *)
(***************************************************************************)

LoopTypes ==
  /\ listed \in SUBSET Node /\ unasked \in SUBSET listed
  /\ todo \in Seq(Node)
  /\ taken \in SUBSET Node /\ sent \in SUBSET Node
  /\ before \in [list : SUBSET Node, pending : SUBSET Node]
  /\ before.pending \subseteq before.list
  /\ Cardinality(before.list) <= K

LoopInv == LoopTypes /\ KeepsClosest /\ PendingAreNew /\ AllOffered

\* The invariant of the loop of add_nodes holds when the loop begins.
LEMMA LoopInit == LoopStart => LoopInv
<1>. SUFFICES ASSUME LoopStart  PROVE LoopInv
  OBVIOUS
<1>. USE NodeAssumption, KAssumption
<1>1. listed \in SUBSET Nat /\ IsFiniteSet(listed)  BY FS_Subset DEF LoopStart
<1>2. listed \cup {} = listed  OBVIOUS
<1>3. ClosestIn(listed, K) = listed  BY <1>1, ClosestOfSmall DEF LoopStart
<1>4. LoopTypes  BY DEF LoopStart, LoopTypes
<1>5. KeepsClosest  BY <1>2, <1>3 DEF LoopStart, KeepsClosest
<1>6. PendingAreNew /\ AllOffered  BY DEF LoopStart, PendingAreNew, AllOffered
<1>. QED  BY <1>4, <1>5, <1>6 DEF LoopInv

\* One iteration of the loop of add_nodes preserves its invariant.
LEMMA LoopStep == LoopInv /\ [TakeNode]_loopVars => LoopInv'
<1>. SUFFICES ASSUME LoopInv, [TakeNode]_loopVars  PROVE LoopInv'
  OBVIOUS
<1>. USE NodeAssumption, KAssumption DEF LoopInv
<1>1. CASE UNCHANGED loopVars
  BY <1>1 DEF loopVars, LoopTypes, KeepsClosest, PendingAreNew, AllOffered
<1>2. CASE TakeNode
  <2>. DEFINE n == Head(todo)
              S == before.list \cup taken
  <2>1. n \in Node /\ n \in Nat /\ todo' \in Seq(Node)
        /\ taken' = taken \cup {n} /\ before' = before
    BY <1>2, HeadTailProperties DEF TakeNode, LoopTypes
  <2>1a. n = Head(todo) /\ S = before.list \cup taken
    OBVIOUS
  <2>. HIDE DEF n, S
  <2>2. /\ listed \in SUBSET Nat /\ IsFiniteSet(listed) /\ Cardinality(listed) \in Nat
        /\ S \in SUBSET Nat /\ IsFiniteSet(S)
    <3>1. S \in SUBSET Node  BY <2>1a DEF LoopTypes
    <3>. QED  BY <3>1, FS_Subset, FS_CardinalityType DEF LoopTypes
  <2>3. listed = ClosestIn(S, K) /\ Cardinality(listed) <= K
    BY <2>1a, <2>2, ClosestCardinality DEF KeepsClosest
  <2>4. ClosestIn(listed \cup {n}, K) = ClosestIn(before.list \cup taken', K)
    <3>1. {n} \in SUBSET Nat /\ IsFiniteSet({n})  BY <2>1, FS_Singleton
    <3>2. S \cup {n} = before.list \cup taken'  BY <2>1, <2>1a
    <3>. QED  BY <3>1, <3>2, <2>2, <2>3, ClosestUnion
  <2>5. CASE n \in listed
    <3>1. UNCHANGED <<listed, unasked, sent>>  BY <1>2, <2>1a, <2>5 DEF TakeNode
    <3>2. listed \cup {n} = listed  BY <2>5
    <3>3. KeepsClosest'
      BY <3>1, <3>2, <2>1, <2>2, <2>3, <2>4, ClosestOfSmall DEF KeepsClosest
    <3>4. n \in before.list \/ n \in sent
      <4>1. n \in S  BY <2>2, <2>3, <2>5, ClosestBasics
      <4>. QED  BY <4>1, <2>1a DEF AllOffered
    <3>. QED  BY <3>1, <3>3, <3>4, <2>1 DEF LoopTypes, PendingAreNew, AllOffered
  <2>6. CASE n \notin listed
    <3>1. sent' = sent \cup {n}
      BY <1>2, <2>1a, <2>6 DEF TakeNode, Offer
    <3>2. AllOffered'  BY <3>1, <2>1 DEF AllOffered
    <3>3. CASE Cardinality(listed) < K
      <4>1. listed' = listed \cup {n} /\ unasked' = unasked \cup {n}
        BY <1>2, <2>1a, <2>6, <3>3 DEF TakeNode, Fits, Insert
      <4>2. IsFiniteSet(listed \cup {n}) /\ Cardinality(listed \cup {n}) <= K
        <5>1. /\ IsFiniteSet(listed \cup {n})
              /\ Cardinality(listed \cup {n}) = Cardinality(listed) + 1
          BY <2>2, <2>6, FS_AddElement
        <5>. QED  BY <5>1, <2>2, <3>3
      <4>3. KeepsClosest'
        BY <4>1, <4>2, <2>1, <2>2, <2>4, ClosestOfSmall DEF KeepsClosest
      <4>4. S = ClosestIn(S, K)
        <5>1. CASE ClosestIn(S, K) # S
          BY <5>1, <2>2, <2>3, <3>3, ClosestCardinality
        <5>. QED  BY <5>1
      <4>5. n \notin before.list  BY <4>4, <2>1a, <2>3, <2>6
      <4>. QED
        BY <4>1, <4>3, <4>5, <3>1, <3>2, <2>1 DEF LoopTypes, PendingAreNew
    <3>4. CASE ~ (Cardinality(listed) < K)
      <4>0. Cardinality(listed) = K  BY <3>4, <2>2, <2>3
      <4>1. CASE n < Farthest(listed)
        <5>1. /\ listed' = (listed \cup {n}) \ {Farthest(listed)}
              /\ unasked' = (unasked \cup {n}) \ {Farthest(listed)}
          BY <1>2, <2>1a, <2>6, <3>4, <4>1 DEF TakeNode, Fits, Insert
        <5>2. KeepsClosest'
          <6>1. n \in Nat \ listed /\ K \in Nat \ {0}  BY <2>1, <2>6
          <6>2. ClosestIn(listed \cup {n}, K) = (listed \cup {n}) \ {Farthest(listed)}
            BY ONLY <6>1, <4>0, <4>1, <2>2, InsertIsClosest
          <6>. QED  BY <5>1, <6>2, <2>1, <2>4 DEF KeepsClosest
        <5>3. n \notin before.list
          <6>. SUFFICES ASSUME n \in before.list  PROVE FALSE
            OBVIOUS
          <6>1. listed # {} /\ Farthest(listed) \in listed
            BY <4>0, <2>2, FS_EmptySet, FarthestExists
          <6>2. n \in S \ ClosestIn(S, K)  BY <2>1a, <2>3, <2>6
          <6>3. \A x \in ClosestIn(S, K), y \in S \ ClosestIn(S, K) : x < y
            BY <2>2, ClosestBasics
          <6>4. Farthest(listed) < n  BY <6>1, <6>2, <6>3, <2>3
          <6>5. Farthest(listed) \in Nat /\ n \in Nat  BY <6>1, <2>1, <2>2
          <6>. QED  BY <6>4, <6>5, <4>1
        <5>4. LoopTypes'  BY <5>1, <3>1, <2>1 DEF LoopTypes
        <5>5. PendingAreNew'
          BY <5>1, <5>3, <2>1 DEF PendingAreNew, LoopTypes
        <5>. QED  BY <5>2, <5>4, <5>5, <3>2
      <4>2. CASE ~ (n < Farthest(listed))
        <5>1. UNCHANGED <<listed, unasked>>
          BY <1>2, <2>1a, <2>6, <3>4, <4>2 DEF TakeNode, Fits
        <5>2. KeepsClosest'
          BY <5>1, <4>0, <4>2, <2>1, <2>2, <2>4, <2>6, InsertIsClosest DEF KeepsClosest
        <5>. QED
          BY <5>1, <5>2, <3>1, <3>2, <2>1 DEF LoopTypes, PendingAreNew
      <4>. QED  BY <4>1, <4>2
    <3>. QED  BY <3>3, <3>4
  <2>. QED  BY <2>5, <2>6
<1>. QED  BY <1>1, <1>2

\* DhtQuery::add_nodes: after any number of iterations list_ is the k_ closest
\* of what it began with and what was looked at.
THEOREM AddNodesKeepsClosest == LoopSpec => []KeepsClosest
<1>1. LoopInv => KeepsClosest  BY DEF LoopInv
<1>. QED  BY <1>1, LoopInit, LoopStep, PTL DEF LoopSpec

\* DhtQuery::add_nodes: what is pending afterwards is exactly what was pending
\* or is new, and is still listed.
THEOREM AddNodesPendingAreNew == LoopSpec => []PendingAreNew
<1>1. LoopInv => PendingAreNew  BY DEF LoopInv
<1>. QED  BY <1>1, LoopInit, LoopStep, PTL DEF LoopSpec

\* DhtQuery::add_nodes: every node looked at was listed already or is offered to
\* the member.
THEOREM AddNodesOffersAll == LoopSpec => []AllOffered
<1>1. LoopInv => AllOffered  BY DEF LoopInv
<1>. QED  BY <1>1, LoopInit, LoopStep, PTL DEF LoopSpec
=============================================================================

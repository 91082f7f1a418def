--------------------------- MODULE DhtQueryProofs ---------------------------
(***************************************************************************)
(* Safety of DhtQuery for every set of nodes and every k_ and a_.          *)
(* QueryInv is inductive: the properties the runs check, together with the *)
(* relation between the queries in flight, the nodes asked and the nodes   *)
(* known.  All handlers end in send_queries, so one lemma about it         *)
(* (SendQueriesInv) carries the proof.                                     *)
(***************************************************************************)
EXTENDS DhtQuery, ClosestProofs

Bookkeeping ==
  /\ inflight \subseteq asked
  /\ asked \subseteq offered
  /\ phase = "created" => active = 0 /\ inflight = {} /\ asked = {}
  /\ promise.kind = "none" => promise = Unanswered

QueryInv == /\ TypeOK /\ ListIsClosest /\ AskedOnce /\ ActiveIsInFlight
            /\ EndsExhausted /\ AnsweredOnStop /\ Bookkeeping

\* Sets of nodes are finite sets of naturals.
LEMMA NodesFinite ==
  ASSUME NEW S \in SUBSET Node
  PROVE  S \in SUBSET Nat /\ IsFiniteSet(S) /\ Cardinality(S) \in Nat
BY NodeAssumption, FS_Subset, FS_CardinalityType

\* send_queries: from a list that is closest and a consistent count it reaches a
\* state that satisfies the invariant, and its own CHECKs hold.
LEMMA SendQueriesInv ==
  ASSUME NEW l \in SUBSET Node, NEW p \in SUBSET l,
         NEW running \in Nat, NEW waiting \in SUBSET asked,
         asked \in SUBSET Node, offered' \in SUBSET Node, asked \subseteq offered',
         running = Cardinality(waiting), running <= A,
         p \cap asked = {}, l \subseteq p \cup asked,
         l = ClosestIn(offered', K),
         promise = Unanswered,
         SendQueries(l, p, running, waiting)
  PROVE  QueryInv' /\ NoAbort'
<1>. DEFINE batch == ClosestIn(p, A - running)
<1>. USE KAssumption, ParallelAssumption
<1>1. /\ list' = l /\ pending' = p \ batch
      /\ active' = running + Cardinality(batch)
      /\ asked' = asked \cup batch /\ inflight' = waiting \cup batch
  BY DEF SendQueries
<1>2. /\ p \in SUBSET Nat /\ IsFiniteSet(p) /\ A - running \in Nat
      /\ waiting \in SUBSET Node /\ IsFiniteSet(waiting)
      /\ offered' \in SUBSET Nat /\ IsFiniteSet(offered')
  BY NodesFinite
<1>3. /\ batch \in SUBSET p /\ IsFiniteSet(batch) /\ Cardinality(batch) \in Nat
      /\ Cardinality(batch) <= A - running
      /\ batch # p => Cardinality(batch) = A - running
  BY <1>2, ClosestBasics, ClosestCardinality
<1>4. Cardinality(l) <= K /\ l \subseteq offered'
  BY <1>2, ClosestCardinality, ClosestBasics
<1>4a. /\ active' > 0 => phase' = "running" /\ promise' = promise
       /\ ~ (active' > 0) /\ pending' = {} => phase' = "stopped" /\ Finish(l)
       /\ ~ (active' > 0) /\ pending' # {} => phase' = "aborted"
  BY <1>4 DEF SendQueries, Abort
<1>. HIDE DEF batch
<1>5. active' = Cardinality(inflight')
  <2>1. waiting \cap batch = {}  BY <1>3
  <2>2. Cardinality(waiting \cup batch) = running + Cardinality(batch) - 0
    <3>1. Cardinality(waiting \cap batch) = 0  BY <2>1, FS_EmptySet
    <3>2. Cardinality(waiting \cup batch)
            = Cardinality(waiting) + Cardinality(batch) - Cardinality(waiting \cap batch)
      BY <1>2, <1>3, FS_Union
    <3>. QED  BY <3>1, <3>2
  <2>. QED  BY <2>2, <1>1, <1>3
<1>6. active' \in Nat /\ active' <= A /\ (active' < A => pending' = {})
  <2>0. A \in Nat /\ running \in Nat /\ Cardinality(batch) \in Nat  BY <1>3
  <2>1. active' \in Nat /\ active' <= A  BY <2>0, <1>1, <1>3
  <2>2. active' < A => Cardinality(batch) # A - running  BY <2>0, <1>1
  <2>3. batch = p => pending' = {}  BY <1>1
  <2>. QED  BY <2>1, <2>2, <2>3, <1>3
<1>7. /\ list' \in SUBSET Node /\ pending' \in SUBSET Node
      /\ inflight' \in SUBSET Node /\ asked' \in SUBSET Node
      /\ offered' \in SUBSET Node
  BY <1>1, <1>3
<1>8. ListIsClosest'  BY <1>1 DEF ListIsClosest
<1>9. AskedOnce'  BY <1>1, <1>3 DEF AskedOnce
<1>10. inflight' \subseteq asked' /\ asked' \subseteq offered'
  BY <1>1, <1>3, <1>4
<1>11. CASE active' > 0
  <2>1. phase' = "running" /\ promise' = Unanswered  BY <1>4a, <1>11
  <2>2. promise'.kind = "none"  BY <2>1 DEF Unanswered
  <2>3. TypeOK'  BY <1>6, <1>7, <2>1 DEF TypeOK, Unanswered
  <2>4. ActiveIsInFlight'  BY <1>5, <1>6, <1>11, <2>1 DEF ActiveIsInFlight
  <2>5. EndsExhausted' /\ AnsweredOnStop' /\ NoAbort'
    BY <2>1, <2>2 DEF EndsExhausted, AnsweredOnStop, NoAbort
  <2>6. Bookkeeping'  BY <1>10, <2>1 DEF Bookkeeping
  <2>. QED  BY <1>8, <1>9, <2>3, <2>4, <2>5, <2>6 DEF QueryInv
<1>12. CASE ~ (active' > 0)
  <2>1. active' = 0 /\ pending' = {}  BY <1>6, <1>12
  <2>2. phase' = "stopped" /\ Finish(l)  BY <2>1, <1>4a
  <2>3. inflight' = {}
    BY <1>5, <1>7, <2>1, NodesFinite, FS_EmptySet
  <2>4. l \subseteq asked'  BY <1>9, <1>1, <2>1 DEF AskedOnce
  <2>5. promise' = IF FindValue THEN NotFound ELSE Nodes(l)  BY <2>2 DEF Finish
  <2>6. TypeOK'  BY <1>6, <1>7, <2>2, <2>5 DEF TypeOK, NotFound, Nodes
  <2>7. ActiveIsInFlight' /\ NoAbort'  BY <2>2 DEF ActiveIsInFlight, NoAbort
  <2>8. EndsExhausted'
    BY <2>3, <2>4, <2>5 DEF EndsExhausted, NotFound, Nodes
  <2>9. AnsweredOnStop'
    BY <2>2, <2>5 DEF AnsweredOnStop, NotFound, Nodes, Unanswered
  <2>10. Bookkeeping'
    BY <1>10, <2>2, <2>5 DEF Bookkeeping, NotFound, Nodes
  <2>. QED  BY <1>8, <1>9, <2>6, <2>7, <2>8, <2>9, <2>10 DEF QueryInv
<1>. QED  BY <1>11, <1>12

\* The constructor establishes the invariant.
LEMMA QueryInit == Init => QueryInv
<1>. SUFFICES ASSUME Init  PROVE QueryInv
  OBVIOUS
<1>1. /\ offered \in SUBSET Node /\ list = ClosestIn(offered, K)
      /\ pending = list /\ active = 0 /\ phase = "created"
      /\ promise = Unanswered /\ inflight = {} /\ asked = {}
  BY DEF Init
<1>2. list \in SUBSET offered
  BY <1>1, NodesFinite, ClosestBasics, KAssumption, ParallelAssumption
<1>. QED
  BY <1>1, <1>2 DEF QueryInv, TypeOK, ListIsClosest, AskedOnce, ActiveIsInFlight,
     EndsExhausted, AnsweredOnStop, Bookkeeping, Unanswered

\* finish_query after the answer of n.  Its CHECK cannot fail when a_ <= k_ + 1.
LEMMA FinishQueryInv ==
  ASSUME QueryInv, phase = "running", NEW n \in inflight,
         NEW l \in SUBSET Node, NEW p \in SUBSET l,
         offered' \in SUBSET Node, offered \subseteq offered',
         p \cap asked = {}, l \subseteq p \cup asked,
         l = ClosestIn(offered', K),
         FinishQuery(n, l, p)
  PROVE  QueryInv' /\ (A <= K + 1 => NoAbort')
<1>. DEFINE waiting == inflight \ {n}
            running == active - 1
<1>1. /\ inflight \in SUBSET asked /\ asked \in SUBSET Node /\ asked \subseteq offered'
      /\ inflight \in SUBSET Node /\ active \in Nat
      /\ active = Cardinality(inflight) /\ 0 < active /\ active <= A
      /\ promise = Unanswered
  BY DEF QueryInv, TypeOK, Bookkeeping, ActiveIsInFlight, AnsweredOnStop
<1>2. Cardinality(waiting) = running /\ running \in Nat /\ running <= A
  <2>1. Cardinality(waiting) = Cardinality(inflight) - 1
    BY <1>1, NodesFinite, FS_RemoveElement
  <2>. QED  BY <2>1, <1>1, KAssumption, ParallelAssumption
<1>3. waiting \in SUBSET asked  BY <1>1
<1>4. CASE active - 1 <= K
  <2>1. SendQueries(l, p, running, waiting)  BY <1>4 DEF FinishQuery
  <2>. HIDE DEF waiting, running
  <2>. QED  BY <2>1, <1>1, <1>2, <1>3, SendQueriesInv
<1>5. CASE ~ (active - 1 <= K)
  <2>1. /\ list' = l /\ pending' = p /\ active' = running
        /\ inflight' = waiting /\ asked' = asked
        /\ phase' = "aborted" /\ promise' = Unanswered
    BY <1>1, <1>5 DEF FinishQuery, Abort
  <2>2. promise'.kind = "none"  BY <2>1 DEF Unanswered
  <2>3. TypeOK'  BY <2>1, <1>1, <1>2 DEF TypeOK, Unanswered
  <2>4. ListIsClosest' /\ AskedOnce'  BY <2>1 DEF ListIsClosest, AskedOnce
  <2>5. ActiveIsInFlight' /\ EndsExhausted' /\ AnsweredOnStop'
    BY <2>1, <2>2 DEF ActiveIsInFlight, EndsExhausted, AnsweredOnStop
  <2>6. Bookkeeping'  BY <2>1, <1>1 DEF Bookkeeping
  <2>7. ~ (A <= K + 1)  BY <1>1, <1>5, KAssumption, ParallelAssumption
  <2>. QED  BY <2>3, <2>4, <2>5, <2>6, <2>7 DEF QueryInv
<1>. QED  BY <1>4, <1>5

\* The arguments on_result calls finish_query with.
LEMMA AddNodesListed ==
  ASSUME QueryInv, NEW nodes \in SUBSET Node,
         offered' = offered \cup (nodes \ list)
  PROVE  /\ Listed(nodes) \in SUBSET Node
         /\ Pending(nodes) \in SUBSET Listed(nodes)
         /\ offered' \in SUBSET Node /\ offered \subseteq offered'
         /\ Pending(nodes) \cap asked = {}
         /\ Listed(nodes) \subseteq Pending(nodes) \cup asked
         /\ Listed(nodes) = ClosestIn(offered', K)
<1>. USE KAssumption, ParallelAssumption
<1>1. /\ offered \in SUBSET Node /\ list = ClosestIn(offered, K)
      /\ list \in SUBSET Node
      /\ asked \subseteq offered
      /\ pending \cap asked = {} /\ list \subseteq pending \cup asked
  BY DEF QueryInv, TypeOK, ListIsClosest, AskedOnce, Bookkeeping
<1>2. list \in SUBSET offered
  BY <1>1, NodesFinite, ClosestBasics
<1>3. offered' = offered \cup nodes  BY <1>2
<1>4. Listed(nodes) = ClosestIn(offered \cup nodes, K)
  <2>1. /\ offered \in SUBSET Nat /\ IsFiniteSet(offered)
        /\ nodes \in SUBSET Nat /\ IsFiniteSet(nodes) /\ K \in Nat
    BY <1>1, NodesFinite
  <2>2. ClosestIn(ClosestIn(offered, K) \cup nodes, K) = ClosestIn(offered \cup nodes, K)
    BY <2>1, ClosestUnion
  <2>. QED  BY <2>2, <1>1 DEF Listed
<1>5. Listed(nodes) \in SUBSET (offered \cup nodes)
  <2>1. offered \cup nodes \in SUBSET Nat /\ IsFiniteSet(offered \cup nodes)
    BY <1>1, NodesFinite
  <2>. QED  BY <2>1, <1>4, ClosestBasics
\* A node that was asked and is listed now was listed before.
<1>6. ASSUME NEW x \in asked, x \in Listed(nodes)  PROVE x \in list
  <2>1. x \in offered /\ offered \cup nodes \in SUBSET Node /\ offered \in SUBSET (offered \cup nodes)
    BY <1>1
  <2>2. offered \cup nodes \in SUBSET Nat /\ IsFiniteSet(offered \cup nodes)
    BY <2>1, NodesFinite
  <2>3. x \in ClosestIn(offered \cup nodes, K)  BY <1>4, <1>6
  <2>. QED  BY <2>1, <2>2, <2>3, <1>1, ClosestAntitone
<1>7. Pending(nodes) \cap asked = {}
  BY <1>1, <1>6 DEF Pending
<1>8. Listed(nodes) \subseteq Pending(nodes) \cup asked
  BY <1>1 DEF Pending
<1>9. Pending(nodes) \in SUBSET Listed(nodes)  BY DEF Pending
<1>. QED  BY <1>1, <1>3, <1>4, <1>5, <1>7, <1>8, <1>9

\* start_up keeps the invariant, and its CHECKs hold whatever a_ is.
LEMMA StartUpInv ==
  ASSUME QueryInv, StartUp
  PROVE  QueryInv' /\ NoAbort'
<1>1. /\ phase = "created" /\ SendQueries(list, pending, active, inflight)
      /\ offered' = offered
  BY DEF StartUp
<1>2. /\ list \in SUBSET Node /\ pending \in SUBSET list
      /\ active = 0 /\ inflight = {} /\ asked = {}
      /\ offered \in SUBSET Node
      /\ list \subseteq pending \cup asked
      /\ list = ClosestIn(offered', K)
      /\ promise = Unanswered
  BY <1>1 DEF QueryInv, TypeOK, ListIsClosest, AskedOnce, Bookkeeping, AnsweredOnStop
<1>3. Cardinality(inflight) = 0  BY <1>2, FS_EmptySet
<1>4. active <= A /\ active \in Nat  BY <1>2, KAssumption, ParallelAssumption
<1>5. asked \subseteq offered' /\ asked \in SUBSET Node /\ inflight \in SUBSET asked
      /\ pending \cap asked = {} /\ offered' \in SUBSET Node
  BY <1>1, <1>2
<1>. QED  BY <1>1, <1>2, <1>3, <1>4, <1>5, SendQueriesInv

\* Every step keeps the invariant; with a_ <= k_ + 1 none of them aborts.
LEMMA QueryStep ==
  ASSUME QueryInv, [Next]_vars
  PROVE  QueryInv' /\ (A <= K + 1 /\ NoAbort => NoAbort')
<1>1. CASE StartUp
  BY <1>1, StartUpInv
<1>2. ASSUME NEW n \in Node, OnNoAnswer(n)
      PROVE  QueryInv' /\ (A <= K + 1 => NoAbort')
  <2>1. /\ phase = "running" /\ n \in inflight
        /\ FinishQuery(n, list, pending) /\ offered' = offered
    BY <1>2 DEF OnNoAnswer
  <2>2. /\ list \in SUBSET Node /\ pending \in SUBSET list
        /\ offered' \in SUBSET Node /\ offered \subseteq offered'
        /\ pending \cap asked = {} /\ list \subseteq pending \cup asked
        /\ list = ClosestIn(offered', K)
    BY <2>1 DEF QueryInv, TypeOK, ListIsClosest, AskedOnce
  <2>. QED  BY <2>1, <2>2, FinishQueryInv
<1>3. ASSUME NEW n \in Node, OnNodes(n)
      PROVE  QueryInv' /\ (A <= K + 1 => NoAbort')
  <2>1. PICK nodes \in SUBSET Node :
          /\ FinishQuery(n, Listed(nodes), Pending(nodes))
          /\ offered' = offered \cup (nodes \ list)
    BY <1>3 DEF OnNodes, OnNodesFrom
  <2>2. phase = "running" /\ n \in inflight  BY <1>3 DEF OnNodes, OnNodesFrom
  <2>3. /\ Listed(nodes) \in SUBSET Node
        /\ Pending(nodes) \in SUBSET Listed(nodes)
        /\ offered' \in SUBSET Node /\ offered \subseteq offered'
        /\ Pending(nodes) \cap asked = {}
        /\ Listed(nodes) \subseteq Pending(nodes) \cup asked
        /\ Listed(nodes) = ClosestIn(offered', K)
    BY <2>1, AddNodesListed
  <2>. QED  BY <2>1, <2>2, <2>3, FinishQueryInv
<1>4. ASSUME NEW n \in Node, OnValue(n)
      PROVE  QueryInv' /\ NoAbort'
  <2>1. /\ phase' = "stopped" /\ promise' = Value /\ inflight' = inflight \ {n}
        /\ UNCHANGED <<list, pending, active, asked, offered>>
    BY <1>4 DEF OnValue
  <2>. QED
    BY <2>1 DEF QueryInv, TypeOK, ListIsClosest, AskedOnce, ActiveIsInFlight, NoAbort,
       EndsExhausted, AnsweredOnStop, Bookkeeping, Value, Unanswered
<1>5. CASE UNCHANGED vars
  BY <1>5 DEF vars, QueryInv, TypeOK, ListIsClosest, AskedOnce, ActiveIsInFlight,
     NoAbort, EndsExhausted, AnsweredOnStop, Bookkeeping
<1>6. CASE Stopped
  BY <1>5, <1>6 DEF Stopped
<1>. QED  BY <1>1, <1>2, <1>3, <1>4, <1>5, <1>6 DEF Next, OnResult

\* The inductive invariant of a lookup holds throughout.
THEOREM QueryInvariant == Spec => []QueryInv
BY QueryInit, QueryStep, PTL DEF Spec

\* The query's list is, at all times, the k_ closest nodes it has heard of.
THEOREM ListIsAlwaysClosest == Spec => []ListIsClosest
<1>1. QueryInv => ListIsClosest  BY DEF QueryInv
<1>. QED  BY <1>1, QueryInvariant, PTL

\* No node is asked twice, and none is asked after it was evicted.
THEOREM NoNodeAskedTwice == Spec => []AskedOnce
<1>1. QueryInv => AskedOnce  BY DEF QueryInv
<1>. QED  BY <1>1, QueryInvariant, PTL

\* At most a_ queries are in flight, active_queries_ is their number, and the
\* query never sits idle with something left to ask.
THEOREM ParallelismBounded == Spec => []ActiveIsInFlight
<1>1. QueryInv => ActiveIsInFlight  BY DEF QueryInv
<1>. QED  BY <1>1, QueryInvariant, PTL

\* A query that returns its list has asked every node of it and waits for nobody.
THEOREM ResultIsExhausted == Spec => []EndsExhausted
<1>1. QueryInv => EndsExhausted  BY DEF QueryInv
<1>. QED  BY <1>1, QueryInvariant, PTL

\* The promise is answered exactly when the actor stops.
THEOREM AnswerOnStopOnly == Spec => []AnsweredOnStop
<1>1. QueryInv => AnsweredOnStop  BY DEF QueryInv
<1>. QED  BY <1>1, QueryInvariant, PTL

\* With a_ <= k_ + 1 no CHECK of the query fails; run query_check shows that
\* create_global_config admits configurations where one does.
THEOREM ChecksHold == A <= K + 1 /\ Spec => []NoAbort
<1>. SUFFICES ASSUME A <= K + 1  PROVE Spec => []NoAbort
  OBVIOUS
<1>1. Init => QueryInv /\ NoAbort
  BY QueryInit DEF Init, NoAbort
<1>2. (QueryInv /\ NoAbort) /\ [Next]_vars => (QueryInv /\ NoAbort)'
  BY QueryStep
<1>. QED  BY <1>1, <1>2, PTL DEF Spec

\* What one call of send_queries asks: pending nodes, the closest first.
LEMMA SendQueriesBatch ==
  ASSUME NEW l \in SUBSET Node, NEW p \in SUBSET l, NEW running \in Nat,
         NEW waiting, running <= A, p \cap asked = {}, l \subseteq p \cup asked,
         SendQueries(l, p, running, waiting)
  PROVE  /\ asked \subseteq asked'
         /\ asked' \ asked \subseteq p
         /\ inflight' = waiting \cup (asked' \ asked)
         /\ list' = l
         /\ \A n \in asked' \ asked, m \in l : m < n => m \in asked'
<1>. DEFINE batch == ClosestIn(p, A - running)
<1>1. p \in SUBSET Nat /\ IsFiniteSet(p) /\ A - running \in Nat
  BY NodesFinite, KAssumption, ParallelAssumption
<1>2. batch \in SUBSET p /\ \A x \in batch, y \in p : y <= x => y \in batch
  BY <1>1, ClosestBasics
<1>3. asked' = asked \cup batch /\ inflight' = waiting \cup batch /\ list' = l
  BY DEF SendQueries
<1>. HIDE DEF batch
<1>3a. asked' \ asked = batch  BY <1>2, <1>3
<1>4. ASSUME NEW n \in batch, NEW m \in l, m < n  PROVE m \in asked'
  <2>1. CASE m \in asked
    BY <2>1, <1>3
  <2>2. CASE m \in p
    <3>1. m \in Nat /\ n \in Nat  BY <1>1, <1>2, <2>2
    <3>2. m <= n  BY <3>1, <1>4
    <3>. QED  BY <3>2, <2>2, <1>2, <1>3
  <2>. QED  BY <2>1, <2>2
<1>. QED  BY <1>2, <1>3, <1>3a, <1>4

\* Each step asks only nodes all of whose closer listed nodes have been asked.
LEMMA ClosestFirstStep ==
  ASSUME QueryInv, [Next]_vars
  PROVE  [\A n \in asked' \ asked, m \in list' : m < n => m \in asked']_vars
<1>. DEFINE Step == \A n \in asked' \ asked, m \in list' : m < n => m \in asked'
<1>. USE KAssumption, ParallelAssumption
<1>1. ASSUME StartUp  PROVE Step
  <2>1. SendQueries(list, pending, active, inflight) /\ active = 0
        /\ list \in SUBSET Node /\ pending \in SUBSET list
        /\ list \subseteq pending \cup asked /\ pending \cap asked = {}
    <3>1. SendQueries(list, pending, active, inflight) /\ phase = "created"
      BY <1>1 DEF StartUp
    <3>2. active = 0  BY <3>1 DEF QueryInv, Bookkeeping
    <3>3. list \in SUBSET Node /\ pending \in SUBSET list
          /\ list \subseteq pending \cup asked /\ pending \cap asked = {}
      BY DEF QueryInv, AskedOnce, TypeOK
    <3>. QED  BY <3>1, <3>2, <3>3
  <2>2. active \in Nat /\ active <= A  BY <2>1
  <2>3. /\ list' = list
        /\ \A n \in asked' \ asked, m \in list : m < n => m \in asked'
    BY <2>1, <2>2, SendQueriesBatch
  <2>. QED  BY <2>3
<1>2. ASSUME NEW n \in Node, phase = "running",
             NEW l \in SUBSET Node, NEW p \in SUBSET l, l \subseteq p \cup asked,
             p \cap asked = {}, FinishQuery(n, l, p)
      PROVE  Step
  <2>1. active - 1 \in Nat /\ active - 1 <= A
    <3>1. active \in Nat /\ 0 < active /\ active <= A
      BY <1>2 DEF QueryInv, ActiveIsInFlight, TypeOK
    <3>. QED  BY <3>1
  <2>2. CASE active - 1 <= K
    <3>1. SendQueries(l, p, active - 1, inflight \ {n})
      BY <1>2, <2>2 DEF FinishQuery
    <3>2. /\ list' = l
          /\ \A x \in asked' \ asked, m \in l : m < x => m \in asked'
      BY <3>1, <1>2, <2>1, SendQueriesBatch
    <3>. QED  BY <3>2
  <2>3. CASE ~ (active - 1 <= K)
    <3>1. asked' = asked  BY <1>2, <2>3 DEF FinishQuery
    <3>. QED  BY <3>1
  <2>. QED  BY <2>2, <2>3
<1>3. ASSUME NEW n \in Node, OnNoAnswer(n)  PROVE Step
  <2>1. list \in SUBSET Node /\ pending \in SUBSET list
        /\ list \subseteq pending \cup asked /\ pending \cap asked = {}
        /\ phase = "running" /\ FinishQuery(n, list, pending)
    BY <1>3 DEF OnNoAnswer, QueryInv, TypeOK, AskedOnce
  <2>. QED  BY <2>1, <1>2
<1>4. ASSUME NEW n \in Node, OnNodes(n)  PROVE Step
  <2>1. PICK nodes \in SUBSET Node :
          /\ FinishQuery(n, Listed(nodes), Pending(nodes))
          /\ offered' = offered \cup (nodes \ list)
    BY <1>4 DEF OnNodes, OnNodesFrom
  <2>2. phase = "running"  BY <1>4 DEF OnNodes, OnNodesFrom
  <2>3. /\ Listed(nodes) \in SUBSET Node
        /\ Pending(nodes) \in SUBSET Listed(nodes)
        /\ Listed(nodes) \subseteq Pending(nodes) \cup asked
        /\ Pending(nodes) \cap asked = {}
    BY <2>1, AddNodesListed
  <2>. QED  BY <2>1, <2>2, <2>3, <1>2
<1>5. ASSUME NEW n \in Node, OnValue(n)  PROVE Step
  BY <1>5 DEF OnValue
<1>. HIDE DEF Step
<1>7. Step \/ UNCHANGED vars
  BY <1>1, <1>3, <1>4, <1>5 DEF Next, OnResult, Stopped
<1>. QED  BY <1>7 DEF Step

\* A node is asked only when every closer node of the list has been.
THEOREM ClosestAskedFirst == Spec => ClosestFirst
BY ClosestFirstStep, QueryInvariant, PTL DEF Spec, ClosestFirst
-----------------------------------------------------------------------------
\* What the answers to the promise say of the outcome.
LEMMA PromiseKinds ==
  /\ Unanswered.kind = "none" /\ NotFound.kind = "not found"
  /\ \A l : Nodes(l).kind = "nodes"
BY DEF Unanswered, NotFound, Nodes

\* The abstract lookup orders nodes in the same way.
LEMMA LookupOperators ==
  /\ \A S, c : Lookup!ClosestIn(S, c) = ClosestIn(S, c)
  /\ \A S : Lookup!Cardinality(S) = Cardinality(S)
<1>1. \A S : Lookup!Cardinality(S) = Cardinality(S)
  BY DEF Lookup!Cardinality, Cardinality
<1>. QED
  BY <1>1 DEF Lookup!ClosestIn, ClosestIn, Lookup!Before, Before

\* When the invariant holds after a step that asked only listed nodes, the step
\* is a Proceed of the abstract lookup.
LEMMA ProceedIf ==
  ASSUME QueryInv', asked \subseteq asked', asked' \ asked \subseteq list',
         promise'.kind # "value",
         phase' \in {"running", "stopped", "aborted"},
         phase' = "aborted" => inflight' # {} /\ Cardinality(inflight') <= A
  PROVE  \E batch \in SUBSET Node : Lookup!Proceed(batch)
<1>. DEFINE batch == asked' \ asked
<1>1. batch \in SUBSET Node /\ asked' = asked \cup batch
  BY DEF QueryInv, TypeOK
<1>2. batch \subseteq ClosestIn(offered', K) \ asked
  BY DEF QueryInv, ListIsClosest
<1>3. asked' \ Answered' = inflight' /\ (asked' = Answered' <=> inflight' = {})
  BY DEF QueryInv, Bookkeeping, Answered
<1>3a. Lookup!ClosestIn(offered', K) = ClosestIn(offered', K)
       /\ \A S : Lookup!Cardinality(S) = Cardinality(S)
  BY LookupOperators
<1>4. CASE phase' = "running"
  <2>1. Cardinality(inflight') > 0 /\ Cardinality(inflight') <= A
    BY <1>4 DEF QueryInv, ActiveIsInFlight
  <2>2. inflight' # {}  BY <2>1, FS_EmptySet
  <2>3. Outcome' = "open"
    BY <1>4 DEF QueryInv, AnsweredOnStop, Outcome, Unanswered
  <2>. QED  BY <1>1, <1>2, <1>3, <1>3a, <2>1, <2>2, <2>3 DEF Lookup!Proceed
<1>5. CASE phase' = "stopped"
  <2>1. promise'.kind # "none"
    BY <1>5 DEF QueryInv, AnsweredOnStop, Bookkeeping
  <2>2. promise'.kind \in {"none", "nodes", "value", "not found"}
    BY DEF QueryInv, TypeOK
  <2>3. promise'.kind \in {"nodes", "not found"}  BY <2>1, <2>2
  <2>4. inflight' = {} /\ ClosestIn(offered', K) \subseteq asked'
    BY <2>3 DEF QueryInv, EndsExhausted
  <2>5. Outcome' = "concluded"  BY <2>3 DEF Outcome
  <2>6. Cardinality(inflight') <= A  BY <2>4, FS_EmptySet, KAssumption, ParallelAssumption
  <2>. QED  BY <1>1, <1>2, <1>3, <1>3a, <2>4, <2>5, <2>6 DEF Lookup!Proceed
<1>6. CASE phase' = "aborted"
  <2>1. Outcome' = "open"
    BY <1>6 DEF QueryInv, AnsweredOnStop, Outcome, Unanswered
  <2>. QED  BY <1>1, <1>2, <1>3, <1>3a, <1>6, <2>1 DEF Lookup!Proceed
<1>. QED  BY <1>4, <1>5, <1>6

\* finish_query is a Hear of the abstract lookup.
LEMMA FinishQueryHears ==
  ASSUME QueryInv, QueryInv', phase = "running", NEW n \in inflight,
         NEW nodes \in SUBSET Node, offered' = offered \cup nodes,
         NEW l \in SUBSET Node, NEW p \in SUBSET l,
         p \cap asked = {}, l \subseteq p \cup asked,
         FinishQuery(n, l, p)
  PROVE  Lookup!Hear
<1>1. /\ active \in Nat /\ 0 < active /\ active <= A
      /\ active = Cardinality(inflight) /\ inflight \in SUBSET Node
      /\ inflight \subseteq asked /\ promise = Unanswered
  BY DEF QueryInv, TypeOK, ActiveIsInFlight, Bookkeeping, AnsweredOnStop
<1>2. /\ asked \subseteq asked' /\ asked' \ asked \subseteq list'
      /\ inflight' = (inflight \ {n}) \cup (asked' \ asked)
      /\ promise'.kind # "value"
      /\ phase' \in {"running", "stopped", "aborted"}
      /\ phase' = "aborted" => inflight' # {} /\ Cardinality(inflight') <= A
  <2>1. CASE active - 1 <= K
    <3>1. SendQueries(l, p, active - 1, inflight \ {n})
      BY <2>1 DEF FinishQuery
    <3>2. active - 1 \in Nat /\ active - 1 <= A  BY <1>1, KAssumption, ParallelAssumption
    <3>3. /\ asked \subseteq asked' /\ asked' \ asked \subseteq p
          /\ inflight' = (inflight \ {n}) \cup (asked' \ asked) /\ list' = l
      BY <3>1, <3>2, SendQueriesBatch
    <3>4. /\ promise'.kind # "value"
          /\ phase' \in {"running", "stopped", "aborted"}
      <4>1. \/ phase' = "running" /\ promise' = promise
            \/ phase' = "stopped" /\ Finish(l)
            \/ phase' = "aborted" /\ promise' = promise
        BY <3>1 DEF SendQueries, Abort
      <4>2. Finish(l) => promise' = NotFound \/ promise' = Nodes(l)
        BY KindAssumption DEF Finish
      <4>3. promise' = Unanswered \/ promise' = NotFound \/ promise' = Nodes(l)
        BY <4>1, <4>2, <1>1
      <4>4. promise'.kind # "value"
        BY <4>3, PromiseKinds
      <4>. QED  BY <4>1, <4>4
    <3>5. phase' # "aborted"
      <4>1. Cardinality(inflight \ {n}) = active - 1
        BY <1>1, NodesFinite, FS_RemoveElement
      <4>2. /\ asked \in SUBSET Node /\ offered' \in SUBSET Node
            /\ asked \subseteq offered'
            /\ inflight \ {n} \in SUBSET asked
            /\ l = ClosestIn(offered', K)
        BY <1>1, <3>3 DEF QueryInv, TypeOK, Bookkeeping, ListIsClosest
      <4>3. NoAbort'
        BY <1>1, <3>1, <3>2, <4>1, <4>2, SendQueriesInv
      <4>. QED  BY <4>3 DEF NoAbort
    <3>. QED  BY <3>3, <3>4, <3>5
  <2>2. CASE ~ (active - 1 <= K)
    <3>1. /\ list' = l /\ inflight' = inflight \ {n} /\ asked' = asked
          /\ phase' = "aborted" /\ promise' = Unanswered
      BY <2>2, <1>1 DEF FinishQuery, Abort
    <3>2. Cardinality(inflight') = active - 1
      BY <3>1, <1>1, NodesFinite, FS_RemoveElement
    <3>3. active - 1 > 0 /\ active - 1 <= A  BY <1>1, <2>2, KAssumption, ParallelAssumption
    <3>4. inflight' # {}  BY <3>2, <3>3, FS_EmptySet
    <3>. QED  BY <3>1, <3>2, <3>3, <3>4 DEF Unanswered
  <2>. QED  BY <2>1, <2>2
<1>3. Answered' = Answered \cup {n} /\ n \in asked \ Answered
  BY <1>1, <1>2 DEF Answered
<1>4. Outcome = "open"  BY <1>1 DEF Outcome, Unanswered
<1>5. \E batch \in SUBSET Node : Lookup!Proceed(batch)
  BY <1>2, ProceedIf
<1>. QED  BY <1>3, <1>4, <1>5 DEF Lookup!Hear

\* start_up is a Begin of the abstract lookup.
LEMMA StartUpBegins ==
  ASSUME QueryInv, QueryInv', NoAbort', StartUp
  PROVE  Lookup!Begin
<1>1. /\ phase = "created" /\ SendQueries(list, pending, active, inflight)
      /\ offered' = offered
  BY DEF StartUp
<1>2. /\ active = 0 /\ inflight = {} /\ asked = {} /\ promise = Unanswered
      /\ list \in SUBSET Node /\ pending \in SUBSET list
      /\ list \subseteq pending \cup asked /\ pending \cap asked = {}
  BY <1>1 DEF QueryInv, Bookkeeping, TypeOK, AskedOnce, AnsweredOnStop
<1>3. active \in Nat /\ active <= A  BY <1>2, KAssumption, ParallelAssumption
<1>4. /\ asked \subseteq asked' /\ asked' \ asked \subseteq list'
      /\ inflight' = asked' \ asked
  <2>1. /\ asked \subseteq asked' /\ asked' \ asked \subseteq pending
        /\ inflight' = inflight \cup (asked' \ asked) /\ list' = list
    <3>1. SendQueries(list, pending, active, inflight)  BY <1>1
    <3>2. /\ list \in SUBSET Node /\ pending \in SUBSET list /\ pending \cap asked = {}
          /\ list \subseteq pending \cup asked
      BY <1>2
    <3>. QED  BY ONLY <1>3, <3>1, <3>2, SendQueriesBatch
  <2>. QED  BY <2>1, <1>2
<1>5. /\ promise'.kind # "value"
      /\ phase' \in {"running", "stopped"}
  <2>1. \/ phase' = "running" /\ promise' = promise
        \/ phase' = "stopped" /\ Finish(list)
    BY <1>1 DEF SendQueries, Abort, NoAbort
  <2>2. Finish(list) => promise' = NotFound \/ promise' = Nodes(list)
    BY KindAssumption DEF Finish
  <2>3. promise' = Unanswered \/ promise' = NotFound \/ promise' = Nodes(list)
    BY <2>1, <2>2, <1>2
  <2>4. promise'.kind # "value"
    BY <2>3, PromiseKinds
  <2>. QED  BY <2>1, <2>4
<1>6. \E batch \in SUBSET Node : Lookup!Proceed(batch)
  BY <1>4, <1>5, ProceedIf
<1>7. Answered' = Answered  BY <1>2, <1>4 DEF Answered
<1>8. Outcome = "open"  BY <1>2 DEF Outcome, Unanswered
<1>. QED  BY <1>1, <1>6, <1>7, <1>8 DEF Lookup!Begin

\* Every DhtQuery behaviour is a behaviour of the abstract lookup: whatever the
\* counters and the pending set do, the query only asks known closest nodes,
\* each once and at most a_ at a time, and it concludes when all have been heard.
THEOREM QueryImplementsLookup == Spec => ImplementsLookup
<1>1. ASSUME Init  PROVE Lookup!Init
  <2>1. offered \in SUBSET Node /\ asked = {} /\ inflight = {} /\ promise = Unanswered
    BY <1>1 DEF Init
  <2>. QED  BY <2>1 DEF Lookup!Init, Answered, Outcome, Unanswered
<1>2. ASSUME QueryInv, QueryInv', [Next]_vars
      PROVE  [Lookup!Next]_(Lookup!lookupVars)
  <2>1. CASE StartUp
    <3>1. NoAbort'  BY <1>2, <2>1, StartUpInv
    <3>. QED  BY <1>2, <2>1, <3>1, StartUpBegins DEF Lookup!Next
  <2>2. ASSUME NEW n \in Node, OnNoAnswer(n)  PROVE Lookup!Hear
    <3>1. /\ phase = "running" /\ n \in inflight
          /\ FinishQuery(n, list, pending) /\ offered' = offered \cup {}
      BY <2>2 DEF OnNoAnswer
    <3>2. /\ list \in SUBSET Node /\ pending \in SUBSET list
          /\ pending \cap asked = {} /\ list \subseteq pending \cup asked
      BY <1>2 DEF QueryInv, TypeOK, AskedOnce
    <3>. QED  BY <1>2, <3>1, <3>2, FinishQueryHears
  <2>3. ASSUME NEW n \in Node, OnNodes(n)  PROVE Lookup!Hear
    <3>1. PICK nodes \in SUBSET Node :
            /\ FinishQuery(n, Listed(nodes), Pending(nodes))
            /\ offered' = offered \cup (nodes \ list)
      BY <2>3 DEF OnNodes, OnNodesFrom
    <3>2. phase = "running" /\ n \in inflight  BY <2>3 DEF OnNodes, OnNodesFrom
    <3>3. /\ Listed(nodes) \in SUBSET Node
          /\ Pending(nodes) \in SUBSET Listed(nodes)
          /\ Pending(nodes) \cap asked = {}
          /\ Listed(nodes) \subseteq Pending(nodes) \cup asked
      BY <1>2, <3>1, AddNodesListed
    <3>4. nodes \ list \in SUBSET Node  OBVIOUS
    <3>. QED  BY <1>2, <3>1, <3>2, <3>3, <3>4, FinishQueryHears
  <2>4. ASSUME NEW n \in Node, OnValue(n)  PROVE Lookup!Found
    <3>1. /\ phase = "running" /\ n \in inflight
          /\ promise' = Value /\ inflight' = inflight \ {n}
          /\ UNCHANGED <<asked, offered>>
      BY <2>4 DEF OnValue
    <3>2. promise = Unanswered /\ inflight \subseteq asked
      BY <1>2, <3>1 DEF QueryInv, AnsweredOnStop, Bookkeeping
    <3>3. Outcome = "open" /\ Outcome' = "found"
      BY <3>1, <3>2 DEF Outcome, Unanswered, Value
    <3>4. Answered' = Answered \cup {n} /\ n \in asked \ Answered
      BY <3>1, <3>2 DEF Answered
    <3>. QED  BY <3>1, <3>3, <3>4 DEF Lookup!Found
  <2>5. CASE UNCHANGED vars
    BY <2>5 DEF vars, Lookup!lookupVars, Answered, Outcome
  <2>6. CASE Stopped
    BY <2>5, <2>6 DEF Stopped
  <2>. QED
    BY <1>2, <2>1, <2>2, <2>3, <2>4, <2>5, <2>6 DEF Next, OnResult, Lookup!Next
<1>. QED
  BY <1>1, <1>2, QueryInvariant, PTL DEF Spec, ImplementsLookup, Lookup!Spec
=============================================================================

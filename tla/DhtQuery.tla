------------------------------ MODULE DhtQuery ------------------------------
(***************************************************************************)
(* One DhtQueryFindNodes or DhtQueryFindValue actor (dht/dht-query.hpp,    *)
(* dht/dht-query.cpp) and the answers ADNL delivers to it.                 *)
(*                                                                         *)
(* An actor handles one message at a time, so each handler is one action.  *)
(* ADNL answers every query it is given exactly once: with the peer's      *)
(* answer, in any order, or with an error when the query times out after   *)
(* 2..4 seconds.  A node is its XOR distance to the searched key (module   *)
(* Closest).                                                               *)
(***************************************************************************)
EXTENDS DhtNodes, Integers

CONSTANT FindValue   \* TRUE: DhtQueryFindValue; FALSE: DhtQueryFindNodes

ASSUME KindAssumption == FindValue \in BOOLEAN

VARIABLES list,       \* list_: the closest nodes known
          pending,    \* pending_ids_: the nodes of list_ still to be asked
          active,     \* active_queries_
          phase,      \* "created", "running", "stopped" (stop()) or "aborted" (a CHECK)
          promise,    \* what promise_ was answered with
          inflight,   \* the nodes whose query ADNL has not answered
          asked,      \* every node send_one_query was called for
          offered     \* every node passed on to DhtMember::add_full_node

vars == <<list, pending, active, phase, promise, inflight, asked, offered>>

Unanswered == [kind |-> "none", nodes |-> {}]
Nodes(l)   == [kind |-> "nodes", nodes |-> l]
Value      == [kind |-> "value", nodes |-> {}]
NotFound   == [kind |-> "not found", nodes |-> {}]
-----------------------------------------------------------------------------
\* Mutants: what a plausible slip in the code below would make of it.
ListedWithoutEviction(nodes) == list \cup nodes
PendingKeepsEvicted(nodes) == pending \cup (ClosestIn(list \cup nodes, K) \ list)

\* add_nodes: every new node is offered to the member; the K closest are kept
\* and those that are new among them become pending.  The loop that does it
\* one node at a time is module DhtAddNodes, which this is the effect of.
Listed(nodes) == ClosestIn(list \cup nodes, K)
Pending(nodes) == (pending \cup (Listed(nodes) \ list)) \cap Listed(nodes)

\* finish: FindNodes returns the list, FindValue the error "dht key not found".
Finish(l) == promise' = IF FindValue THEN NotFound ELSE Nodes(l)

Abort == phase' = "aborted" /\ UNCHANGED promise

\* Mutants of SendQueries: the query ends as soon as nothing is left to ask; the
\* farthest pending nodes are asked first; a_ is not looked at.
SendEndsEarly(l, p, running, waiting) ==
  LET batch == ClosestIn(p, A - running) IN
  /\ list' = l /\ pending' = p \ batch
  /\ active' = running + Cardinality(batch)
  /\ asked' = asked \cup batch /\ inflight' = waiting \cup batch
  /\ IF p # {} THEN phase' = "running" /\ UNCHANGED promise
               ELSE phase' = "stopped" /\ Finish(l)
SendFarthest(l, p, running, waiting) ==
  LET batch == p \ ClosestIn(p, Cardinality(p) + running - A) IN
  /\ list' = l /\ pending' = p \ batch
  /\ active' = running + Cardinality(batch)
  /\ asked' = asked \cup batch /\ inflight' = waiting \cup batch
  /\ IF active' > 0 THEN phase' = "running" /\ UNCHANGED promise
                    ELSE phase' = "stopped" /\ Finish(l)
SendUnlimited(l, p, running, waiting) ==
  /\ list' = l /\ pending' = {}
  /\ active' = running + Cardinality(p)
  /\ asked' = asked \cup p /\ inflight' = waiting \cup p
  /\ IF active' > 0 THEN phase' = "running" /\ UNCHANGED promise
                    ELSE phase' = "stopped" /\ Finish(l)

\* send_queries with list_ = l, pending_ids_ = p and `running` active queries,
\* those to `waiting`:
\* the closest pending nodes are asked until a_ queries are active; with none
\* active the query is over.
SendQueries(l, p, running, waiting) ==
  LET batch == ClosestIn(p, A - running) IN
  /\ list' = l
  /\ pending' = p \ batch
  /\ active' = running + Cardinality(batch)
  /\ asked' = asked \cup batch
  /\ inflight' = waiting \cup batch
  /\ IF active' > 0
     THEN phase' = "running" /\ UNCHANGED promise
     ELSE IF pending' = {} /\ Cardinality(l) <= K
          THEN phase' = "stopped" /\ Finish(l)
          ELSE Abort

\* The constructor: add_nodes(list) on an empty actor.
Init ==
  /\ \E nodes \in SUBSET Node :
        /\ Cardinality(nodes) <= K
        /\ list = ClosestIn(nodes, K)
        /\ offered = nodes
  /\ pending = list
  /\ active = 0
  /\ phase = "created"
  /\ promise = Unanswered
  /\ inflight = {} /\ asked = {}

StartUp ==
  /\ phase = "created"
  /\ SendQueries(list, pending, active, inflight)
  /\ UNCHANGED offered

\* Mutant: active_queries_ is not decremented.
FinishUncounted(n, l, p) == SendQueries(l, p, active, inflight \ {n})

\* finish_query, after the answer of n was used: list_ = l, pending_ids_ = p.
FinishQuery(n, l, p) ==
  IF active - 1 <= K
  THEN SendQueries(l, p, active - 1, inflight \ {n})
  ELSE /\ list' = l /\ pending' = p /\ active' = active - 1
       /\ inflight' = inflight \ {n}
       /\ UNCHANGED asked
       /\ Abort

\* on_result with an error, or with an answer that does not parse; for
\* DhtQueryFindValue also a value that is not valid or has another key.
OnNoAnswer(n) ==
  /\ phase = "running" /\ n \in inflight
  /\ FinishQuery(n, list, pending)
  /\ UNCHANGED offered

\* on_result with dht.nodes, or dht.valueNotFound for DhtQueryFindValue.
OnNodesFrom(n, nodes) ==
  /\ phase = "running" /\ n \in inflight
  /\ FinishQuery(n, Listed(nodes), Pending(nodes))
  /\ offered' = offered \cup (nodes \ list)

\* A peer may name any nodes.
OnNodes(n) == \E nodes \in SUBSET Node : OnNodesFrom(n, nodes)

\* DhtQueryFindValue::on_result with dht.valueFound for key_.
OnValue(n) ==
  /\ FindValue
  /\ phase = "running" /\ n \in inflight
  /\ promise' = Value
  /\ phase' = "stopped"
  /\ inflight' = inflight \ {n}
  /\ UNCHANGED <<list, pending, active, asked, offered>>

OnResult(n) == OnNoAnswer(n) \/ OnNodes(n) \/ OnValue(n)

\* A stopped actor drops what is still delivered to it.
Stopped == phase = "stopped" /\ UNCHANGED vars

Next == StartUp \/ (\E n \in Node : OnResult(n)) \/ Stopped

\* A created actor is started, and ADNL ends every query it was given.
Fairness == WF_vars(StartUp) /\ \A n \in Node : WF_vars(OnResult(n))

Spec == Init /\ [][Next]_vars
FairSpec == Spec /\ Fairness
-----------------------------------------------------------------------------
\* Type invariant: the fields of DhtQuery and the queries in flight.
TypeOK ==
  /\ list \in SUBSET Node /\ pending \in SUBSET Node
  /\ inflight \in SUBSET Node /\ asked \in SUBSET Node /\ offered \in SUBSET Node
  /\ active \in Nat
  /\ phase \in {"created", "running", "stopped", "aborted"}
  /\ promise \in [kind : {"none", "nodes", "value", "not found"}, nodes : SUBSET Node]

\* Whatever the order of the answers, and whatever was evicted on the way, list_
\* is the K closest of all nodes the query has ever heard of.
ListIsClosest == list = ClosestIn(offered, K)

\* No node is asked twice (a node evicted from list_ never comes back), every
\* node of list_ has been asked or is still to be, and an evicted one is not
\* asked any more: send_queries' list_.find(id_xor) succeeds.
AskedOnce == /\ pending \cap asked = {}
             /\ pending \subseteq list
             /\ list \subseteq pending \cup asked

\* active_queries_ counts the queries in flight; there are never more than a_,
\* and fewer only when nothing is left to ask, so the query never sits idle.
ActiveIsInFlight ==
  phase = "running" =>
    /\ active = Cardinality(inflight)
    /\ 0 < active /\ active <= A
    /\ active < A => pending = {}

\* The CHECKs of finish_query and send_queries hold.
NoAbort == phase # "aborted"

\* A query that ends with nodes, or without the value, has asked every one of
\* the K closest nodes it knows, waits for nobody, and returns exactly those.
EndsExhausted ==
  promise.kind \in {"nodes", "not found"} =>
    /\ inflight = {}
    /\ ClosestIn(offered, K) \subseteq asked
    /\ promise.kind = "nodes" => promise.nodes = ClosestIn(offered, K)

\* promise_ is answered exactly when the actor stops (a second answer to a
\* td::Promise, or its destruction without one, would be an error).
AnsweredOnStop == phase = "stopped" <=> promise # Unanswered

\* The closest first: when a node is asked, no closer node of list_ is left
\* waiting.
ClosestFirst ==
  [][\A n \in asked' \ asked, m \in list' : m < n => m \in asked']_vars

\* Liveness (from the ADNL timeout): every query answers its promise.
Terminates == <>(promise # Unanswered)

\* The abstract lookup this implements: it has asked nodes instead of pending
\* ones and counts nothing.
Outcome == IF promise.kind = "none" THEN "open"
           ELSE IF promise.kind = "value" THEN "found" ELSE "concluded"
Answered == asked \ inflight
Lookup == INSTANCE DhtLookup WITH
  seen <- offered, answered <- Answered, outcome <- Outcome
ImplementsLookup == Lookup!Spec
=============================================================================

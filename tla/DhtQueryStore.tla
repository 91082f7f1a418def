--------------------------- MODULE DhtQueryStore ---------------------------
(***************************************************************************)
(* The DhtQueryStore actor (dht/dht-query.hpp, dht/dht-query.cpp): it      *)
(* looks the nodes closest to a value's key up with a DhtQueryFindNodes    *)
(* actor of its own, keeps a copy if this node is close enough, and sends  *)
(* the value to every node found.                                          *)
(*                                                                         *)
(* Composed with DhtQuery, whose variables are those of that actor.  Nodes *)
(* are distances to the value's key, and so is Self, this node.            *)
(***************************************************************************)
EXTENDS DhtQuery

CONSTANT Self  \* the distance of src_, this node, to the value's key

ASSUME SelfAssumption == Self \in Nat
\* The lookup of a store is for nodes.
ASSUME StoreKindAssumption == FindValue = FALSE

VARIABLES stage,          \* "finding", "storing", "stopped"
          storing,        \* nodes whose dht.store ADNL has not answered
          remaining,      \* remaining_
          success, fail,  \* success_, fail_
          kept,           \* DhtMember::store_in was sent
          result          \* what the promise of the store was answered with

storeVars == <<stage, storing, remaining, success, fail, kept, result>>
actorVars == <<vars, storeVars>>

\* start_up creates the FindNodes actor with the nodes the member knows.
StoreInit ==
  /\ Init
  /\ stage = "finding"
  /\ storing = {} /\ remaining = 0 /\ success = 0 /\ fail = 0
  /\ kept = FALSE
  /\ result = "none"

FindStep == Next /\ UNCHANGED storeVars

\* Mutants: this node counts itself in only when there is room; the farthest
\* node of k_ is forgotten; a store where nobody confirmed reports success, or
\* nothing.
KeepNever(l) == Cardinality(l) < K
SendToAllButFarthest(l) == ClosestIn(l, K - 1)
RespondAlways == result' = "ok"
RespondSuccess == IF success' > 0 THEN result' = "ok" ELSE UNCHANGED result

\* This node is one of the k_ closest as far as it knows.
Keep(l) == Cardinality(l) < K \/ Self < Farthest(l)
SendTo(l) == l
StoreCount(l) == Cardinality(l)

\* send_stores, when the FindNodes actor has answered: it always answers with a
\* list, so the error branch is taken only when the actor system shuts down.
\* Nothing here ends the actor: store_ready does, when the last answer arrives.
SendStores ==
  /\ stage = "finding"
  /\ promise.kind = "nodes"
  /\ LET l == promise.nodes IN
     /\ kept' = Keep(l)
     /\ remaining' = StoreCount(l)
     /\ storing' = SendTo(l)
  /\ stage' = "storing"
  /\ UNCHANGED <<vars, success, fail, result>>

\* The answer to the promise once all nodes have answered.
Respond == result' = IF success' > 0 THEN "ok" ELSE "failed"

\* store_ready: node n confirmed with dht.stored (ok), or failed to.
StoreAnswered(n, ok) ==
  /\ stage = "storing" /\ n \in storing
  /\ IF ok THEN success' = success + 1 /\ UNCHANGED fail
           ELSE fail' = fail + 1 /\ UNCHANGED success
  /\ storing' = storing \ {n}
  /\ remaining' = remaining - 1
  /\ IF remaining' = 0
     THEN stage' = "stopped" /\ Respond
     ELSE UNCHANGED <<stage, result>>
  /\ UNCHANGED <<vars, kept>>

StoreReady(n) == \E ok \in BOOLEAN : StoreAnswered(n, ok)

StoreNext == FindStep \/ SendStores \/ \E n \in Node : StoreReady(n)

\* As DhtQuery's; a delivered result is handled, and ADNL ends every dht.store.
StoreFairness == /\ WF_actorVars(StartUp /\ UNCHANGED storeVars)
                 /\ \A n \in Node : WF_actorVars(OnResult(n) /\ UNCHANGED storeVars)
                 /\ WF_actorVars(SendStores)
                 /\ \A n \in Node : WF_actorVars(StoreReady(n))

StoreSpec == StoreInit /\ [][StoreNext]_actorVars
StoreFairSpec == StoreSpec /\ StoreFairness
-----------------------------------------------------------------------------
\* Types of the state; the counters of send_stores and store_ready, unsigned in
\* the code, never go below zero.
StoreTypes ==
  /\ TypeOK
  /\ stage \in {"finding", "storing", "stopped"}
  /\ storing \in SUBSET Node
  /\ remaining \in Nat /\ success \in Nat /\ fail \in Nat
  /\ kept \in BOOLEAN
  /\ result \in {"none", "ok", "failed"}

\* A store reports its result only after every one of the k_ closest nodes the
\* lookup ever heard of was sent the value and has answered, and it reports
\* success only if one of them confirmed.
ReportsReplicated ==
  result # "none" =>
    /\ storing = {}
    /\ success + fail = Cardinality(ClosestIn(offered, K))
    /\ result = "ok" <=> success > 0

\* The value also stays here exactly when this node is one of the k_ closest
\* among itself and the nodes found; a node that is on the list twice over, as
\* itself and as a found node, gets it through its own dht.store.
KeepsIfClose ==
  stage # "finding" =>
    LET near == ClosestIn(promise.nodes \cup {Self}, K) IN
    /\ kept => Self \in near
    /\ Self \in near => kept \/ Self \in promise.nodes

\* Liveness: a store that knows any node reports a result.
ReportsIfAnyNode == offered # {} ~> result # "none"

\* Every store reports a result.
Reports == <>(result # "none")
=============================================================================

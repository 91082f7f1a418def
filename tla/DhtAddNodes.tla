---------------------------- MODULE DhtAddNodes ----------------------------
(***************************************************************************)
(* The loop of DhtQuery::add_nodes (dht/dht-query.cpp), one received node  *)
(* at a time.  DhtQuery takes its effect in one step, as ClosestIn; this   *)
(* module is the loop itself, and DhtNetworkProofs shows that the two      *)
(* agree whatever is received, in whatever order and however often.        *)
(***************************************************************************)
EXTENDS DhtNodes, Sequences

CONSTANT Answers  \* bound: the lists of nodes that peers send

VARIABLES listed,    \* list_
          unasked,   \* pending_ids_
          todo,      \* what the loop still has to look at
          sent,      \* nodes sent to DhtMember::add_full_node by this loop
          before,    \* list_ and pending_ids_ when the loop began
          taken      \* the nodes the loop has looked at

loopVars == <<listed, unasked, todo, sent, before, taken>>

LoopStart ==
  /\ listed \in SUBSET Node /\ Cardinality(listed) <= K
  /\ unasked \in SUBSET listed
  /\ todo \in Answers /\ todo \in Seq(Node)
  /\ sent = {}
  /\ before = [list |-> listed, pending |-> unasked]
  /\ taken = {}

\* Mutants: a full list_ grows; the node that leaves list_ stays in
\* pending_ids_.
InsertNoEviction(n) == listed' = listed \cup {n} /\ unasked' = unasked \cup {n}
InsertKeepsPending(n) ==
  /\ listed' = IF Cardinality(listed) < K THEN listed \cup {n}
               ELSE (listed \cup {n}) \ {Farthest(listed)}
  /\ unasked' = unasked \cup {n}

\* The node is sent to the member, which may know it already.
Offer(n) == sent' = sent \cup {n}

\* id_xor is inserted; when list_ grows beyond k_, its former last node leaves.
Insert(n) ==
  LET evicted == IF Cardinality(listed) < K THEN {} ELSE {Farthest(listed)} IN
  /\ listed' = (listed \cup {n}) \ evicted
  /\ unasked' = (unasked \cup {n}) \ evicted

Fits(n) == Cardinality(listed) < K \/ n < Farthest(listed)

\* One iteration.
TakeNode ==
  /\ todo # <<>>
  /\ todo' = Tail(todo)
  /\ taken' = taken \cup {Head(todo)}
  /\ UNCHANGED before
  /\ LET n == Head(todo) IN
     IF n \in listed
     THEN UNCHANGED <<listed, unasked, sent>>
     ELSE /\ Offer(n)
          /\ IF Fits(n) THEN Insert(n) ELSE UNCHANGED <<listed, unasked>>

LoopSpec == LoopStart /\ [][TakeNode]_loopVars
-----------------------------------------------------------------------------
\* The loop keeps the k_ closest of what it had and what it has looked at, so
\* the outcome depends neither on the order nor on repetitions.
KeepsClosest == listed = ClosestIn(before.list \cup taken, K)

\* Pending are the listed nodes that were pending or are new: an evicted node is
\* never pending, and a node already listed never becomes pending again.
PendingAreNew ==
  unasked = (before.pending \cup (listed \ before.list)) \cap listed

\* Every received node reaches the member's buckets unless the list had it.
AllOffered == (taken \ before.list) \subseteq sent
=============================================================================

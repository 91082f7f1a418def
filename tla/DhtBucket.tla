----------------------------- MODULE DhtBucket -----------------------------
(***************************************************************************)
(* One bucket of the routing table: DhtBucket (dht/dht-bucket.cpp) and the *)
(* DhtRemoteNode records in it (dht/dht-remote-node.cpp), with the peers   *)
(* and the network that answer, or do not answer, its pings.               *)
(*                                                                         *)
(* A bucket has k_ active slots, which lookups draw on, and k_ backup      *)
(* slots.  A node enters as a backup, becomes active once it has answered  *)
(* a ping and a slot is free, and goes back when it leaves too many pings  *)
(* unanswered.  Which slot a node is in decides only which of several      *)
(* candidates a loop meets first: slots are sets here, and the first       *)
(* candidate is any of them.                                               *)
(*                                                                         *)
(* Time passes in units of half a minute (Tick).  An age is a number of    *)
(* units, and stops growing once the code cannot tell it from greater ones.*)
(***************************************************************************)
EXTENDS BucketSize

CONSTANTS MaxMissed,  \* max_missed_pings_
          Interval    \* ping_timeout_ in units; failed nodes stay as long

ASSUME MaxMissedAssumption == MaxMissed \in Nat \ {0}
\* A ping ends within twenty seconds, so within a third of the interval.
ASSUME IntervalAssumption == Interval \in Nat /\ Interval >= 2

VARIABLES active, backup,  \* the nodes in active_nodes_ and in backup_nodes_
          ready,           \* those with ready_from_ > 0
          missed,          \* missed_pings_, up to MaxMissed + 1
          pinged,          \* age of last_ping_at_
          failed,          \* age of failed_from_
          young, old,      \* pings in flight, sent in this unit and in the last
          alive,           \* peers an answer can still come from
          unanswered,      \* history: pings lost since the last answer
          checked          \* check() has run in this unit

slots   == <<active, backup, ready, missed, pinged, failed>>
network == <<young, old, alive, unanswered>>
vars    == <<slots, network, checked>>

Old     == Interval + 1
Present == active \cup backup
\* The constructor: all slots empty.
Init ==
  /\ active = {} /\ backup = {} /\ ready = {}
  /\ missed = [n \in {} |-> 0] /\ pinged = missed /\ failed = missed
  /\ young = [n \in Node |-> 0] /\ old = [n \in Node |-> 0]
  /\ alive = Node
  /\ unanswered = [n \in Node |-> 0]
  /\ checked = FALSE

\* Mutants: any node that is not ready gives way; none does.
ReplaceUnready == backup \ ready
ReplaceNever == {}

\* Backups that give way to another node: not ready for over a minute.
Replaceable == {n \in backup \ ready : failed[n] > Interval}

\* A new record in a backup slot, in place of the records of gone:
\* last_ping_at_ and ready_from_ are 0, failed_from_ is now.
Enter(n, gone) ==
  /\ UNCHANGED <<active, ready>>
  /\ backup' = (backup \ gone) \cup {n}
  /\ missed' = [m \in Present' |-> IF m = n THEN 0 ELSE missed[m]]
  /\ pinged' = [m \in Present' |-> IF m = n THEN Old ELSE pinged[m]]
  /\ failed' = [m \in Present' |-> IF m = n THEN 0 ELSE failed[m]]

\* Mutant: the active nodes are not looked through for the new one.
AddUnlessBackup(n) ==
  /\ n \notin backup
  /\ \/ Cardinality(backup) < K /\ Enter(n, {})
     \/ Cardinality(backup) = K /\ \E g \in Replaceable : Enter(n, {g})
  /\ UNCHANGED <<network, checked>>

\* add_full_node: a node not known yet takes a free backup slot, or else that of
\* a replaceable node, or else is ignored.  (The record of a known node may get
\* a newer address, which is not modelled.)
AddFullNode(n) ==
  /\ n \notin Present
  /\ \/ Cardinality(backup) < K /\ Enter(n, {})
     \/ Cardinality(backup) = K /\ \E g \in Replaceable : Enter(n, {g})
  /\ UNCHANGED <<network, checked>>

\* Mutant: a failing node is left alone.
FailingNever == {}

\* Nodes whose last ping is long ago, and those of them for which the next one
\* makes missed_pings_ exceed max_missed_pings_.
Due     == {n \in Present : pinged[n] > Interval}
Failing == {n \in ready \cap Due : missed[n] + 1 > MaxMissed}

\* send_ping, for all due nodes but the backups that demote_node has replaced by then.
SendPings ==
  /\ missed' = [n \in Present' |->
                  IF n \in Due THEN Least(missed[n], MaxMissed) + 1 ELSE missed[n]]
  /\ pinged' = [n \in Present' |-> IF n \in Due THEN 0 ELSE pinged[n]]
  /\ failed' = [n \in Present' |-> IF n \in Failing THEN 0 ELSE failed[n]]
  /\ young' = [n \in Node |-> IF n \in Due /\ ~(n \in backup /\ n \notin Present')
                              THEN young[n] + 1 ELSE young[n]]

\* Mutant: a failed node keeps its slot.
StayActive == {}

\* Active nodes the first loop hands to demote_node.
Demoted == (active \cap Due) \ (ready \ Failing)

\* Mutant: slots that demoted nodes leave are not counted free.
SpaceBefore == K - Cardinality(active)

\* have_space after the first loop.
HaveSpace == K - Cardinality(active \ Demoted)

\* demote_node for each of them: as many as find a slot stay on as backups, in
\* free slots first, then in those of the replaceable nodes gone.
Demote(stay, gone) ==
  LET free == K - Cardinality(backup) IN
  /\ stay \subseteq Demoted /\ gone \subseteq Replaceable
  /\ Cardinality(stay) = Least(Cardinality(Demoted), free + Cardinality(Replaceable))
  /\ Cardinality(gone) = Cardinality(stay) - Least(Cardinality(stay), free)

\* check: ping who is due, demote who failed, fill the free active slots with
\* ready backups.
Check ==
  /\ \E stay \in SUBSET Demoted, gone \in SUBSET Replaceable :
       LET rest == (backup \ gone) \cup stay
           fit  == rest \cap (ready \ Failing)
       IN
       /\ Demote(stay, gone)
       /\ \E up \in SUBSET fit :
            /\ Cardinality(up) = Least(Cardinality(fit), HaveSpace)
            /\ active' = (active \ Demoted) \cup up
            /\ backup' = rest \ up
  /\ ready' = (ready \ Failing) \cap Present'
  /\ SendPings
  /\ checked' = TRUE
  /\ UNCHANGED <<old, alive, unanswered>>

\* One of the pings to n in flight ends.
Ends(n) == \/ /\ old[n] > 0
              /\ old' = [old EXCEPT ![n] = @ - 1] /\ UNCHANGED young
           \/ /\ young[n] > 0
              /\ young' = [young EXCEPT ![n] = @ - 1] /\ UNCHANGED old

\* promote_node(n), which finds a slot if one is free.
Promote(n) ==
  IF Cardinality(active) < K
  THEN active' = active \cup {n} /\ backup' = backup \ {n}
  ELSE UNCHANGED <<active, backup>>

\* Mutant: an answer clears the count of a node that was not ready only.
ClearIfUnready(n) == missed' = [missed EXCEPT ![n] = IF n \in ready THEN @ ELSE 0]

ClearMissed(n) == missed' = [missed EXCEPT ![n] = 0]

\* receive_ping(n) with an answer update_value accepts: n's own description.
ReceivePing(n) ==
  /\ n \in alive /\ Ends(n)
  /\ unanswered' = [unanswered EXCEPT ![n] = 0]
  /\ IF n \notin Present
     THEN UNCHANGED slots
     ELSE /\ ClearMissed(n)
          /\ ready' = ready \cup {n}
          /\ IF n \in active THEN UNCHANGED <<active, backup>> ELSE Promote(n)
          /\ UNCHANGED <<pinged, failed>>
  /\ UNCHANGED <<alive, checked>>

\* receive_ping(n) with an answer update_value rejects: the status is dropped,
\* and a backup that happens to be ready is promoted all the same.
ReceiveBadPing(n) ==
  /\ n \in alive /\ Ends(n)
  /\ unanswered' = [unanswered EXCEPT ![n] = Least(@ + 1, MaxMissed)]
  /\ IF n \in backup \cap ready THEN Promote(n) ELSE UNCHANGED <<active, backup>>
  /\ UNCHANGED <<ready, missed, pinged, failed, alive, checked>>

\* External: no answer before ADNL's timeout, or an unreadable one.
Lose(n) ==
  /\ Ends(n)
  /\ unanswered' = [unanswered EXCEPT ![n] = Least(@ + 1, MaxMissed)]
  /\ UNCHANGED <<slots, alive, checked>>

\* External: the last answer of n has arrived; n is gone for good.
Leave(n) ==
  /\ n \in alive
  /\ alive' = alive \ {n}
  /\ UNCHANGED <<slots, young, old, unanswered, checked>>

\* External: a unit of time.  The member's alarm rings once a second, so check()
\* has run; a query ends within twenty seconds, so no ping outlives the unit
\* after its own.
Tick ==
  /\ checked /\ \A n \in Node : old[n] = 0
  /\ pinged' = [n \in Present |-> Least(pinged[n] + 1, Old)]
  /\ failed' = [n \in Present |-> Least(failed[n] + 1, Old)]
  /\ old' = young /\ young' = [n \in Node |-> 0]
  /\ checked' = FALSE
  /\ UNCHANGED <<active, backup, ready, missed, alive, unanswered>>

Settle(n) == ReceivePing(n) \/ ReceiveBadPing(n) \/ Lose(n)

Next == \/ Check \/ Tick
        \/ \E n \in Node : AddFullNode(n) \/ Settle(n) \/ Leave(n)

\* The alarm keeps ringing, time passes, and every ADNL query ends.
Fairness == /\ WF_vars(Check) /\ WF_vars(Tick)
            /\ \A n \in Node : WF_vars(Settle(n))

Spec == Init /\ [][Next]_vars
FairSpec == Spec /\ Fairness
-----------------------------------------------------------------------------
\* Types of the state: what is recorded of a node is recorded of the nodes in a
\* slot, and of no other.
TypeOK ==
  /\ active \subseteq Node /\ backup \subseteq Node /\ ready \subseteq Present
  /\ missed \in [Present -> 0..MaxMissed + 1]
  /\ pinged \in [Present -> 0..Old] /\ failed \in [Present -> 0..Old]
  /\ young \in [Node -> Nat] /\ old \in [Node -> Nat]
  /\ alive \subseteq Node /\ checked \in BOOLEAN
  /\ unanswered \in [Node -> 0..MaxMissed]

\* No node takes two slots, and neither array overflows.
SlotsDistinct ==
  /\ active \cap backup = {}
  /\ Cardinality(active) =< K /\ Cardinality(backup) =< K

\* CHECK(node->is_ready()) in promote_node: what lookups are given are nodes that
\* have answered and are not known to have failed since.
ActiveAreReady == active \subseteq ready

\* A free active slot is never left empty while a backup is ready, whichever of
\* check and receive_ping frees the slot or readies the node.
NoReadyNodeWaits == Cardinality(active) < K => backup \cap ready = {}

\* A node stops being ready, and so an active node loses its slot, only after
\* max_missed_pings_ pings in a row went unanswered: a late answer, or one that
\* races the next ping, is never taken for a missed one.
FailsOnlyIfSilent ==
  [][\A n \in ready : n \notin ready' => unanswered[n] >= MaxMissed]_vars

\* A node that answers every ping is never dropped, not even in the minute
\* before its first answer: only one that missed a ping can be.
DropsOnlyIfMissed ==
  [][\A n \in Present : n \notin Present' => unanswered[n] > 0]_vars

\* The bucket the rest of the member relies on: no node takes two slots, neither
\* array overflows, and a node is dropped only when K others stay.
Abstract == INSTANCE DhtSlots
ImplementsSlots == Abstract!Spec

\* Liveness: a peer that is gone is sooner or later given to no lookup any more.
GoneLeaves == \A n \in Node : n \notin alive ~> [](n \notin active)

\* Liveness: a bucket whose peers are all gone comes to have room for others.
RoomReturns ==
  Present \cap alive = {} ~> \/ Present \cap alive # {}
                             \/ Cardinality(backup) < K
                             \/ Replaceable # {}
=============================================================================

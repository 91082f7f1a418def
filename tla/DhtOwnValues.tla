---------------------------- MODULE DhtOwnValues ----------------------------
(***************************************************************************)
(* The values the application of this node publishes: our_values_ of       *)
(* DhtMemberImpl (dht/dht.cpp, dht/dht-in.hpp), which set_value enters and *)
(* check stores again, one every ten seconds.  As in DhtValues a value is  *)
(* its ttl and a unit of time is a minute.                                 *)
(***************************************************************************)
EXTENDS Cyclic, Minimum

CONSTANTS OwnTtl,     \* expiry times of the values that are set
          LastMinute  \* bound: when time stops

ASSUME OwnTimeAssumption == OwnTtl \in SUBSET Nat /\ LastMinute \in Nat

VARIABLES time,           \* td::Clocks::system()
          own,            \* our_values_
          lastRepublish,  \* last_republish_key_
          sentOwn,        \* history: the values sent to be stored, an odd number of times
          turns           \* history: the turns of each key since another's, up to 2

ownVars == <<time, own, lastRepublish, sentOwn, turns>>

Owned      == DOMAIN own
Lasting(t) == t > time + 1

OwnInit ==
  /\ time = 0
  /\ own = [k \in {} |-> 0]
  /\ lastRepublish = 0
  /\ sentOwn = {}
  /\ turns = [k \in Key |-> [j \in Key |-> 0]]

\* send_store, which leaves the rest to a DhtQueryStore actor.
SendStore(k, t) == sentOwn' = Sent(sentOwn, k, t)

With(f, k, t) == [j \in DOMAIN f \cup {k} |-> IF j = k THEN t ELSE f[j]]

\* our_values_.emplace, which leaves a value that is there already.
Emplaced(k, t) == IF k \in Owned THEN own ELSE With(own, k, t)

\* set_value, for a value that passes its check.
SetValue(k, t) ==
  /\ own' = Emplaced(k, t)
  /\ SendStore(k, t)
  /\ turns' = IF k \in Owned THEN turns ELSE [turns EXCEPT ![k] = [j \in Key |-> 0]]
  /\ UNCHANGED <<time, lastRepublish>>

\* Mutants: the next key is looked for in the whole map every time; the turn
\* passes only when a value was stored.
FirstOwn == Successor(Owned, 0)
PassTurnIfFresh(k) == lastRepublish' = IF Lasting(own[k]) THEN k ELSE lastRepublish

NextOwn == Successor(Owned, lastRepublish)

PassTurn(k) == lastRepublish' = k

\* check, when republish_att_ is in the past: the next value has its turn and is
\* stored again unless it has nearly expired.  The only value there is is next
\* to itself.
RepublishOwn ==
  /\ Owned # {}
  /\ LET k == NextOwn IN
     /\ IF Lasting(own[k]) THEN SendStore(k, own[k]) ELSE UNCHANGED sentOwn
     /\ PassTurn(k)
     /\ turns' = [j \in Key |->
                    IF j = k THEN [i \in Key |-> 0]
                    ELSE [turns[j] EXCEPT ![k] = Least(@ + 1, 2)]]
  /\ UNCHANGED <<time, own>>

\* External: time passes.
OwnTick == /\ time < LastMinute /\ time' = time + 1
           /\ UNCHANGED <<own, lastRepublish, sentOwn, turns>>

OwnNext == \/ RepublishOwn \/ OwnTick
           \/ \E k \in Key, t \in OwnTtl : SetValue(k, t)

\* The alarm rings, and ten seconds pass.
OwnFairness == WF_ownVars(RepublishOwn)

OwnSpec == OwnInit /\ [][OwnNext]_ownVars
OwnFairSpec == OwnSpec /\ OwnFairness
-----------------------------------------------------------------------------
\* Types of the state.
OwnTypes ==
  /\ time \in 0..LastMinute
  /\ Owned \subseteq Key /\ own \in [Owned -> OwnTtl]
  /\ lastRepublish \in Owned \cup {0}
  /\ sentOwn \subseteq Key \X OwnTtl
  /\ turns \in [Key -> [Key -> 0..2]]

\* Republication is a round robin, whatever is set meanwhile and whatever has
\* expired: no value has two turns while another waits for one.
TurnsAreFair == \A k \in Owned, j \in Key : turns[k][j] =< 1

\* A value is handed to send_store.
StoresOwn(k, t) == (<<k, t>> \in sentOwn) # (<<k, t>> \in sentOwn')

\* Liveness: the value that was set first is sent to be stored again and again until it
\* has nearly expired, however many others there are, and whether or not the stores sent
\* before it have ended.
FirstRepublished ==
  \A k \in Key, t \in OwnTtl :
    <>[](k \in Owned /\ own[k] = t /\ Lasting(t)) => []<><<StoresOwn(k, t)>>_sentOwn
=============================================================================

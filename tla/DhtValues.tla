----------------------------- MODULE DhtValues -----------------------------
(***************************************************************************)
(* The values a DHT node keeps for the network: values_ of DhtMemberImpl   *)
(* (dht/dht.cpp, dht/dht-in.hpp), the update rules of DhtValue             *)
(* (dht/dht-types.cpp), and the sweep that looks at one value a second.    *)
(*                                                                         *)
(* A value is its ttl, the time it expires: that is what update rules and  *)
(* sweep go by, and a correctly signed value is replaced only by one with  *)
(* another ttl.  A unit of time is a minute, the margin the sweep leaves.  *)
(* The routing table is seen through distance() only (module DhtRouting).  *)
(* All values of a key have the same rule.  What becomes of a store that   *)
(* the sweep starts is a matter of DhtQueryStore; nothing here waits for   *)
(* its end.                                                                *)
(***************************************************************************)
EXTENDS Cyclic

CONSTANTS Rule,     \* the update rule of each key
          Ttl,      \* expiry times of the values that are stored
          MaxTime   \* bound: the last minute

ASSUME RuleAssumption == Rule \in [Key -> {"signature", "anybody", "overlayNodes"}]
ASSUME TimeAssumption == Ttl \in SUBSET Nat /\ MaxTime \in Nat

VARIABLES now,        \* td::Clocks::system()
          values,     \* values_
          lastCheck,  \* last_check_key_
          dist,       \* distance(key, k_ + 10): 0, between, or k_ + 10
          sent,       \* history: the values sent to be stored, an odd number of times
          best,       \* history: the greatest ttl accepted, since a key was far
          passed      \* history: keys the sweep has come to since it came to k

vars == <<now, values, lastCheck, dist, sent, best, passed>>

Distances == {"nearest", "near", "far"}
Held      == DOMAIN values
Expired(t) == t < now
Fresh(t)   == t > now + 1
Greatest(s, t) == IF s > t THEN s ELSE t

Init ==
  /\ now = 0
  /\ values = [k \in {} |-> 0]
  /\ lastCheck = 0
  /\ dist \in [Key -> Distances]
  /\ sent = {}
  /\ best = [k \in Key |-> 0]
  /\ passed = [k \in Key |-> {}]

\* Mutant: the value stored last stays, whatever the rule.
MergedLast(k, t) == t

\* DhtValue::update: anybody's value is replaced; a signed one only by one that
\* lasts longer, and merged overlay nodes last as long as the longer of the two.
Merged(k, t) == IF Rule[k] = "anybody" THEN t ELSE Greatest(values[k], t)

\* store_in, for a value of a peer or of a DhtQueryStore actor of this node: an
\* expired value and one of a key too far away are dropped.
StoreIn(k, t) ==
  /\ ~Expired(t) /\ dist[k] # "far"
  /\ values' = [j \in Held \cup {k} |->
                  IF j # k THEN values[j] ELSE IF k \in Held THEN Merged(k, t) ELSE t]
  /\ best' = [best EXCEPT ![k] = Greatest(@, t)]
  /\ passed' = [passed EXCEPT ![k] = IF k \in Held THEN @ ELSE {}]
  /\ UNCHANGED <<now, lastCheck, dist, sent>>

Without(k) == [j \in Held \ {k} |-> values[j]]

\* dht.findValue for an expired value removes it; any other is answered.
FindValue(k) ==
  /\ k \in Held /\ Expired(values[k])
  /\ values' = Without(k)
  /\ UNCHANGED <<now, lastCheck, dist, sent, best, passed>>

\* Mutants: the sweep begins at the first key every time; what has expired is
\* kept, as what has nearly expired is.
FirstKey == Successor(Held, 0)
DropFar(k) == Fresh(values[k]) /\ dist[k] = "far"

\* The value the sweep comes to.
NextKey == Successor(Held, lastCheck)

\* It is dropped when it has expired, or when it has not nearly expired and the
\* key has become too far away.
Drop(k) == Expired(values[k]) \/ (Fresh(values[k]) /\ dist[k] = "far")

\* send_store: no active node is nearer to the key, and the rule wants it.
Republish(k) == /\ Fresh(values[k]) /\ dist[k] = "nearest"
                /\ Rule[k] = "signature"

\* check: one value a second, unless the sweep is back at the one it came to
\* last, which stops the loop.
Sweep ==
  /\ Held # {} /\ NextKey # lastCheck
  /\ LET k == NextKey IN
     /\ lastCheck' = k
     /\ values' = IF Drop(k) THEN Without(k) ELSE values
     /\ sent' = IF Republish(k) THEN Sent(sent, k, values[k]) ELSE sent
     /\ best' = [best EXCEPT ![k] = IF Drop(k) /\ ~Expired(values[k]) THEN 0 ELSE @]
     /\ passed' = [j \in Key |-> IF j = k THEN {} ELSE passed[j] \cup {k}]
  /\ UNCHANGED <<now, dist>>

\* External: time passes; the nodes around the key come and go.
Tick == /\ now < MaxTime /\ now' = now + 1
        /\ UNCHANGED <<values, lastCheck, dist, sent, best, passed>>
Move(k) == /\ \E d \in Distances : dist' = [dist EXCEPT ![k] = d]
           /\ UNCHANGED <<now, values, lastCheck, sent, best, passed>>

Next == \/ Sweep \/ Tick
        \/ \E k \in Key : FindValue(k) \/ Move(k) \/ \E t \in Ttl : StoreIn(k, t)

\* The alarm rings every second.
Fairness == WF_vars(Sweep)

Spec == Init /\ [][Next]_vars
FairSpec == Spec /\ Fairness
-----------------------------------------------------------------------------
\* Types of the state.
TypeOK ==
  /\ now \in 0..MaxTime
  /\ Held \subseteq Key /\ values \in [Held -> Ttl]
  /\ lastCheck \in Key \cup {0}
  /\ dist \in [Key -> Distances]
  /\ sent \subseteq Key \X Ttl
  /\ best \in [Key -> Ttl \cup {0}]
  /\ passed \in [Key -> SUBSET Key]

\* Whoever asks for a value that is signed or merged gets the one that lasts
\* longest of all that were ever accepted, in whatever order they came and
\* however often it was removed and stored again; only a key that was too far
\* away for a while starts over.
NeverOlder ==
  \A k \in Held : Rule[k] # "anybody" => values[k] = best[k]

\* The sweep is a round robin, though values come and go around it: it does not
\* come to any value twice while another is kept waiting.
SweepIsFair ==
  [][lastCheck' # lastCheck =>
       \A k \in Held \ {lastCheck'} : lastCheck' \notin passed[k]]_vars

\* Liveness: a value that has expired is removed, if it is not the only one.
ExpiredLeaves ==
  \A k \in Key :
    (k \in Held /\ Expired(values[k])) ~>
      (k \notin Held \/ ~Expired(values[k]) \/ Held = {k})

Wanted(k) == /\ k \in Held /\ Rule[k] = "signature"
             /\ Fresh(values[k]) /\ dist[k] = "nearest"

\* A value of k is handed to send_store.
Stores(k) == \E t \in Ttl : (<<k, t>> \in sent) # (<<k, t>> \in sent')

\* Liveness: a signed value this node is the nearest to is sent to be stored again
\* and again until it has nearly expired, if it is not the only one, whether or not
\* the stores sent before it have ended.
NearestRepublished ==
  \A k \in Key : <>[](Wanted(k) /\ Held # {k}) => []<><<Stores(k)>>_sent

\* The update rule of signatures asks for it whether or not there are others.
SignedRepublished ==
  \A k \in Key : <>[]Wanted(k) => []<><<Stores(k)>>_sent
=============================================================================

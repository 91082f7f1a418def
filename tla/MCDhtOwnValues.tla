--------------------------- MODULE MCDhtOwnValues ---------------------------
(***************************************************************************)
(* Two keys; a value that expires early, and one that outlives the last    *)
(* minute; and, as history, what set_value was last called with.           *)
(***************************************************************************)
EXTENDS DhtOwnValues

Keys2 == 1..2
Ttls == {1, 4}

VARIABLE latest

LatestInit == OwnInit /\ latest = [k \in {} |-> 0]

LatestNext ==
  \/ \E k \in Key, t \in OwnTtl : SetValue(k, t) /\ latest' = With(latest, k, t)
  \/ (RepublishOwn \/ OwnTick) /\ UNCHANGED latest

LatestSpec == LatestInit /\ [][LatestNext]_<<ownVars, latest>> /\ OwnFairness
-----------------------------------------------------------------------------
\* our_values_ are "to be republished once in a while": so is the value that was
\* set last.
LatestRepublished ==
  \A k \in Key, t \in OwnTtl :
    <>[](k \in Owned /\ latest[k] = t /\ Lasting(t)) => []<><<StoresOwn(k, t)>>_sentOwn
=============================================================================

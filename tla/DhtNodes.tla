------------------------------ MODULE DhtNodes ------------------------------
(***************************************************************************)
(* What the modules of a lookup share: the nodes, how many it keeps, and   *)
(* how many it asks at a time.                                             *)
(***************************************************************************)
EXTENDS Closest

CONSTANTS Node,  \* the nodes that exist, as distances to key_
          K,     \* k_
          A      \* a_

ASSUME NodeAssumption == Node \in SUBSET Nat /\ IsFiniteSet(Node)
\* Dht::create_global_config admits 1..10.
ASSUME KAssumption == K \in Nat \ {0}
\* As for k_, and whatever k_ is.
ASSUME ParallelAssumption == A \in Nat \ {0}
=============================================================================

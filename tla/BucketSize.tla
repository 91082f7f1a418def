----------------------------- MODULE BucketSize -----------------------------
(***************************************************************************)
(* What the modules of one bucket of the routing table share.              *)
(***************************************************************************)
EXTENDS Minimum, FiniteSets

CONSTANTS Node,  \* the peers whose keys fall into this bucket
          K      \* k_, slots of each kind

ASSUME NodeAssumption == IsFiniteSet(Node)
ASSUME KAssumption == K \in Nat \ {0}
=============================================================================

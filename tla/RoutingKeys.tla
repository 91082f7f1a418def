---------------------------- MODULE RoutingKeys ----------------------------
(***************************************************************************)
(* The constants of the routing table as a whole (module DhtRouting).      *)
(***************************************************************************)
EXTENDS Minimum

CONSTANTS Bits,   \* the bits of a key, 256 in the code
          Self,   \* key_
          Slots,  \* k_, the active slots of a bucket
          MaxArg  \* bound: the most nodes asked for, or the largest max_value

ASSUME BitsAssumption == Bits \in Nat \ {0}
ASSUME SelfAssumption == Self \subseteq 0..Bits - 1
ASSUME SlotsAssumption == Slots \in Nat \ {0}
ASSUME MaxArgAssumption == MaxArg \in Nat
=============================================================================

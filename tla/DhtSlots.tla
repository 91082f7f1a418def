------------------------------ MODULE DhtSlots ------------------------------
(***************************************************************************)
(* What a bucket of the routing table promises to the rest of the member,  *)
(* whatever its pings and timers do: two arrays of K slots; a new node     *)
(* enters as a backup; only a known node becomes active; and a node is     *)
(* dropped only for want of room, when K others stay.                      *)
(***************************************************************************)
EXTENDS BucketSize

VARIABLES active, backup  \* the nodes in the two arrays

slotVars == <<active, backup>>

Known == active \cup backup

SlotsFit == /\ active \cap backup = {}
            /\ Cardinality(active) =< K /\ Cardinality(backup) =< K

Init == active = {} /\ backup = {}

\* A new node takes a backup slot, in place of another only if all are taken.
Enter(n) ==
  /\ n \notin Known
  /\ \E gone \in SUBSET backup :
       /\ Cardinality(gone) =< 1
       /\ gone # {} => Cardinality(backup) = K
       /\ backup' = (backup \ gone) \cup {n}
  /\ UNCHANGED active
  /\ SlotsFit'

\* Nodes change places, and some are dropped if K others stay.
Arrange ==
  /\ active' \in SUBSET Known /\ backup' \in SUBSET Known
  /\ SlotsFit'
  /\ Known' # Known => Cardinality(Known') >= K

Next == Arrange \/ \E n \in Node : Enter(n)

Spec == Init /\ [][Next]_slotVars
=============================================================================

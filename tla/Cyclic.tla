------------------------------- MODULE Cyclic -------------------------------
(***************************************************************************)
(* How DhtMemberImpl::check (dht/dht.cpp) steps through a std::map, one    *)
(* entry a call: lower_bound of the key of the last call, one further if   *)
(* that key is still there, and from the beginning after the end.          *)
(***************************************************************************)
EXTENDS Naturals, FiniteSets

CONSTANT Key  \* keys of values, in their order; 0 is DhtKeyId::zero()

ASSUME KeyAssumption == Key \in SUBSET (Nat \ {0}) /\ IsFiniteSet(Key)

\* The key after last in the non-empty set S of keys, in the cyclic order.
Successor(S, last) ==
  CHOOSE k \in S :
    IF \E j \in S : j > last
    THEN k > last /\ \A j \in S : j > last => k =< j
    ELSE \A j \in S : k =< j

\* History: sent are the values of keys that have been handed to send_store an odd number
\* of times, after value t of key k has been handed to it once more.
Sent(sent, k, t) == IF <<k, t>> \in sent THEN sent \ {<<k, t>>} ELSE sent \cup {<<k, t>>}
=============================================================================

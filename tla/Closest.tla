------------------------------ MODULE Closest ------------------------------
(***************************************************************************)
(* The order in which the DHT ranks nodes.                                 *)
(*                                                                         *)
(* Every container the lookup keeps (std::map<DhtKeyId, DhtNode> list_,    *)
(* std::set<DhtKeyId> pending_ids_) is ordered by the XOR of a node's id   *)
(* with the searched key.  For one searched key XOR is a bijection, so a   *)
(* node IS its distance: a natural number.                                 *)
(***************************************************************************)
EXTENDS Naturals, FiniteSets

\* The elements of S that come before x.
Before(S, x) == {y \in S : y < x}

\* The c smallest elements of S, all of S when it has fewer than c.
ClosestIn(S, c) == {x \in S : Cardinality(Before(S, x)) < c}

\* The largest element of a non-empty finite set: list_.rbegin().
Farthest(S) == CHOOSE x \in S : \A y \in S : y <= x
=============================================================================

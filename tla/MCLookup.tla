------------------------------ MODULE MCLookup ------------------------------
(***************************************************************************)
(* A query, and the loop of its add_nodes on its own, side by side.  They  *)
(* share nothing, so only one of them has anything to do in a behaviour:   *)
(* there is nothing to loop over unless the query starts, and ends, with   *)
(* no node.                                                                *)
(***************************************************************************)
EXTENDS DhtQuery, DhtAddNodes

\* Six nodes, at distances 1..6 to the searched key.
Nodes6 == 1..6

\* The loop has lists of up to three nodes, with repetitions.
Lists3 == UNION {[1..n -> Nodes6] : n \in 0..3}

allVars == <<vars, loopVars>>

LookupInit == /\ Init /\ LoopStart
              /\ offered = {} \/ (todo = <<>> /\ listed = {})

LookupNext == \/ Next /\ UNCHANGED loopVars
              \/ TakeNode /\ UNCHANGED vars

LookupSpec == LookupInit /\ [][LookupNext]_allVars /\ Fairness
=============================================================================

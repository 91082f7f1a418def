----------------------------- MODULE DhtLookup -----------------------------
(***************************************************************************)
(* What an iterative Kademlia lookup promises, whatever its bookkeeping:   *)
(* nodes are learnt, only nodes among the K closest known ones are asked,  *)
(* none is asked twice, at most A are being asked at a time, and the       *)
(* lookup concludes with the K closest nodes it knows once every one of    *)
(* them has answered or failed to.                                         *)
(***************************************************************************)
EXTENDS Closest

CONSTANTS Node,      \* nodes, named by their distance to the searched key
          K,         \* how many nodes a lookup is after
          A          \* how many nodes may be asked at a time

VARIABLES seen,      \* the nodes known so far
          asked,     \* the nodes a query was sent to
          answered,  \* those that answered, or whose query failed
          outcome    \* "open", or how the lookup ended

lookupVars == <<seen, asked, answered, outcome>>

Init == /\ seen \in SUBSET Node
        /\ asked = {} /\ answered = {}
        /\ outcome = "open"

\* The lookup asks a batch of nodes; it concludes when nothing is left to ask
\* and nothing is being waited for.
Proceed(batch) ==
  /\ batch \subseteq ClosestIn(seen', K) \ asked
  /\ asked' = asked \cup batch
  /\ Cardinality(asked' \ answered') <= A
  /\ outcome' = IF asked' = answered' THEN "concluded" ELSE "open"
  /\ outcome' = "concluded" => ClosestIn(seen', K) \subseteq answered'

Begin == /\ outcome = "open"
         /\ UNCHANGED <<seen, answered>>
         /\ \E batch \in SUBSET Node : Proceed(batch)

\* The query to one asked node ends and may have taught new nodes.
Hear == /\ outcome = "open"
        /\ \E n \in asked \ answered, nodes \in SUBSET Node :
              /\ answered' = answered \cup {n}
              /\ seen' = seen \cup nodes
        /\ \E batch \in SUBSET Node : Proceed(batch)

\* An asked node had the value: nothing else matters.
Found == /\ outcome = "open"
         /\ \E n \in asked \ answered : answered' = answered \cup {n}
         /\ outcome' = "found"
         /\ UNCHANGED <<seen, asked>>

Next == Begin \/ Hear \/ Found

Spec == Init /\ [][Next]_lookupVars
=============================================================================

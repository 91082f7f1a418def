------------------------------ MODULE MCTable ------------------------------
(***************************************************************************)
(* The parts of the routing table: one bucket (DhtBucket), a bucket over   *)
(* crashes (DhtPersistence), and the walks over all buckets (DhtRouting).  *)
(* Only one of them is at work in a behaviour; the variables of the others *)
(* rest in an initial state.                                               *)
(***************************************************************************)
EXTENDS DhtBucket, DhtPersistence, DhtRouting

CONSTANTS n1, n2, n3
VARIABLE part

\* Peers of one bucket.
Two   == {n1, n2}
Three == {n1, n2, n3}

allVars == <<part, vars, lifeVars, walkVars>>

\* Keys of three bits; this node's is 010.
Key010 == {1}

TableInit ==
  /\ part \in {"bucket", "saved", "routing"}
  /\ Init /\ LifeInit /\ WalkInit
  /\ part # "routing" => nodes = {} /\ id = {} /\ k = 0 /\ pc = "up"

\* A step of the bucket.
OfBucket(Step) ==
  part = "bucket" /\ Step /\ UNCHANGED <<part, lifeVars, walkVars>>

\* The walks end.
WalkEnded == part = "routing" /\ pc \in {"found", "counted"} /\ UNCHANGED allVars

TableNext ==
  \/ OfBucket(Next)
  \/ part = "saved" /\ LifeNext /\ UNCHANGED <<part, vars, walkVars>>
  \/ part = "routing" /\ WalkNext /\ UNCHANGED <<part, vars, lifeVars>>
  \/ WalkEnded

\* DhtBucket's.
TableFairness ==
  /\ WF_allVars(OfBucket(Check)) /\ WF_allVars(OfBucket(Tick))
  /\ \A n \in Node : WF_allVars(OfBucket(Settle(n)))

TableSpec == TableInit /\ [][TableNext]_allVars /\ TableFairness
=============================================================================

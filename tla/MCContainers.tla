---------------------------- MODULE MCContainers ----------------------------
(***************************************************************************)
(* The lock-free containers and memory reclamation of mrxutils, each on a  *)
(* small instance.  A behaviour is one of one of them; the variables of    *)
(* the others rest.                                                        *)
(***************************************************************************)
EXTENDS EpochReclamation, ChainBuffer, StealingQueue, MpmcQueue, ConcurrentHashMap,
        SharedObjectPool, TLC

VARIABLE kind

\* Two producers and a consumer, or a producer and two consumers.
Plan(design, pushes, size) == [design |-> design, pushes |-> pushes, size |-> size, blocks |-> 2]
SmallPlans ==
  {Plan("new", <<2, 1, 0>>, 2), Plan("new", <<2, 0, 0>>, 1), Plan("old", <<2, 0, 0>>, 1)}

Keys2 == 1..2
OneTwoFour == <<1, 2, 4>>

allVars ==
  <<kind, queueVars, vars, mapVars, stealingVars, poolVars, bufferVars>>

ContainersInit ==
  /\ kind \in {"queue", "epochs", "hash map", "stealing", "pool", "chain"}
  /\ QueueInit /\ (kind # "queue" => plan.design = "old")
  /\ Init
  /\ MapInit /\ (kind # "hash map" => \A t \in Caller : call[t].kind = "find" /\ call[t].key = 1)
  /\ StealingInit /\ PoolInit /\ BufferInit

\* These may stop, at a bound or because there is nothing to do.  The queue and the hash
\* map say themselves where they may.
Rests == kind \in {"epochs", "stealing", "pool", "chain"} /\ UNCHANGED allVars

ContainersNext ==
  \/ /\ kind = "queue" /\ QueueNext
     /\ UNCHANGED <<kind, vars, mapVars, stealingVars, poolVars, bufferVars>>
  \/ /\ kind = "epochs" /\ Next
     /\ UNCHANGED <<kind, queueVars, mapVars, stealingVars, poolVars, bufferVars>>
  \/ /\ kind = "hash map" /\ MapNext
     /\ UNCHANGED <<kind, queueVars, vars, stealingVars, poolVars, bufferVars>>
  \/ /\ kind = "stealing" /\ StealingNext
     /\ UNCHANGED <<kind, queueVars, vars, mapVars, poolVars, bufferVars>>
  \/ /\ kind = "pool" /\ PoolNext
     /\ UNCHANGED <<kind, queueVars, vars, mapVars, stealingVars, bufferVars>>
  \/ /\ kind = "chain" /\ BufferNext
     /\ UNCHANGED <<kind, queueVars, vars, mapVars, stealingVars, poolVars>>
  \/ Rests

ContainersSpec == ContainersInit /\ [][ContainersNext]_allVars
-----------------------------------------------------------------------------
\* MpmcQueue, MpscLinkQueue under SharedObjectPool: what is put in comes out once, in the
\* order the container promises; try_pop of MpmcQueue says that there is nothing only when
\* that is so; and no block is freed that a reader may use (HazardPointers).
EachOnceInOrder == OnceInOrder /\ EmptyIsTrue /\ NoFreedBlockRead /\ FreedInOrder
=============================================================================

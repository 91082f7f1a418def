----------------------------- MODULE MpmcQueue -----------------------------
(***************************************************************************)
(* MpmcQueue and MpmcQueueOld (mrxutils/mrx/utils/MpmcQueue.h): a list of  *)
(* blocks, where pushing and popping threads claim slots by fetch and add; *)
(* a block that has been read is retired to HazardPointers                 *)
(* (mrxutils/mrx/utils/HazardPointers.h) and freed when no thread has it   *)
(* protected.                                                              *)
(*                                                                         *)
(* Every atomic operation is a step.  A freed block is not reused, so that *)
(* touching one can be seen.  A consumer calls try_pop until all values    *)
(* have been popped.                                                       *)
(***************************************************************************)
EXTENDS Naturals, FiniteSets, Sequences

CONSTANT Plans  \* bounds: each the design ("new" for MpmcQueue, "old" for MpmcQueueOld), how
                \* many values each thread pushes (one that pushes none pops), the size
                \* of a block, and how many blocks are linked
ASSUME PlansAssumption ==
  Plans \subseteq [design : {"new", "old"}, pushes : Seq(Nat), size : Nat \ {0}, blocks : Nat]

NoNode == 0
Empty == <<"empty">>
Taken == <<"taken">>

VARIABLES plan,       \* one of Plans
          nodes,      \* the blocks linked so far
          write_pos,  \* the block new values go to
          read_pos,   \* the block values are taken from
          hazard,     \* threads_[t].hazard_[0]
          retired,    \* threads_[t].to_delete_
          freed,      \* blocks deleted
          stage, mine, \* where a thread is, and its local variables
          pushed,     \* how many pushes of each producer have returned
          popped,     \* what each consumer has popped
          seen        \* the values pushed when the consumer called try_pop

list_ == <<nodes, write_pos, read_pos>>
hazards == <<hazard, retired, freed>>
queueVars == <<plan, list_, hazards, stage, mine, pushed, popped, seen>>

Client == DOMAIN plan.pushes
Producer == {t \in Client : plan.pushes[t] > 0}
BlockSize == plan.size
Consumer == Client \ Producer
Value == UNION {{p} \X (1..plan.pushes[p]) : p \in Producer}

Idle == [saved |-> NoNode, node |-> NoNode, pos |-> 0, next |-> NoNode, linked |-> FALSE,
         unread |-> {}, write |-> 0, read |-> 0, empty |-> FALSE, ptr |-> NoNode, asked |-> 0]
NewNode == [write |-> 0, read |-> 0, next |-> NoNode, data |-> [i \in 0..BlockSize - 1 |-> Empty]]

QueueInit ==
  /\ plan \in Plans
  /\ nodes = <<NewNode>> /\ write_pos = 1 /\ read_pos = 1
  /\ hazard = [t \in Client |-> NoNode] /\ retired = [t \in Client |-> <<>>] /\ freed = {}
  /\ stage = [t \in Client |-> "idle"] /\ mine = [t \in Client |-> Idle]
  /\ pushed = [t \in Client |-> 0]
  /\ popped = [t \in Client |-> <<>>]
  /\ seen = [t \in Client |-> {}]

To(t, l) == stage' = [stage EXCEPT ![t] = l]
StartOver(t) == To(t, "load") /\ mine' = [mine EXCEPT ![t] = Idle]
Node(t) == nodes[mine[t].node]
Pushing(t) == <<t, pushed[t] + 1>>
Position(t) == IF t \in Producer THEN write_pos ELSE read_pos
Popped == UNION {{popped[t][i] : i \in DOMAIN popped[t]} : t \in Consumer}
History == <<plan, pushed, popped, seen>>

\* The call, and the first load of do_protect, which publishes what it loads until
\* that is still there.
Begin(t) ==
  /\ stage[t] = "idle"
  /\ IF t \in Producer
     THEN pushed[t] < plan.pushes[t] /\ UNCHANGED seen
     ELSE /\ Popped # Value
          /\ seen' = [seen EXCEPT ![t] = {v \in Value : v[2] <= pushed[v[1]]}]
  /\ mine' = [mine EXCEPT ![t].saved = Position(t)]
  /\ To(t, "guard")
  /\ UNCHANGED <<plan, list_, hazards, pushed, popped>>
Guard(t) ==
  /\ stage[t] = "guard"
  /\ hazard' = [hazard EXCEPT ![t] = mine[t].saved]
  /\ To(t, "load")
  /\ UNCHANGED <<list_, retired, freed, mine, History>>
LoadPos(t) ==
  /\ stage[t] = "load"
  /\ IF Position(t) # mine[t].saved
     THEN To(t, "guard") /\ mine' = [mine EXCEPT ![t].saved = Position(t)]
     ELSE /\ mine' = [mine EXCEPT ![t].saved = NoNode, ![t].node = Position(t),
                              ![t].unread = IF t \in Producer THEN {} ELSE {"write", "read"}]
          /\ To(t, IF t \in Producer THEN "claim" ELSE "look")
  /\ UNCHANGED <<list_, hazards, History>>

\* push: a slot of the block, or, past its end, a new block.
Claim(t) ==
  /\ stage[t] = "claim"
  /\ nodes' = [nodes EXCEPT ![mine[t].node].write = @ + 1]
  /\ mine' = [mine EXCEPT ![t].pos = Node(t).write]
  /\ To(t, IF Node(t).write >= BlockSize THEN "next" ELSE "set")
  /\ UNCHANGED <<write_pos, read_pos, hazards, History>>
SetSlot(t) ==
  /\ stage[t] = "set"
  /\ IF Node(t).data[mine[t].pos] = Empty
     THEN /\ nodes' = [nodes EXCEPT ![mine[t].node].data[mine[t].pos] = Pushing(t)]
          /\ To(t, "clear") /\ UNCHANGED mine
     ELSE StartOver(t) /\ UNCHANGED nodes
  /\ UNCHANGED <<write_pos, read_pos, hazards, History>>
Follow(t) ==
  /\ stage[t] = "next"
  /\ mine' = [mine EXCEPT ![t].next = Node(t).next,
                          ![t].empty = t \in Consumer /\ Node(t).next = NoNode]
  /\ IF t \in Producer
     THEN To(t, IF Node(t).next = NoNode THEN "link" ELSE "advance")
     ELSE To(t, IF Node(t).next = NoNode THEN "clear" ELSE "swing")
  /\ UNCHANGED <<list_, hazards, History>>
Link(t) ==
  /\ stage[t] = "link"
  /\ IF Node(t).next = NoNode
     THEN /\ Len(nodes) < plan.blocks
          /\ nodes' = Append([nodes EXCEPT ![mine[t].node].next = Len(nodes) + 1],
                            [NewNode EXCEPT !.write = 1, !.data[0] = Pushing(t)])
          /\ mine' = [mine EXCEPT ![t].next = Len(nodes) + 1, ![t].linked = TRUE]
          /\ To(t, "advance")
     ELSE /\ UNCHANGED nodes
          /\ IF plan.design = "old"
             THEN To(t, "advance") /\ mine' = [mine EXCEPT ![t].next = Node(t).next]
             ELSE StartOver(t)
  /\ UNCHANGED <<write_pos, read_pos, hazards, History>>
\* Mutant: the push goes on although its value is in the block it linked.
AlwaysStartsOver(t) == StartOver(t)
Advanced(t) == IF mine[t].linked THEN To(t, "clear") /\ UNCHANGED mine ELSE StartOver(t)
AdvanceWrite(t) ==
  /\ stage[t] = "advance"
  /\ write_pos' = IF write_pos = mine[t].node THEN mine[t].next ELSE write_pos
  /\ Advanced(t)
  /\ UNCHANGED <<nodes, read_pos, hazards, History>>

\* try_pop: nothing to take if as much has been claimed by readers as by writers, in
\* a block that is the last.  The counters are loaded in either order.
Look(t) ==
  /\ stage[t] = "look"
  /\ \E counter \in mine[t].unread :
       LET to == [mine[t] EXCEPT ![counter] = Node(t)[counter], !.unread = @ \ {counter}] IN
       IF to.unread # {}
       THEN mine' = [mine EXCEPT ![t] = to] /\ UNCHANGED stage
       ELSE /\ mine' = [mine EXCEPT ![t] = [Idle EXCEPT !.node = to.node]]
            /\ To(t, IF to.write <= to.read THEN "last" ELSE "take")
  /\ UNCHANGED <<list_, hazards, History>>
\* Mutant: the block is taken for the last one.
TakenForLast(t) == TRUE
IsLast(t) == IF plan.design = "new" THEN Node(t).next = NoNode ELSE Node(t).read < BlockSize
Last(t) ==
  /\ stage[t] = "last"
  /\ mine' = [mine EXCEPT ![t].empty = IsLast(t)]
  /\ To(t, IF IsLast(t) THEN "clear" ELSE "take")
  /\ UNCHANGED <<list_, hazards, History>>
\* (Past the end, MpmcQueueOld counts on, and only that it is past is ever asked.)
TakeSlot(t) ==
  /\ stage[t] = "take"
  /\ nodes' = [nodes EXCEPT ![mine[t].node].read =
                IF plan.design = "old" /\ @ > BlockSize THEN @ ELSE @ + 1]
  /\ mine' = [mine EXCEPT ![t].pos = Node(t).read]
  /\ To(t, IF Node(t).read >= BlockSize THEN "next" ELSE "get")
  /\ UNCHANGED <<write_pos, read_pos, hazards, History>>
Get(t) ==
  /\ stage[t] = "get"
  /\ nodes' = [nodes EXCEPT ![mine[t].node].data[mine[t].pos] = Taken]
  /\ LET was == Node(t).data[mine[t].pos] IN
     IF was \in Value
     THEN /\ popped' = [popped EXCEPT ![t] = Append(@, was)]
          /\ To(t, "clear") /\ UNCHANGED mine
     ELSE /\ UNCHANGED popped
          /\ IF plan.design = "old" THEN To(t, "missed") /\ UNCHANGED mine ELSE StartOver(t)
  /\ UNCHANGED <<plan, write_pos, read_pos, hazards, pushed, seen>>
Missed(t) ==
  /\ stage[t] = "missed"
  /\ IF Node(t).write <= mine[t].pos + 1
     THEN To(t, "clear") /\ mine' = [mine EXCEPT ![t].empty = TRUE]
     ELSE /\ To(t, "look")
          /\ mine' = [mine EXCEPT ![t].unread = {"write", "read"}]
  /\ UNCHANGED <<list_, hazards, History>>
Swing(t) ==
  /\ stage[t] = "swing"
  /\ IF read_pos = mine[t].node
     THEN read_pos' = mine[t].next /\ To(t, "unguard") /\ UNCHANGED mine
     ELSE StartOver(t) /\ UNCHANGED read_pos
  /\ UNCHANGED <<nodes, write_pos, hazards, History>>

\* retire: the blocks this thread has retired, one by one, each thread's hazard pointer
\* one by one.
Unguard(t) ==
  /\ stage[t] = "unguard"
  /\ hazard' = [hazard EXCEPT ![t] = NoNode]
  /\ retired' = [retired EXCEPT ![t] = Append(@, mine[t].node)]
  /\ mine' = [mine EXCEPT ![t] = [Idle EXCEPT !.ptr = 1, !.asked = 1]]
  /\ To(t, "scan")
  /\ UNCHANGED <<list_, freed, History>>

Without(s, i) == SubSeq(s, 1, i - 1) \o SubSeq(s, i + 1, Len(s))
\* Mutant: the last thread is not asked.
ProtectedUpTo(ptr, i) == IF hazard[i] = ptr \/ i >= Cardinality(Client) - 1
                         THEN {hazard[i] = ptr} ELSE {}
\* is_protected: known when one thread has it, or all have been asked.
Protected(ptr, i) == IF hazard[i] = ptr \/ i = Cardinality(Client) THEN {hazard[i] = ptr} ELSE {}

Scan(t) ==
  /\ stage[t] = "scan"
  /\ LET i     == mine[t].ptr
         ptr   == retired[t][i]
         known == Protected(ptr, mine[t].asked)
         to    == IF known = {FALSE} THEN Without(retired[t], i) ELSE retired[t]
         next  == IF known = {TRUE} THEN i + 1 ELSE i
     IN /\ retired' = [retired EXCEPT ![t] = to]
        /\ freed' = IF known = {FALSE} THEN freed \cup {ptr} ELSE freed
        /\ IF next > Len(to)
           THEN StartOver(t)
           ELSE /\ mine' = [mine EXCEPT ![t].ptr = next,
                                    ![t].asked = IF known = {} THEN @ + 1 ELSE 1]
                /\ To(t, "scan")
  /\ UNCHANGED <<list_, hazard, History>>

\* The call returns.
Clear(t) ==
  /\ stage[t] = "clear"
  /\ hazard' = [hazard EXCEPT ![t] = NoNode]
  /\ pushed' = IF t \in Producer THEN [pushed EXCEPT ![t] = @ + 1] ELSE pushed
  /\ seen' = IF t \in Consumer THEN [seen EXCEPT ![t] = {}] ELSE seen
  /\ To(t, "idle") /\ mine' = [mine EXCEPT ![t] = Idle]
  /\ UNCHANGED <<plan, list_, retired, freed, popped>>

QueueStep(t) == \/ Begin(t) \/ LoadPos(t) \/ Guard(t) \/ Claim(t) \/ SetSlot(t) \/ Follow(t)
                \/ Link(t) \/ AdvanceWrite(t) \/ Look(t) \/ Last(t) \/ TakeSlot(t) \/ Get(t)
                \/ Missed(t) \/ Swing(t) \/ Unguard(t) \/ Scan(t) \/ Clear(t)

\* The thread works on a block that has been freed: what follows is undefined.
UsesFreed(t) ==
  /\ stage[t] \in {"claim", "set", "next", "link", "look", "last", "take", "get", "missed"}
  /\ mine[t].node \in freed

\* All values are popped, or the bound on blocks is met, or nothing is defined any more.
QueueEnded == \/ \E t \in Client : UsesFreed(t)
              \/ Popped = Value /\ \A t \in Client : stage[t] = "idle"
              \/ Len(nodes) = plan.blocks /\ \E t \in Producer : stage[t] = "link"
QueueFinished == QueueEnded /\ UNCHANGED queueVars
QueueNext == QueueFinished \/ (~QueueEnded /\ \E t \in Client : QueueStep(t))
QueueSpec == QueueInit /\ [][QueueNext]_queueVars
-----------------------------------------------------------------------------
\* Each value is popped once, and a consumer gets the values of a producer in the order
\* in which they were pushed.
OnceInOrder ==
  /\ \A t, u \in Consumer : \A i \in DOMAIN popped[t], j \in DOMAIN popped[u] :
       popped[t][i] = popped[u][j] => t = u /\ i = j
  /\ \A t \in Consumer : \A i, j \in DOMAIN popped[t] :
       popped[t][i][1] = popped[t][j][1] /\ i < j => popped[t][i][2] < popped[t][j][2]

\* try_pop says that there is nothing only if each value whose push had returned before
\* the call is popped or claimed by another consumer.
Claimed == {nodes[mine[t].node].data[mine[t].pos] : t \in {u \in Consumer : stage[u] = "get"}}
EmptyIsTrue == \A t \in Consumer : mine[t].empty => seen[t] \subseteq Popped \cup Claimed

\* No thread works on a block that has been freed.
NoFreedBlockInUse == \A t \in Client : ~UsesFreed(t)

\* No consumer does.
NoFreedBlockRead == \A t \in Consumer : ~UsesFreed(t)
=============================================================================

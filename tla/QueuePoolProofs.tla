-------------------------- MODULE QueuePoolProofs --------------------------
(***************************************************************************)
(* That what is put into MpmcQueue or into a SharedObjectPool comes out    *)
(* once and in order, that pop says empty only when it is so, and that no  *)
(* block is freed in a reader's hands: for any number of clients, values   *)
(* and objects and any size of a block, in both designs of the queue.      *)
(*                                                                         *)
(* The queue's slots say only "empty", a value or "taken", so the          *)
(* invariant gives every value the place it was put in (loc): a value that *)
(* was pushed is in that slot until it is popped, values of one producer   *)
(* lie one behind the other, a slot claimed has one reader, and the blocks *)
(* are linked in the order they were made.  A client that is between two   *)
(* atomic operations has seen what still holds: the block it uses is not   *)
(* past the queue's, its slot is its own, what it read of a counter the    *)
(* counter has passed.                                                     *)
(*                                                                         *)
(* The pool's free objects are a sequence; the first k are the reader's    *)
(* list, linked forwards, the others the producers', linked backwards.     *)
(***************************************************************************)
EXTENDS MCContainers, ClosestProofs, FiniteSetTheorems, SequenceTheorems, TLAPS

Counters == {"write", "read"}
Locals == [saved : Nat, node : Nat, pos : Nat, next : Nat, linked : BOOLEAN,
           unread : SUBSET Counters, write : Nat, read : Nat, empty : BOOLEAN, ptr : Nat,
           asked : Nat]
Index == 0..BlockSize - 1
Block == [write : Nat, read : Nat, next : Nat, data : [Index -> Value \cup {Empty, Taken}]]
Stages == {"idle", "guard", "load", "claim", "set", "next", "link", "advance", "look", "last",
           "take", "get", "missed", "swing", "unguard", "scan", "clear"}
Blocks == 1..Len(nodes)

QueueTypes ==
  /\ plan \in [design : {"new", "old"}, pushes : Seq(Nat), size : Nat \ {0}, blocks : Nat]
  /\ nodes \in Seq(Block) /\ write_pos \in Blocks /\ read_pos \in Blocks
  /\ hazard \in [Client -> Nat] /\ retired \in [Client -> Seq(Nat)] /\ freed \in SUBSET Nat
  /\ stage \in [Client -> Stages] /\ mine \in [Client -> Locals]
  /\ pushed \in [Client -> Nat] /\ popped \in [Client -> Seq(Value)]
  /\ seen \in [Client -> SUBSET Value]

\* The blocks are linked in the order in which they were made.  Only a full block has a
\* successor; all that went before read_pos has been claimed by readers.
ListInv ==
  \A b \in Blocks :
    /\ nodes[b].next = IF b < Len(nodes) THEN b + 1 ELSE NoNode
    /\ b < Len(nodes) => nodes[b].write > BlockSize
    /\ b < read_pos => nodes[b].read >= BlockSize

\* A slot claimed by a reader is taken, or the reader is about to take it.
Gets(t, b, i) == stage[t] = "get" /\ mine[t].node = b /\ mine[t].pos = i
ClaimsInv ==
  \A b \in Blocks, i \in Index : i < nodes[b].read =>
    nodes[b].data[i] = Taken \/ \E t \in Consumer : Gets(t, b, i)

PushStages == {"claim", "set", "next", "link", "advance"}
PopStages == {"look", "last", "take", "get", "missed", "next", "swing"}
ProducerInv(t) ==
  LET n == mine[t].node IN
  /\ stage[t] \in {"idle", "guard", "load", "clear"} \cup PushStages
  /\ stage[t] # "idle" => pushed[t] < plan.pushes[t]
  /\ stage[t] \in PushStages => n \in Blocks /\ n <= write_pos
  /\ stage[t] = "set" => mine[t].pos \in Index /\ mine[t].pos < nodes[n].write
  /\ stage[t] \in {"next", "link"} => nodes[n].write > BlockSize
  /\ stage[t] = "advance" => mine[t].next = n + 1 /\ n + 1 \in Blocks
  /\ mine[t].linked => stage[t] \in {"advance", "clear"}
ConsumerInv(t) ==
  LET n == mine[t].node IN
  /\ stage[t] \in {"idle", "guard", "load", "clear", "unguard", "scan"} \cup PopStages
  /\ stage[t] = "load" => mine[t].saved \in {NoNode, hazard[t]}
  /\ stage[t] \in PopStages => n \in Blocks /\ n <= read_pos /\ hazard[t] = n
  /\ stage[t] = "unguard" => n < read_pos
  /\ stage[t] \in {"get", "missed"} => mine[t].pos \in Index /\ mine[t].pos < nodes[n].read
  /\ stage[t] \in {"next", "swing"} => nodes[n].read >= BlockSize
  /\ stage[t] = "swing" => mine[t].next = n + 1 /\ n + 1 \in Blocks
  /\ stage[t] = "missed" => plan.design = "old"
  /\ stage[t] = "look" /\ "read" \notin mine[t].unread => mine[t].read <= nodes[n].read
  /\ mine[t].empty => stage[t] = "clear"

\* HazardPointers: what is retired is behind read_pos, and a thread that was asked for a
\* block does not have it.
RetiredInv(t) ==
  /\ \A i \in DOMAIN retired[t] : retired[t][i] < read_pos
  /\ stage[t] = "scan" =>
       /\ mine[t].ptr \in DOMAIN retired[t] /\ mine[t].asked \in 1..Len(plan.pushes)
       /\ \A u \in Consumer : u < mine[t].asked /\ stage[u] \in PopStages =>
            mine[u].node # retired[t][mine[t].ptr]
FreedInv ==
  /\ \A b \in freed : b < read_pos
  /\ \A t \in Consumer : stage[t] \in PopStages => mine[t].node \notin freed

\* The values that are in a block, or were.
Inside(p) == stage[p] = "clear" \/ mine[p].linked
Placed(v) == v[2] <= pushed[v[1]] \/ (v[2] = pushed[v[1]] + 1 /\ Inside(v[1]))
Precedes(p, q) == p[1] < q[1] \/ (p[1] = q[1] /\ p[2] < q[2])

\* loc is where each is, or was before it was taken.
SlotsInv(loc) ==
  /\ \A v \in Value : Placed(v) =>
       /\ loc[v][1] \in Blocks /\ loc[v][2] \in Index
       /\ loc[v][2] < nodes[loc[v][1]].write
       /\ nodes[loc[v][1]].data[loc[v][2]] \in {v, Taken}
       /\ nodes[loc[v][1]].data[loc[v][2]] = Taken => v \in Popped
  /\ \A b \in Blocks, i \in Index, v \in Value :
       nodes[b].data[i] = v => Placed(v) /\ loc[v] = <<b, i>>
\* The values of a producer are in the order in which they were pushed, and the slot it
\* claims is behind them.
PushedInv(loc, t) ==
  \A v \in Value : v[1] = t /\ Placed(v) =>
    /\ \A w \in Value : w[1] = t /\ Placed(w) /\ v[2] < w[2] => Precedes(loc[v], loc[w])
    /\ ~mine[t].linked \/ stage[t] = "clear" => loc[v][1] <= write_pos
    /\ mine[t].linked => loc[v][1] <= mine[t].node + 1
    /\ stage[t] \in PushStages /\ ~mine[t].linked => loc[v][1] <= mine[t].node
    /\ stage[t] = "set" => Precedes(loc[v], <<mine[t].node, mine[t].pos>>)
\* So are the values that a consumer has popped, and the slot it claims.
PoppedInv(loc, t) ==
  \A i \in DOMAIN popped[t] :
    LET p == loc[popped[t][i]] IN
    /\ Placed(popped[t][i])
    /\ nodes[p[1]].data[p[2]] = Taken
    /\ p[1] <= read_pos /\ p[2] < nodes[p[1]].read
    /\ stage[t] \in PopStages => p[1] <= mine[t].node
    /\ stage[t] = "get" => Precedes(p, <<mine[t].node, mine[t].pos>>)
    /\ \A j \in DOMAIN popped[t] : i < j => Precedes(p, loc[popped[t][j]])
OnceInv ==
  \A t, u \in Consumer : \A i \in DOMAIN popped[t], j \in DOMAIN popped[u] :
    popped[t][i] = popped[u][j] => t = u /\ i = j

\* What try_pop has learnt about the values that were pushed before it.
Written(p, n, w) == /\ p[1] = n => p[2] < w
                    /\ p[1] > n => w > BlockSize
SeenInv(loc, t) ==
  \A v \in seen[t] :
    /\ Placed(v)
    /\ stage[t] = "look" /\ "write" \notin mine[t].unread =>
         Written(loc[v], mine[t].node, mine[t].write)
    /\ stage[t] = "last" => Written(loc[v], mine[t].node, nodes[mine[t].node].read)
    /\ mine[t].empty => loc[v][2] < nodes[loc[v][1]].read

Locations == [Value -> Nat \X Nat]
PusherInv(loc, t) == ProducerInv(t) /\ PushedInv(loc, t)
PopperInv(loc, t) == ConsumerInv(t) /\ RetiredInv(t) /\ PoppedInv(loc, t) /\ SeenInv(loc, t)
SharedInv(loc) == ListInv /\ ClaimsInv /\ FreedInv /\ OnceInv /\ SlotsInv(loc)
InvWith(loc) ==
  /\ SharedInv(loc)
  /\ \A t \in Producer : PusherInv(loc, t)
  /\ \A t \in Consumer : PopperInv(loc, t)
QueueInv == QueueTypes /\ \E loc \in Locations : InvWith(loc)

\* A value is a producer and the number of one of the pushes planned for it; the marks of an
\* empty and of a taken slot are no values.
LEMMA PlanValueIs ==
  ASSUME QueueTypes
  PROVE  /\ \A v \in Value : /\ v = <<v[1], v[2]>> /\ v[1] \in Producer /\ v[1] \in Client
                             /\ v[2] \in Nat /\ 1 <= v[2] /\ v[2] <= plan.pushes[v[1]]
         /\ \A p \in Producer, k \in Nat : 1 <= k /\ k <= plan.pushes[p] => <<p, k>> \in Value
         /\ Empty \notin Value /\ Taken \notin Value /\ Empty # Taken
<1>1. \A p \in Client : plan.pushes[p] \in Nat
  BY DEF QueueTypes, Client
<1>2. \A v : v \in Value <=> \E p \in Producer : v \in {p} \X (1..plan.pushes[p])
  BY DEF Value
<1>3. \A v \in Value : /\ v = <<v[1], v[2]>> /\ v[1] \in Producer /\ v[1] \in Client
                       /\ v[2] \in Nat /\ 1 <= v[2] /\ v[2] <= plan.pushes[v[1]]
  BY <1>1, <1>2 DEF Producer
<1>4. \A p \in Producer, k \in Nat : 1 <= k /\ k <= plan.pushes[p] => <<p, k>> \in Value
  <2>. SUFFICES ASSUME NEW p \in Producer, NEW k \in Nat, 1 <= k, k <= plan.pushes[p]
                PROVE  <<p, k>> \in {p} \X (1..plan.pushes[p])
    BY <1>2
  <2>. QED  BY <1>1 DEF Producer
<1>5. Empty \notin Value /\ Taken \notin Value /\ Empty # Taken
  <2>1. Empty \notin Value
    <3>. SUFFICES ASSUME NEW p \in Producer, Empty \in {p} \X (1..plan.pushes[p]) PROVE FALSE
      BY <1>2
    <3>. QED  BY DEF Empty
  <2>2. Taken \notin Value
    <3>. SUFFICES ASSUME NEW p \in Producer, Taken \in {p} \X (1..plan.pushes[p]) PROVE FALSE
      BY <1>2
    <3>. QED  BY DEF Taken
  <2>3. Empty # Taken
    BY DEF Empty, Taken
  <2>. QED  BY <2>1, <2>2, <2>3
<1>. QED  BY <1>3, <1>4, <1>5

\* The parts of one client's state, one by one.
LEMMA QueueTyped ==
  ASSUME QueueTypes, NEW t \in Client
  PROVE  /\ stage[t] \in Stages /\ mine[t] \in Locals /\ hazard[t] \in Nat
         /\ retired[t] \in Seq(Nat) /\ pushed[t] \in Nat /\ popped[t] \in Seq(Value)
         /\ seen[t] \in SUBSET Value /\ t \in 1..Len(plan.pushes) /\ t \in Nat
         /\ mine[t].saved \in Nat /\ mine[t].node \in Nat /\ mine[t].pos \in Nat
         /\ mine[t].next \in Nat /\ mine[t].linked \in BOOLEAN
         /\ mine[t].unread \in SUBSET Counters /\ mine[t].write \in Nat /\ mine[t].read \in Nat
         /\ mine[t].empty \in BOOLEAN /\ mine[t].ptr \in Nat /\ mine[t].asked \in Nat
         /\ plan.pushes[t] \in Nat
<1>1. plan.pushes \in Seq(Nat)
  BY DEF QueueTypes
<1>2. t \in 1..Len(plan.pushes) /\ t \in Nat /\ plan.pushes[t] \in Nat
  BY <1>1 DEF Client
<1>3. /\ stage[t] \in Stages /\ mine[t] \in Locals /\ hazard[t] \in Nat
      /\ retired[t] \in Seq(Nat) /\ pushed[t] \in Nat /\ popped[t] \in Seq(Value)
      /\ seen[t] \in SUBSET Value
  BY DEF QueueTypes
<1>. QED  BY <1>2, <1>3 DEF Locals

\* The parts of the blocks, and the two kinds of clients.
LEMMA BlocksTyped ==
  ASSUME QueueTypes
  PROVE  /\ Len(nodes) \in Nat /\ write_pos \in Nat /\ read_pos \in Nat
         /\ BlockSize \in Nat /\ BlockSize > 0
         /\ \A b \in Blocks : /\ b \in Nat /\ nodes[b] \in Block
                              /\ nodes[b].write \in Nat /\ nodes[b].read \in Nat
                              /\ nodes[b].next \in Nat
                              /\ nodes[b].data \in [Index -> Value \cup {Empty, Taken}]
         /\ Producer \cup Consumer = Client /\ Producer \cap Consumer = {}
<1>1. nodes \in Seq(Block) /\ BlockSize \in Nat /\ BlockSize > 0
  BY DEF QueueTypes, BlockSize
<1>2. \A b \in Blocks : nodes[b] \in Block /\ b \in Nat
  BY <1>1 DEF Blocks
<1>3. Len(nodes) \in Nat
  BY <1>1
<1>4. write_pos \in Nat /\ read_pos \in Nat
  BY <1>2 DEF QueueTypes
<1>. QED  BY <1>1, <1>2, <1>3, <1>4 DEF Block, Producer, Consumer

\* The same after a step.
LEMMA BlocksTypedNext ==
  ASSUME QueueTypes'
  PROVE  /\ Len(nodes') \in Nat /\ write_pos' \in Nat /\ read_pos' \in Nat
         /\ write_pos' \in Blocks' /\ read_pos' \in Blocks'
         /\ \A b \in Blocks' : /\ b \in Nat /\ nodes'[b].write \in Nat /\ nodes'[b].read \in Nat
<1>1. nodes' \in Seq(Block') /\ Blocks' = 1..Len(nodes')
      /\ write_pos' \in Blocks' /\ read_pos' \in Blocks'
  BY DEF QueueTypes, Blocks
<1>2. \A b \in Blocks' : nodes'[b] \in Block' /\ b \in Nat
  BY <1>1
<1>3. Len(nodes') \in Nat
  BY <1>1
<1>. QED  BY <1>1, <1>2, <1>3 DEF Block

\* A step of t: the others rest, the list grows, what is taken stays so.
OthersRest(t) ==
  /\ plan' = plan
  /\ \A u \in Client : u # t =>
       /\ stage'[u] = stage[u] /\ mine'[u] = mine[u] /\ hazard'[u] = hazard[u]
       /\ retired'[u] = retired[u] /\ pushed'[u] = pushed[u] /\ popped'[u] = popped[u]
       /\ seen'[u] = seen[u]
Grows ==
  /\ Len(nodes) <= Len(nodes') /\ write_pos <= write_pos' /\ read_pos <= read_pos'
  /\ \A b \in Blocks :
       /\ nodes[b].write <= nodes'[b].write /\ nodes[b].read <= nodes'[b].read
       /\ \A i \in Index : nodes[b].data[i] = Taken => nodes'[b].data[i] = Taken
StaysPlaced == \A v \in Value : Placed(v) => Placed(v)'
Enters(t) ==
  t \in Consumer /\ stage'[t] \in PopStages =>
    \/ stage[t] \in PopStages /\ mine'[t].node = mine[t].node
    \/ mine'[t].node = read_pos
StepOf(t) == OthersRest(t) /\ Grows /\ StaysPlaced /\ Enters(t)

\* The plan is fixed, and with it who pushes, who pops and what.
LEMMA PlanKeeps ==
  ASSUME plan' = plan
  PROVE  /\ Client' = Client /\ Producer' = Producer /\ Consumer' = Consumer /\ Value' = Value
         /\ BlockSize' = BlockSize /\ Index' = Index /\ Locations' = Locations
<1>1. Client' = Client /\ BlockSize' = BlockSize
  BY DEF Client, BlockSize
<1>2. Producer' = Producer
  BY <1>1 DEF Producer
<1>3. Value' = Value
  BY <1>2 DEF Value
<1>. QED  BY <1>1, <1>2, <1>3 DEF Consumer, Index, Locations

\* A step of t leaves what is said of another producer true.
LEMMA OtherProducer ==
  ASSUME QueueTypes, QueueTypes', NEW loc, NEW lot, NEW t \in Client, NEW u \in Producer, u # t,
         StepOf(t), SlotsInv(loc), \A v \in Value : Placed(v) => lot[v] = loc[v],
         PusherInv(loc, u)
  PROVE  PusherInv(lot, u)'
<1>1. /\ u \in Client /\ plan' = plan /\ stage'[u] = stage[u] /\ mine'[u] = mine[u]
      /\ pushed'[u] = pushed[u]
  BY BlocksTyped DEF StepOf, OthersRest
<1>2. Blocks \subseteq Blocks'
  BY BlocksTyped, BlocksTypedNext DEF StepOf, Grows, Blocks
<1>3. ProducerInv(u)'
  <2>1. ProducerInv(u)
    BY DEF PusherInv
  <2>2. mine[u].node \in Blocks => /\ nodes[mine[u].node].write <= nodes'[mine[u].node].write
                                   /\ nodes'[mine[u].node].write \in Nat
    BY <1>2, BlocksTypedNext DEF StepOf, Grows
  <2>3. write_pos <= write_pos' /\ write_pos \in Nat /\ write_pos' \in Nat
    BY BlocksTyped, BlocksTypedNext DEF StepOf, Grows
  <2>4. BlockSize' = BlockSize /\ Index' = Index /\ BlockSize \in Nat
    BY <1>1, PlanKeeps, BlocksTyped
  <2>5. /\ mine[u].node \in Nat /\ mine[u].pos \in Nat /\ mine[u].next \in Nat
        /\ mine[u].node \in Blocks => nodes[mine[u].node].write \in Nat
    BY <1>1, QueueTyped, BlocksTyped
  <2>6. (stage[u] \in PushStages => mine[u].node \in Blocks') /\ "set" \in PushStages
        /\ "next" \in PushStages /\ "link" \in PushStages /\ "advance" \in PushStages
    BY <1>2, <2>1 DEF ProducerInv, PushStages
  <2>. QED
    BY <1>1, <1>2, <2>1, <2>2, <2>3, <2>4, <2>5, <2>6 DEF ProducerInv
<1>4. PushedInv(lot, u)'
  <2>1. Value' = Value
    BY <1>1, PlanKeeps
  <2>2. \A v \in Value : v[1] = u => (Placed(v)' <=> Placed(v))
    BY <1>1 DEF Placed, Inside
  <2>3. write_pos <= write_pos' /\ write_pos \in Nat /\ write_pos' \in Nat
    BY BlocksTyped, BlocksTypedNext DEF StepOf, Grows
  <2>4. \A v \in Value : Placed(v) => loc[v][1] \in Nat
    BY BlocksTyped DEF SlotsInv
  <2>5. PushedInv(loc, u)
    BY DEF PusherInv
  <2>. QED
    BY <1>1, <2>1, <2>2, <2>3, <2>4, <2>5 DEF PushedInv
<1>. QED  BY <1>3, <1>4 DEF PusherInv

\* A step of t leaves what is said of another consumer true: the counters only grow, what
\* is retired stays behind read_pos, and a value once popped was popped before.
LEMMA OtherConsumer ==
  ASSUME QueueTypes, QueueTypes', NEW loc, NEW lot, NEW t \in Client, NEW u \in Consumer, u # t,
         StepOf(t), SlotsInv(loc), \A v \in Value : Placed(v) => lot[v] = loc[v],
         PopperInv(loc, u)
  PROVE  PopperInv(lot, u)'
<1>1. /\ u \in Client /\ plan' = plan /\ stage'[u] = stage[u] /\ mine'[u] = mine[u]
      /\ hazard'[u] = hazard[u] /\ retired'[u] = retired[u] /\ popped'[u] = popped[u]
      /\ seen'[u] = seen[u]
  BY BlocksTyped DEF StepOf, OthersRest
<1>2. Blocks \subseteq Blocks'
  BY BlocksTyped, BlocksTypedNext DEF StepOf, Grows, Blocks
<1>3. /\ read_pos <= read_pos' /\ read_pos \in Nat /\ read_pos' \in Nat
      /\ BlockSize' = BlockSize /\ Index' = Index /\ BlockSize \in Nat
      /\ Value' = Value /\ Consumer' = Consumer
  BY <1>1, PlanKeeps, BlocksTyped, BlocksTypedNext DEF StepOf, Grows
<1>4. /\ mine[u].node \in Nat /\ mine[u].pos \in Nat /\ mine[u].next \in Nat
      /\ mine[u].read \in Nat /\ retired[u] \in Seq(Nat) /\ popped[u] \in Seq(Value)
      /\ seen[u] \in SUBSET Value
  BY <1>1, QueueTyped
<1>5. \A b \in Blocks : /\ nodes[b].read <= nodes'[b].read /\ nodes[b].read \in Nat
                        /\ nodes'[b].read \in Nat
                        /\ \A i \in Index : nodes[b].data[i] = Taken => nodes'[b].data[i] = Taken
  BY <1>2, BlocksTyped, BlocksTypedNext DEF StepOf, Grows
<1>6. ConsumerInv(u)'
  <2>1. ConsumerInv(u)
    BY DEF PopperInv
  <2>2. (stage[u] \in PopStages => mine[u].node \in Blocks)
        /\ "get" \in PopStages /\ "missed" \in PopStages /\ "next" \in PopStages
        /\ "swing" \in PopStages /\ "look" \in PopStages
    BY <2>1 DEF ConsumerInv, PopStages
  <2>3. /\ mine[u].node <= read_pos => mine[u].node <= read_pos'
        /\ mine[u].node < read_pos => mine[u].node < read_pos'
        /\ mine[u].node \in Blocks => mine[u].node \in Blocks'
        /\ mine[u].node + 1 \in Blocks => mine[u].node + 1 \in Blocks'
    BY <1>2, <1>3, <1>4
  <2>4. mine[u].node \in Blocks =>
          /\ mine[u].pos < nodes[mine[u].node].read => mine[u].pos < nodes'[mine[u].node].read
          /\ nodes[mine[u].node].read >= BlockSize => nodes'[mine[u].node].read >= BlockSize
          /\ mine[u].read <= nodes[mine[u].node].read => mine[u].read <= nodes'[mine[u].node].read
    <3>. SUFFICES ASSUME mine[u].node \in Blocks
                  PROVE  LET r == nodes[mine[u].node].read
                             s == nodes'[mine[u].node].read
                         IN /\ mine[u].pos < r => mine[u].pos < s
                            /\ r >= BlockSize => s >= BlockSize
                            /\ mine[u].read <= r => mine[u].read <= s
      OBVIOUS
    <3>1. /\ nodes[mine[u].node].read <= nodes'[mine[u].node].read
          /\ nodes[mine[u].node].read \in Nat /\ nodes'[mine[u].node].read \in Nat
      BY <1>5, Zenon
    <3>2. BlockSize \in Nat /\ mine[u].pos \in Nat /\ mine[u].read \in Nat
      BY <1>3, <1>4
    <3>. QED  BY <3>1, <3>2, SMT
  <2>. QED  BY <1>1, <1>3, <2>1, <2>2, <2>3, <2>4 DEF ConsumerInv
<1>7. RetiredInv(u)'
  <2>1. RetiredInv(u)
    BY DEF PopperInv
  <2>2. \A i \in DOMAIN retired[u] : retired[u][i] \in Nat /\ retired[u][i] < read_pos
    BY <1>4, <2>1 DEF RetiredInv
  <2>3. \A i \in DOMAIN retired'[u] : retired'[u][i] < read_pos'
    BY <1>1, <1>3, <2>2
  <2>4. ASSUME stage[u] = "scan", NEW c \in Consumer, c < mine[u].asked, stage'[c] \in PopStages
        PROVE  mine'[c].node # retired[u][mine[u].ptr]
    <3>1. retired[u][mine[u].ptr] < read_pos /\ retired[u][mine[u].ptr] \in Nat
      BY <2>1, <2>2, <2>4 DEF RetiredInv
    <3>2. CASE c = t
      BY <1>3, <2>1, <2>4, <3>1, <3>2 DEF StepOf, Enters, RetiredInv
    <3>3. CASE c # t
      BY <2>1, <2>4, <3>3, BlocksTyped DEF StepOf, OthersRest, RetiredInv
    <3>. QED  BY <3>2, <3>3
  <2>. QED  BY <1>1, <1>3, <2>1, <2>3, <2>4 DEF RetiredInv
<1>8. \A v \in Value : Placed(v) => /\ Placed(v)' /\ lot[v] = loc[v]
                                    /\ loc[v][1] \in Blocks /\ loc[v][2] \in Index
  BY Zenon DEF StepOf, StaysPlaced, SlotsInv
<1>9. PoppedInv(lot, u)'
  <2>1. PoppedInv(loc, u)
    BY DEF PopperInv
  <2>2. \A i \in DOMAIN popped[u] : popped[u][i] \in Value
    BY <1>4
  <2>3. SUFFICES ASSUME NEW i \in DOMAIN popped[u], NEW v, v = popped[u][i],
                        NEW p, p = loc[v]
                 PROVE  /\ Placed(v)' /\ lot[v] = p
                        /\ nodes'[p[1]].data[p[2]] = Taken
                        /\ p[1] <= read_pos' /\ p[2] < nodes'[p[1]].read
                        /\ stage[u] \in PopStages => p[1] <= mine[u].node
                        /\ stage[u] = "get" => Precedes(p, <<mine[u].node, mine[u].pos>>)
                        /\ \A j \in DOMAIN popped[u] : i < j => Precedes(p, lot[popped[u][j]])
    BY <1>1 DEF PoppedInv
  <2>4. v \in Value /\ Placed(v) /\ Placed(v)' /\ lot[v] = p /\ p[1] \in Blocks /\ p[2] \in Index
    BY <1>8, <2>1, <2>2, <2>3 DEF PoppedInv
  <2>5. \A j \in DOMAIN popped[u] : lot[popped[u][j]] = loc[popped[u][j]]
    BY <1>8, <2>1, <2>2 DEF PoppedInv
  <2>6. p[1] \in Nat /\ p[2] \in Nat
    BY <2>4, BlocksTyped DEF Index
  <2>. QED  BY <1>3, <1>5, <2>1, <2>3, <2>4, <2>5, <2>6 DEF PoppedInv
<1>10. SeenInv(lot, u)'
  <2>1. SUFFICES ASSUME NEW v \in seen[u]
                 PROVE  /\ Placed(v)'
                        /\ stage[u] = "look" /\ "write" \notin mine[u].unread =>
                             Written(lot[v], mine[u].node, mine[u].write)
                        /\ stage[u] = "last" =>
                             Written(lot[v], mine[u].node, nodes'[mine[u].node].read)
                        /\ mine[u].empty => lot[v][2] < nodes'[lot[v][1]].read
    BY <1>1, <1>3 DEF SeenInv, Written
  <2>2. /\ v \in Value /\ Placed(v) /\ Placed(v)' /\ lot[v] = loc[v] /\ loc[v][1] \in Blocks
        /\ loc[v][2] \in Nat /\ loc[v][1] \in Nat
    BY <1>4, <1>8, <2>1, BlocksTyped DEF PopperInv, SeenInv, Index
  <2>3. stage[u] = "last" => mine[u].node \in Blocks
    BY DEF PopperInv, ConsumerInv, PopStages
  <2>4. /\ stage[u] = "look" /\ "write" \notin mine[u].unread =>
             Written(loc[v], mine[u].node, mine[u].write)
        /\ stage[u] = "last" => Written(loc[v], mine[u].node, nodes[mine[u].node].read)
        /\ mine[u].empty => loc[v][2] < nodes[loc[v][1]].read
    BY <2>1 DEF PopperInv, SeenInv
  <2>5. mine[u].empty => loc[v][2] < nodes'[loc[v][1]].read
    BY <1>5, <2>2, <2>4
  <2>6. ASSUME stage[u] = "last" PROVE Written(loc[v], mine[u].node, nodes'[mine[u].node].read)
    <3>1. /\ nodes[mine[u].node].read <= nodes'[mine[u].node].read
          /\ nodes[mine[u].node].read \in Nat /\ nodes'[mine[u].node].read \in Nat
      BY <1>5, <2>3, <2>6
    <3>. QED  BY <1>3, <2>2, <2>4, <2>6, <3>1 DEF Written
  <2>. QED  BY <2>2, <2>4, <2>5, <2>6
<1>. QED  BY <1>6, <1>7, <1>9, <1>10 DEF PopperInv

\* It remains to show for each step what the thread itself and the list are like after it.
LEMMA QueueStepOf ==
  ASSUME QueueTypes, QueueTypes', NEW loc \in Locations, InvWith(loc), NEW lot \in Locations,
         NEW t \in Client, StepOf(t), \A v \in Value : Placed(v) => lot[v] = loc[v],
         SharedInv(lot)', t \in Producer => PusherInv(lot, t)', t \in Consumer => PopperInv(lot, t)'
  PROVE  QueueInv'
<1>1. /\ Producer' = Producer /\ Consumer' = Consumer /\ Locations' = Locations
      /\ SlotsInv(loc) /\ Producer \subseteq Client /\ Consumer \subseteq Client
  BY PlanKeeps, BlocksTyped DEF StepOf, OthersRest, InvWith, SharedInv
<1>2. \A u \in Producer : PusherInv(lot, u)'
  BY <1>1, OtherProducer DEF InvWith
<1>3. \A u \in Consumer : PopperInv(lot, u)'
  BY <1>1, OtherConsumer DEF InvWith
<1>. QED  BY <1>1, <1>2, <1>3 DEF QueueInv, InvWith

\* A step that leaves the list alone.
OnlyMoves(t, l, m) ==
  /\ stage' = [stage EXCEPT ![t] = l] /\ mine' = [mine EXCEPT ![t] = m]
  /\ hazard' \in [Client -> Nat] /\ retired' \in [Client -> Seq(Nat)]
  /\ pushed' \in [Client -> Nat] /\ seen' \in [Client -> SUBSET Value]
  /\ \A u \in Client : u # t => /\ hazard'[u] = hazard[u] /\ retired'[u] = retired[u]
                                /\ pushed'[u] = pushed[u] /\ seen'[u] = seen[u]

\* A step that only moves the client to another stage: the two functions after it.
LEMMA RestIs ==
  ASSUME QueueTypes, NEW t \in Client, NEW l \in Stages, NEW m \in Locals, OnlyMoves(t, l, m)
  PROVE  /\ stage'[t] = l /\ mine'[t] = m
         /\ stage' \in [Client -> Stages] /\ mine' \in [Client -> Locals]
         /\ \A u \in Client : u # t => stage'[u] = stage[u] /\ mine'[u] = mine[u]
BY DEF QueueTypes, OnlyMoves

\* A step that changes no shared part of the queue keeps the invariant if it keeps what is
\* said of the client that takes it.
LEMMA LocalStep ==
  ASSUME QueueTypes, NEW loc \in Locations, InvWith(loc), NEW t \in Client,
         NEW l \in Stages, NEW m \in Locals, OnlyMoves(t, l, m), stage[t] # "get",
         UNCHANGED <<plan, nodes, write_pos, read_pos, freed, popped>>,
         l \in PopStages => \/ stage[t] \in PopStages /\ m.node = mine[t].node
                            \/ m.node = read_pos,
         \A v \in Value : Placed(v)' <=> Placed(v),
         t \in Producer => PusherInv(loc, t)', t \in Consumer => PopperInv(loc, t)'
  PROVE  QueueInv'
<1>1. /\ stage'[t] = l /\ mine'[t] = m
      /\ \A u \in Client : u # t => stage'[u] = stage[u] /\ mine'[u] = mine[u]
  BY RestIs
<1>2. /\ Client' = Client /\ Producer' = Producer /\ Consumer' = Consumer /\ Value' = Value
      /\ BlockSize' = BlockSize /\ Index' = Index /\ Locations' = Locations
      /\ Blocks' = Blocks /\ Block' = Block /\ Popped' = Popped
  <2>1. /\ Client' = Client /\ Producer' = Producer /\ Consumer' = Consumer /\ Value' = Value
        /\ BlockSize' = BlockSize /\ Index' = Index /\ Locations' = Locations
    BY PlanKeeps
  <2>2. Blocks' = Blocks
    BY DEF Blocks
  <2>3. Block' = Block
    BY <2>1 DEF Block
  <2>4. Popped' = Popped
    BY <2>1 DEF Popped
  <2>. QED  BY <2>1, <2>2, <2>3, <2>4
<1>3. QueueTypes'
  BY <1>2, RestIs DEF QueueTypes, OnlyMoves
<1>4. StepOf(t)
  <2>1. OthersRest(t)
    BY <1>1 DEF OthersRest, OnlyMoves
  <2>2. Grows
    BY BlocksTyped DEF Grows
  <2>. QED  BY <1>1, <2>1, <2>2 DEF StepOf, StaysPlaced, Enters
<1>5. SharedInv(loc)'
  <2>1. ListInv /\ ClaimsInv /\ FreedInv /\ OnceInv /\ SlotsInv(loc)
    BY DEF InvWith, SharedInv
  <2>2. ListInv'
    BY <1>2, <2>1 DEF ListInv
  <2>3. ClaimsInv'
    <3>1. \A u \in Consumer : \A b, i : Gets(u, b, i) => Gets(u, b, i)'
      BY <1>1, BlocksTyped DEF Gets
    <3>. QED  BY <1>2, <2>1, <3>1 DEF ClaimsInv
  <2>4. FreedInv'
    <3>1. read_pos \notin freed
      BY <2>1, BlocksTyped DEF FreedInv
    <3>2. ASSUME NEW u \in Consumer, stage'[u] \in PopStages PROVE mine'[u].node \notin freed
      <4>1. CASE u = t
        BY <1>1, <2>1, <3>1, <3>2, <4>1 DEF FreedInv
      <4>2. CASE u # t
        BY <1>1, <2>1, <3>2, <4>2, BlocksTyped DEF FreedInv
      <4>. QED  BY <4>1, <4>2
    <3>. QED  BY <1>2, <2>1, <3>2 DEF FreedInv
  <2>5. OnceInv'
    BY <1>2, <2>1 DEF OnceInv
  <2>6. SlotsInv(loc)'
    BY <1>2, <2>1 DEF SlotsInv
  <2>. QED  BY <2>2, <2>3, <2>4, <2>5, <2>6 DEF SharedInv
<1>. QED  BY <1>2, <1>3, <1>4, <1>5, QueueStepOf

\* What a producer and a consumer keep in such a step.
LEMMA PusherRests ==
  ASSUME QueueTypes, NEW loc, NEW t \in Producer, PushedInv(loc, t), SlotsInv(loc),
         UNCHANGED <<plan, write_pos>>, \A v \in Value : Placed(v)' <=> Placed(v),
         stage'[t] # "set", ~mine'[t].linked, ~mine[t].linked \/ stage[t] = "clear",
         stage'[t] \in PushStages => \/ stage[t] \in PushStages /\ mine'[t].node = mine[t].node
                                     \/ mine'[t].node = write_pos
  PROVE  PushedInv(loc, t)'
<1>1. Value' = Value
  BY PlanKeeps
<1>2. ASSUME NEW v \in Value, v[1] = t, Placed(v) PROVE loc[v][1] <= write_pos
  BY <1>2 DEF PushedInv
<1>3. ASSUME stage[t] \in PushStages PROVE stage[t] # "clear"
  BY <1>3 DEF PushStages
<1>. QED  BY <1>1, <1>2, <1>3 DEF PushedInv

\* What was popped stays popped, in order, in a step that takes nothing.
LEMMA PopperRests ==
  ASSUME QueueTypes, NEW loc, NEW t \in Consumer, PoppedInv(loc, t), SlotsInv(loc),
         UNCHANGED <<plan, nodes, read_pos, popped>>, \A v \in Value : Placed(v)' <=> Placed(v),
         stage'[t] # "get",
         stage'[t] \in PopStages => \/ stage[t] \in PopStages /\ mine'[t].node = mine[t].node
                                    \/ mine'[t].node = read_pos
  PROVE  PoppedInv(loc, t)'
<1>1. Value' = Value /\ t \in Client
  BY PlanKeeps, BlocksTyped
<1>2. \A i \in DOMAIN popped[t] : popped[t][i] \in Value
  BY <1>1, QueueTyped
<1>. QED  BY <1>1, <1>2, Zenon DEF PoppedInv

\* The empty queue satisfies the invariant.
LEMMA QueueInitInv == QueueInit => QueueInv
<1>. SUFFICES ASSUME QueueInit PROVE QueueInv
  OBVIOUS
<1>1. plan \in [design : {"new", "old"}, pushes : Seq(Nat), size : Nat \ {0}, blocks : Nat]
  BY PlansAssumption DEF QueueInit
<1>2. BlockSize \in Nat /\ BlockSize > 0 /\ \A t \in Client : t \in Nat /\ plan.pushes[t] \in Nat
  BY <1>1 DEF BlockSize, Client
<1>3. NewNode \in Block
  BY <1>2 DEF NewNode, Block, Index, NoNode
<1>4. nodes \in Seq(Block) /\ Len(nodes) = 1 /\ nodes[1] = NewNode /\ Blocks = {1}
  BY <1>3 DEF QueueInit, Blocks
<1>5. Idle \in Locals
  BY DEF Idle, Locals, Counters, NoNode
<1>6. QueueTypes
  BY <1>1, <1>4, <1>5 DEF QueueInit, QueueTypes, Stages, NoNode
<1>. DEFINE loc == [v \in Value |-> <<0, 0>>]
<1>7. loc \in Locations
  BY DEF Locations
<1>8. \A v \in Value : ~Placed(v)
  <2>. SUFFICES ASSUME NEW v \in Value PROVE ~Placed(v)
    OBVIOUS
  <2>1. v[1] \in Client /\ v[2] \in Nat /\ 1 <= v[2]
    BY <1>6, PlanValueIs
  <2>2. pushed[v[1]] = 0 /\ stage[v[1]] = "idle" /\ mine[v[1]] = Idle
    BY <2>1 DEF QueueInit
  <2>. QED  BY <2>1, <2>2 DEF Placed, Inside, Idle
<1>9. \A i \in Index : nodes[1].data[i] = Empty /\ nodes[1].read = 0 /\ nodes[1].next = NoNode
  BY <1>4 DEF NewNode, Index
<1>10. SharedInv(loc)
  <2>1. ListInv
    BY <1>4 DEF ListInv, QueueInit, NewNode
  <2>2. ClaimsInv
    BY <1>4, <1>9 DEF ClaimsInv, Index
  <2>3. FreedInv
    BY BlocksTyped, <1>6 DEF FreedInv, QueueInit
  <2>4. OnceInv
    BY BlocksTyped, <1>6 DEF OnceInv, QueueInit
  <2>5. SlotsInv(loc)
    BY <1>4, <1>6, <1>8, <1>9, PlanValueIs DEF SlotsInv
  <2>. QED  BY <2>1, <2>2, <2>3, <2>4, <2>5 DEF SharedInv
<1>11. ASSUME NEW t \in Producer PROVE PusherInv(loc, t)
  <2>1. stage[t] = "idle" /\ mine[t] = Idle
    BY <1>6, BlocksTyped DEF QueueInit
  <2>2. ProducerInv(t)
    BY <2>1 DEF ProducerInv, PushStages, Idle
  <2>. QED  BY <1>8, <2>2 DEF PusherInv, PushedInv
<1>12. ASSUME NEW t \in Consumer PROVE PopperInv(loc, t)
  <2>1. stage[t] = "idle" /\ mine[t] = Idle /\ retired[t] = <<>> /\ popped[t] = <<>> /\ seen[t] = {}
    BY <1>6, BlocksTyped DEF QueueInit
  <2>2. ConsumerInv(t)
    BY <2>1 DEF ConsumerInv, PopStages, Idle
  <2>3. RetiredInv(t)
    BY <2>1 DEF RetiredInv
  <2>. QED  BY <2>1, <2>2, <2>3 DEF PopperInv, PoppedInv, SeenInv
<1>. QED  BY <1>6, <1>7, <1>10, <1>11, <1>12 DEF QueueInv, InvWith

\* Starting a push or a pop keeps the invariant.
LEMMA BeginInv == ASSUME QueueInv, NEW t \in Client, Begin(t) PROVE QueueInv'
<1>. PICK loc \in Locations : InvWith(loc)
  BY DEF QueueInv
<1>. QueueTypes
  BY DEF QueueInv
<1>. DEFINE m == [mine[t] EXCEPT !.saved = Position(t)]
<1>1. /\ stage[t] = "idle" /\ mine[t] \in Locals /\ Position(t) \in Nat
      /\ UNCHANGED <<plan, nodes, write_pos, read_pos, hazard, retired, freed, pushed, popped>>
  BY QueueTyped, BlocksTyped DEF Begin, list_, hazards, Position
<1>2. m \in Locals /\ "guard" \in Stages
  BY <1>1 DEF Locals, Stages
<1>3. seen' \in [Client -> SUBSET Value] /\ \A u \in Client : u # t => seen'[u] = seen[u]
  <2>1. {v \in Value : v[2] <= pushed[v[1]]} \in SUBSET Value
    OBVIOUS
  <2>2. seen' = seen \/ seen' = [seen EXCEPT ![t] = {v \in Value : v[2] <= pushed[v[1]]}]
    BY DEF Begin
  <2>3. seen \in [Client -> SUBSET Value]
    BY DEF QueueTypes
  <2>. QED  BY <2>1, <2>2, <2>3
<1>4. OnlyMoves(t, "guard", m)
  BY <1>1, <1>3 DEF Begin, To, OnlyMoves, QueueTypes
<1>5. /\ stage'[t] = "guard" /\ mine'[t] = m
      /\ \A u \in Client : u # t => stage'[u] = stage[u] /\ mine'[u] = mine[u]
      /\ mine'[t].linked = mine[t].linked /\ mine'[t].empty = mine[t].empty
  BY <1>1, <1>2, <1>4, RestIs DEF Locals
<1>. HIDE DEF m
<1>6. \A v \in Value : Placed(v)' <=> Placed(v)
  BY <1>1, <1>5, PlanValueIs DEF Placed, Inside
<1>7. ASSUME t \in Producer PROVE PusherInv(loc, t)'
  <2>1. ProducerInv(t) /\ PushedInv(loc, t) /\ SlotsInv(loc)
    BY <1>7 DEF InvWith, PusherInv, SharedInv
  <2>2. ~mine[t].linked /\ pushed[t] < plan.pushes[t]
    BY <1>1, <1>7, <2>1 DEF ProducerInv, Begin
  <2>3. ProducerInv(t)'
    BY <1>1, <1>5, <2>2 DEF ProducerInv, PushStages
  <2>4. PushedInv(loc, t)'
    BY <1>1, <1>5, <1>6, <1>7, <2>1, <2>2, PusherRests DEF PushStages
  <2>. QED  BY <2>3, <2>4 DEF PusherInv
<1>8. ASSUME t \in Consumer PROVE PopperInv(loc, t)'
  <2>1. ConsumerInv(t) /\ RetiredInv(t) /\ PoppedInv(loc, t) /\ SlotsInv(loc)
    BY <1>8 DEF InvWith, PopperInv, SharedInv
  <2>2. ~mine[t].empty
    BY <1>1, <2>1 DEF ConsumerInv
  <2>3. ConsumerInv(t)'
    BY <1>1, <1>5, <2>2 DEF ConsumerInv, PopStages
  <2>4. RetiredInv(t)'
    BY <1>1, <1>5, <2>1 DEF RetiredInv
  <2>5. PoppedInv(loc, t)'
    BY <1>1, <1>5, <1>6, <1>8, <2>1, PopperRests DEF PopStages
  <2>6. \A v \in seen'[t] : v \in Value /\ Placed(v)
    <3>1. seen'[t] = {v \in Value : v[2] <= pushed[v[1]]}
      BY <1>8, BlocksTyped DEF Begin, QueueTypes
    <3>. QED  BY <3>1 DEF Placed
  <2>7. SeenInv(loc, t)'
    BY <1>5, <1>6, <2>2, <2>6 DEF SeenInv
  <2>. QED  BY <2>3, <2>4, <2>5, <2>7 DEF PopperInv
<1>. QED
  BY <1>1, <1>2, <1>4, <1>6, <1>7, <1>8, LocalStep DEF PopStages

\* HazardPointers::Holder::protect, its store of the pointer, keeps the invariant.
LEMMA GuardInv == ASSUME QueueInv, NEW t \in Client, Guard(t) PROVE QueueInv'
<1>. PICK loc \in Locations : InvWith(loc)
  BY DEF QueueInv
<1>. QueueTypes
  BY DEF QueueInv
<1>1. /\ stage[t] = "guard" /\ mine[t] \in Locals /\ mine[t].saved \in Nat
      /\ UNCHANGED <<plan, nodes, write_pos, read_pos, retired, freed, mine, pushed, popped, seen>>
  BY QueueTyped DEF Guard, list_, History
<1>2. "load" \in Stages
  BY DEF Stages
<1>3. OnlyMoves(t, "load", mine[t]) /\ hazard'[t] = mine[t].saved
  BY <1>1 DEF Guard, To, OnlyMoves, QueueTypes
<1>4. /\ stage'[t] = "load" /\ mine'[t] = mine[t]
      /\ \A u \in Client : u # t => stage'[u] = stage[u] /\ mine'[u] = mine[u]
  BY <1>1, <1>2, <1>3, RestIs
<1>5. \A v \in Value : Placed(v)' <=> Placed(v)
  BY <1>1, <1>4, PlanValueIs DEF Placed, Inside
<1>6. ASSUME t \in Producer PROVE PusherInv(loc, t)'
  <2>1. ProducerInv(t) /\ PushedInv(loc, t) /\ SlotsInv(loc)
    BY <1>6 DEF InvWith, PusherInv, SharedInv
  <2>2. ~mine[t].linked
    BY <1>1, <2>1 DEF ProducerInv
  <2>3. ProducerInv(t)'
    BY <1>1, <1>4, <2>1, <2>2 DEF ProducerInv, PushStages
  <2>4. PushedInv(loc, t)'
    BY <1>1, <1>4, <1>5, <1>6, <2>1, <2>2, PusherRests DEF PushStages
  <2>. QED  BY <2>3, <2>4 DEF PusherInv
<1>7. ASSUME t \in Consumer PROVE PopperInv(loc, t)'
  <2>1. ConsumerInv(t) /\ RetiredInv(t) /\ PoppedInv(loc, t) /\ SeenInv(loc, t) /\ SlotsInv(loc)
    BY <1>7 DEF InvWith, PopperInv, SharedInv
  <2>2. ~mine[t].empty
    BY <1>1, <2>1 DEF ConsumerInv
  <2>3. ConsumerInv(t)'
    BY <1>1, <1>3, <1>4, <2>2 DEF ConsumerInv, PopStages
  <2>4. RetiredInv(t)'
    BY <1>1, <1>4, <2>1 DEF RetiredInv
  <2>5. PoppedInv(loc, t)'
    BY <1>1, <1>4, <1>5, <1>7, <2>1, PopperRests DEF PopStages
  <2>6. SeenInv(loc, t)'
    BY <1>1, <1>4, <1>5, <2>1, <2>2, QueueTyped DEF SeenInv
  <2>. QED  BY <2>3, <2>4, <2>5, <2>6 DEF PopperInv
<1>. QED
  BY <1>1, <1>2, <1>3, <1>5, <1>6, <1>7, LocalStep DEF PopStages

\* The second load of protect keeps the invariant: only a block still current is used.
LEMMA LoadPosInv == ASSUME QueueInv, NEW t \in Client, LoadPos(t) PROVE QueueInv'
<1>. PICK loc \in Locations : InvWith(loc)
  BY DEF QueueInv
<1>. QueueTypes
  BY DEF QueueInv
<1>1. /\ stage[t] = "load" /\ mine[t] \in Locals
      /\ Position(t) = (IF t \in Producer THEN write_pos ELSE read_pos)
      /\ UNCHANGED <<plan, nodes, write_pos, read_pos, hazard, retired, freed, pushed, popped, seen>>
  BY QueueTyped DEF LoadPos, list_, hazards, History, Position
<1>. DEFINE there == Position(t) = mine[t].saved
            m == IF there
                 THEN [mine[t] EXCEPT !.saved = NoNode, !.node = Position(t),
                                      !.unread = IF t \in Producer THEN {} ELSE {"write", "read"}]
                 ELSE [mine[t] EXCEPT !.saved = Position(t)]
            l == IF ~there THEN "guard" ELSE IF t \in Producer THEN "claim" ELSE "look"
<1>2. l \in Stages
  BY DEF Stages
<1>3. /\ m \in Locals /\ m.linked = mine[t].linked /\ m.empty = mine[t].empty
      /\ there => m.node = Position(t)
      /\ there /\ t \notin Producer => m.unread = {"write", "read"}
  <2>1. Position(t) \in Nat /\ NoNode \in Nat
    BY <1>1, BlocksTyped DEF NoNode
  <2>. QED  BY <1>1, <2>1 DEF Locals, Counters
<1>4. OnlyMoves(t, l, m)
  <2>1. stage' = [stage EXCEPT ![t] = l]
    BY DEF LoadPos, To
  <2>2. mine' = [mine EXCEPT ![t] = m]
    BY DEF LoadPos
  <2>. QED  BY <1>1, <2>1, <2>2 DEF OnlyMoves, QueueTypes
<1>5. /\ stage'[t] = l /\ mine'[t] = m
      /\ \A u \in Client : u # t => stage'[u] = stage[u] /\ mine'[u] = mine[u]
  BY <1>2, <1>3, <1>4, RestIs
<1>6. l \in {"guard", "claim", "look"} /\ (l # "guard" => there)
      /\ (l = "claim" => t \in Producer) /\ (l = "look" => t \notin Producer)
  OBVIOUS
<1>. HIDE DEF m, l
<1>7. \A v \in Value : Placed(v)' <=> Placed(v)
  BY <1>1, <1>3, <1>5, <1>6, PlanValueIs DEF Placed, Inside
<1>8. ASSUME t \in Producer PROVE PusherInv(loc, t)'
  <2>1. ProducerInv(t) /\ PushedInv(loc, t) /\ SlotsInv(loc)
    BY <1>8 DEF InvWith, PusherInv, SharedInv
  <2>2. ~mine[t].linked
    BY <1>1, <2>1 DEF ProducerInv
  <2>3. there => m.node = write_pos /\ write_pos \in Blocks /\ write_pos <= write_pos
    BY <1>1, <1>3, <1>8, BlocksTyped DEF QueueTypes
  <2>4. Blocks' = Blocks
    BY <1>1 DEF Blocks
  <2>5. ProducerInv(t)'
    BY <1>1, <1>3, <1>5, <1>6, <1>8, <2>1, <2>2, <2>3, <2>4 DEF ProducerInv, PushStages
  <2>6. PushedInv(loc, t)'
    BY <1>1, <1>3, <1>5, <1>6, <1>7, <1>8, <2>1, <2>2, <2>3, PusherRests DEF PushStages
  <2>. QED  BY <2>5, <2>6 DEF PusherInv
<1>9. ASSUME t \in Consumer PROVE PopperInv(loc, t)'
  <2>1. ConsumerInv(t) /\ RetiredInv(t) /\ PoppedInv(loc, t) /\ SeenInv(loc, t) /\ SlotsInv(loc)
    BY <1>9 DEF InvWith, PopperInv, SharedInv
  <2>2. ~mine[t].empty /\ t \notin Producer
    BY <1>1, <1>9, <2>1 DEF ConsumerInv, Consumer
  <2>3. there => m.node = read_pos /\ read_pos \in Blocks /\ read_pos <= read_pos
                 /\ hazard[t] = read_pos
    BY <1>1, <1>3, <2>1, <2>2, BlocksTyped DEF QueueTypes, ConsumerInv, NoNode, Blocks
  <2>4. Blocks' = Blocks
    BY <1>1 DEF Blocks
  <2>5. ConsumerInv(t)'
    BY <1>1, <1>3, <1>5, <1>6, <2>2, <2>3, <2>4 DEF ConsumerInv, PopStages
  <2>6. RetiredInv(t)'
    BY <1>1, <1>5, <1>6, <2>1 DEF RetiredInv
  <2>7. PoppedInv(loc, t)'
    BY <1>1, <1>3, <1>5, <1>6, <1>7, <1>9, <2>1, <2>3, PopperRests DEF PopStages
  <2>8. SeenInv(loc, t)'
    BY <1>1, <1>3, <1>5, <1>6, <1>7, <2>1, <2>2, QueueTyped DEF SeenInv
  <2>. QED  BY <2>5, <2>6, <2>7, <2>8 DEF PopperInv
<1>10. l \in PopStages => m.node = read_pos
  BY <1>1, <1>3, <1>6 DEF PopStages
<1>. QED
  BY <1>1, <1>2, <1>3, <1>4, <1>7, <1>8, <1>9, <1>10, LocalStep

\* Reading the block's next keeps the invariant.
LEMMA FollowInv == ASSUME QueueInv, NEW t \in Client, Follow(t) PROVE QueueInv'
<1>. PICK loc \in Locations : InvWith(loc)
  BY DEF QueueInv
<1>. QueueTypes
  BY DEF QueueInv
<1>. DEFINE n == mine[t].node
            next == nodes[n].next
            m == [mine[t] EXCEPT !.next = next, !.empty = t \in Consumer /\ next = NoNode]
            l == IF t \in Producer THEN IF next = NoNode THEN "link" ELSE "advance"
                                   ELSE IF next = NoNode THEN "clear" ELSE "swing"
<1>1. /\ stage[t] = "next" /\ mine[t] \in Locals
      /\ UNCHANGED <<plan, nodes, write_pos, read_pos, hazard, retired, freed, pushed, popped, seen>>
  BY QueueTyped DEF Follow, list_, hazards, History
<1>2. t \in Producer \/ t \in Consumer
  BY BlocksTyped
<1>3. ListInv /\ SlotsInv(loc)
  BY DEF InvWith, SharedInv
<1>4. n \in Blocks
  BY <1>1, <1>2 DEF InvWith, PusherInv, PopperInv, ProducerInv, ConsumerInv, PushStages, PopStages
<1>5. next \in Nat /\ (next # NoNode => next = n + 1 /\ n + 1 \in Blocks)
      /\ (next = NoNode => n = Len(nodes))
  <2>1. next = IF n < Len(nodes) THEN n + 1 ELSE NoNode
    BY <1>3, <1>4, Zenon DEF ListInv
  <2>2. n \in 1..Len(nodes) /\ Len(nodes) \in Nat
    BY <1>4, BlocksTyped, Zenon DEF Blocks
  <2>. HIDE DEF n, next
  <2>. QED  BY <2>1, <2>2, SMT DEF Blocks, NoNode
<1>6. l \in Stages
  BY DEF Stages
<1>7. /\ m \in Locals /\ m.linked = mine[t].linked /\ m.next = next /\ m.node = n
      /\ m.pos = mine[t].pos /\ m.unread = mine[t].unread
      /\ m.empty <=> t \in Consumer /\ next = NoNode
  BY <1>1, <1>5 DEF Locals
<1>8. OnlyMoves(t, l, m)
  BY <1>1 DEF Follow, To, Node, OnlyMoves, QueueTypes
<1>9. /\ stage'[t] = l /\ mine'[t] = m
      /\ \A u \in Client : u # t => stage'[u] = stage[u] /\ mine'[u] = mine[u]
  BY <1>6, <1>7, <1>8, RestIs
<1>10. /\ l \in {"link", "advance", "clear", "swing"} /\ (l = "advance" => next # NoNode)
       /\ (l = "swing" => next # NoNode /\ t \notin Producer)
       /\ (t \in Producer => l \in {"link", "advance"})
       /\ (t \notin Producer => l = IF next = NoNode THEN "clear" ELSE "swing")
  OBVIOUS
<1>. HIDE DEF m, l, n, next
<1>11. ASSUME t \in Producer PROVE ~mine[t].linked
  BY <1>1, <1>11 DEF InvWith, PusherInv, ProducerInv
<1>12. \A v \in Value : Placed(v)' <=> Placed(v)
  BY <1>1, <1>7, <1>9, <1>10, <1>11, PlanValueIs DEF Placed, Inside
<1>13. Blocks' = Blocks /\ BlockSize' = BlockSize
  BY <1>1, PlanKeeps DEF Blocks
<1>14. ASSUME t \in Producer PROVE PusherInv(loc, t)'
  <2>1. ProducerInv(t) /\ PushedInv(loc, t)
    BY <1>14 DEF InvWith, PusherInv
  <2>2. ProducerInv(t)'
    BY <1>1, <1>5, <1>7, <1>9, <1>10, <1>11, <1>13, <1>14, <2>1 DEF ProducerInv, PushStages, n
  <2>3. PushedInv(loc, t)'
    BY <1>1, <1>3, <1>7, <1>9, <1>10, <1>11, <1>12, <1>14, <2>1, PusherRests DEF PushStages, n
  <2>. QED  BY <2>2, <2>3 DEF PusherInv
<1>15. ASSUME t \in Consumer PROVE PopperInv(loc, t)'
  <2>1. ConsumerInv(t) /\ RetiredInv(t) /\ PoppedInv(loc, t) /\ SeenInv(loc, t)
    BY <1>15 DEF InvWith, PopperInv
  <2>2. t \notin Producer
    BY <1>15 DEF Consumer
  <2>3. ConsumerInv(t)'
    BY <1>1, <1>5, <1>7, <1>9, <1>10, <1>13, <2>1, <2>2 DEF ConsumerInv, PopStages, n
  <2>4. RetiredInv(t)'
    BY <1>1, <1>9, <1>10, <2>1 DEF RetiredInv
  <2>5. PoppedInv(loc, t)'
    BY <1>1, <1>3, <1>7, <1>9, <1>10, <1>12, <1>15, <2>1, PopperRests DEF PopStages, n
  <2>6. ASSUME NEW v \in seen[t], next = NoNode PROVE loc[v][2] < nodes[loc[v][1]].read
    <3>1. v \in Value /\ Placed(v)
      BY <2>1, QueueTyped DEF SeenInv
    <3>2. loc[v][1] \in Blocks /\ loc[v][2] \in Index
      BY <1>3, <3>1 DEF SlotsInv
    <3>3. nodes[n].read >= BlockSize
      BY <1>1, <2>1 DEF ConsumerInv, n
    <3>4. loc[v][1] < n => loc[v][1] < read_pos
      BY <1>1, <1>4, <2>1, <3>2, BlocksTyped DEF ConsumerInv, PopStages, n
    <3>5. nodes[loc[v][1]].read >= BlockSize
      <4>1. CASE loc[v][1] < n
        BY <1>3, <3>2, <3>4, <4>1 DEF ListInv
      <4>2. CASE loc[v][1] >= n
        BY <1>4, <1>5, <2>6, <3>2, <3>3, <4>2, BlocksTyped DEF Blocks
      <4>. QED  BY <1>4, <3>2, <4>1, <4>2, BlocksTyped
    <3>. QED  BY <3>2, <3>5, BlocksTyped DEF Index
  <2>7. SeenInv(loc, t)'
    BY <1>1, <1>7, <1>9, <1>10, <1>12, <2>1, <2>2, <2>6, QueueTyped DEF SeenInv
  <2>. QED  BY <2>3, <2>4, <2>5, <2>7 DEF PopperInv
<1>16. l \in PopStages => stage[t] \in PopStages /\ m.node = mine[t].node
  BY <1>1, <1>7 DEF PopStages, n
<1>. QED
  BY <1>1, <1>6, <1>7, <1>8, <1>12, <1>14, <1>15, <1>16, LocalStep

\* Reading the two counters of the block, in either order, keeps the invariant.
LEMMA LookInv == ASSUME QueueInv, NEW t \in Client, Look(t) PROVE QueueInv'
<1>. PICK loc \in Locations : InvWith(loc)
  BY DEF QueueInv
<1>. QueueTypes
  BY DEF QueueInv
<1>1. /\ stage[t] = "look" /\ mine[t] \in Locals
      /\ UNCHANGED <<plan, nodes, write_pos, read_pos, hazard, retired, freed, pushed, popped, seen>>
  BY QueueTyped DEF Look, list_, hazards, History
<1>2. t \in Consumer
  <2>1. t \notin Producer
    BY <1>1 DEF InvWith, PusherInv, ProducerInv, PushStages
  <2>. QED  BY <2>1 DEF Consumer
<1>3. /\ ConsumerInv(t) /\ RetiredInv(t) /\ PoppedInv(loc, t) /\ SeenInv(loc, t)
      /\ ListInv /\ SlotsInv(loc)
  BY <1>2 DEF InvWith, PopperInv, SharedInv
<1>. DEFINE n == mine[t].node
<1>4. n \in Blocks /\ nodes[n].read \in Nat /\ nodes[n].write \in Nat /\ n <= read_pos
      /\ hazard[t] = n
  BY <1>1, <1>3, BlocksTyped DEF ConsumerInv, PopStages
<1>5. PICK counter \in mine[t].unread :
        LET to == [mine[t] EXCEPT ![counter] = nodes[n][counter], !.unread = @ \ {counter}] IN
        IF to.unread # {}
        THEN mine' = [mine EXCEPT ![t] = to] /\ UNCHANGED stage
        ELSE /\ mine' = [mine EXCEPT ![t] = [Idle EXCEPT !.node = to.node]]
             /\ To(t, IF to.write <= to.read THEN "last" ELSE "take")
  BY DEF Look, Node
<1>6. mine[t].unread \subseteq Counters /\ counter \in {"write", "read"}
  BY <1>1 DEF Locals, Counters
<1>. DEFINE to == [mine[t] EXCEPT ![counter] = nodes[n][counter], !.unread = @ \ {counter}]
            m == IF to.unread # {} THEN to ELSE [Idle EXCEPT !.node = n]
            l == IF to.unread # {} THEN "look"
                 ELSE IF to.write <= to.read THEN "last" ELSE "take"
<1>7. /\ to \in Locals /\ to.node = n /\ to.unread = mine[t].unread \ {counter}
      /\ to.linked = mine[t].linked /\ to.empty = mine[t].empty
      /\ counter = "write" => to.write = nodes[n].write /\ to.read = mine[t].read
      /\ counter = "read" => to.read = nodes[n].read /\ to.write = mine[t].write
      /\ to.write \in Nat /\ to.read \in Nat
  <2>1. CASE counter = "write"
    BY <1>1, <1>4, <1>6, <2>1 DEF Locals
  <2>2. CASE counter = "read"
    BY <1>1, <1>4, <1>6, <2>2 DEF Locals
  <2>. QED  BY <1>6, <2>1, <2>2
<1>8. /\ [Idle EXCEPT !.node = n] \in Locals /\ [Idle EXCEPT !.node = n].node = n
      /\ ~[Idle EXCEPT !.node = n].empty /\ ~[Idle EXCEPT !.node = n].linked
  BY <1>1 DEF Locals, Idle, NoNode
<1>9. m \in Locals /\ m.node = n /\ l \in Stages /\ ~m.empty
  BY <1>1, <1>3, <1>7, <1>8 DEF Stages, ConsumerInv
<1>10. stage' = [stage EXCEPT ![t] = l] /\ mine' = [mine EXCEPT ![t] = m]
  <2>1. CASE to.unread # {}
    BY <1>1, <1>5, <2>1, ZenonT(40) DEF QueueTypes
  <2>2. CASE to.unread = {}
    BY <1>5, <1>7, <2>2 DEF To
  <2>. QED  BY <2>1, <2>2
<1>11. /\ l \in {"look", "last", "take"} /\ (l = "look" => m = to /\ to.unread # {})
       /\ (l = "last" => to.unread = {} /\ to.write <= to.read)
  OBVIOUS
<1>. HIDE DEF m, l, n, to
<1>12. OnlyMoves(t, l, m)
  BY <1>1, <1>10 DEF OnlyMoves, QueueTypes
<1>13. /\ stage'[t] = l /\ mine'[t] = m
       /\ \A u \in Client : u # t => stage'[u] = stage[u] /\ mine'[u] = mine[u]
  BY <1>9, <1>12, RestIs
<1>14. \A v \in Value : Placed(v)' <=> Placed(v)
  BY <1>1, <1>2, <1>13, PlanValueIs, BlocksTyped DEF Placed, Inside
<1>15. ~("write" \notin to.unread /\ "write" \in mine[t].unread) \/ to.write = nodes[n].write
  BY <1>7
<1>16. ASSUME NEW v \in seen[t], "write" \notin to.unread PROVE Written(loc[v], n, to.write)
  <2>1. v \in Value /\ Placed(v)
    BY <1>3, QueueTyped DEF SeenInv
  <2>2. /\ loc[v][1] \in Blocks /\ loc[v][2] \in Index
        /\ loc[v][2] < nodes[loc[v][1]].write
    BY <1>3, <2>1 DEF SlotsInv
  <2>3. CASE counter = "write"
    <3>1. loc[v][1] > n => nodes[n].write > BlockSize
      BY <1>3, <1>4, <2>2, BlocksTyped DEF ListInv, Blocks
    <3>. QED  BY <1>7, <2>2, <2>3, <3>1 DEF Written
  <2>4. CASE counter # "write"
    BY <1>1, <1>3, <1>6, <1>7, <1>16, <2>4 DEF SeenInv, n
  <2>. QED  BY <2>3, <2>4
<1>17. "read" \notin to.unread => to.read <= nodes[n].read
  BY <1>1, <1>3, <1>4, <1>6, <1>7 DEF ConsumerInv, n
<1>18. PopperInv(loc, t)'
  <2>1. ConsumerInv(t)'
    BY <1>1, <1>4, <1>9, <1>13, <1>11, <1>17, PlanKeeps DEF ConsumerInv, PopStages, Blocks
  <2>2. RetiredInv(t)'
    BY <1>1, <1>3, <1>13, <1>11 DEF RetiredInv
  <2>3. PoppedInv(loc, t)'
    BY <1>1, <1>2, <1>3, <1>9, <1>13, <1>11, <1>14, PopperRests DEF PopStages, n
  <2>4. ASSUME l = "last", NEW v \in seen[t] PROVE Written(loc[v], n, nodes[n].read)
    <3>1. Written(loc[v], n, to.write) /\ to.write <= to.read /\ to.read <= nodes[n].read
      BY <1>11, <1>16, <1>17, <2>4
    <3>2. v \in Value /\ Placed(v)
      BY <1>3, QueueTyped DEF SeenInv
    <3>3. loc[v][1] \in Nat /\ loc[v][2] \in Nat /\ BlockSize \in Nat
      BY <1>3, <3>2, BlocksTyped DEF SlotsInv, Index
    <3>. QED  BY <1>4, <1>7, <3>1, <3>3 DEF Written
  <2>5. SeenInv(loc, t)'
    <3>1. SUFFICES ASSUME NEW v \in seen[t]
                   PROVE  /\ Placed(v)'
                          /\ l = "look" /\ "write" \notin m.unread =>
                               Written(loc[v], n, m.write)
                          /\ l = "last" => Written(loc[v], n, nodes[n].read)
      BY <1>1, <1>9, <1>13, PlanKeeps DEF SeenInv, Written
    <3>2. v \in Value /\ Placed(v)
      BY <1>3, QueueTyped DEF SeenInv
    <3>. QED  BY <1>11, <1>14, <1>16, <2>4, <3>2
  <2>. QED  BY <2>1, <2>2, <2>3, <2>5 DEF PopperInv
<1>19. l \in PopStages => stage[t] \in PopStages /\ m.node = mine[t].node
  BY <1>1, <1>9 DEF PopStages, n
<1>. QED
  BY <1>1, <1>2, <1>9, <1>12, <1>14, <1>18, <1>19, LocalStep DEF Consumer

\* The cursor of a client that does nothing.
LEMMA IdleIs == Idle \in Locals /\ ~Idle.linked /\ ~Idle.empty
BY DEF Idle, Locals, Counters, NoNode

\* What a consumer that stands on the last block knows of the values it has seen.
LEMMA BehindIsRead ==
  ASSUME QueueTypes, NEW loc \in Locations, InvWith(loc), NEW t \in Consumer,
         stage[t] \in PopStages, NEW v \in seen[t],
         loc[v][1] = mine[t].node => loc[v][2] < nodes[mine[t].node].read,
         ~(loc[v][1] > mine[t].node)
  PROVE  loc[v][2] < nodes[loc[v][1]].read
<1>1. ListInv /\ SlotsInv(loc) /\ SeenInv(loc, t) /\ ConsumerInv(t)
  BY DEF InvWith, SharedInv, PopperInv
<1>2. v \in Value /\ Placed(v)
  BY <1>1, BlocksTyped, QueueTyped DEF SeenInv
<1>3. loc[v][1] \in Blocks /\ loc[v][2] \in Index
  BY <1>1, <1>2 DEF SlotsInv
<1>4. mine[t].node \in Blocks /\ mine[t].node <= read_pos
  BY <1>1 DEF ConsumerInv
<1>5. CASE loc[v][1] < mine[t].node
  <2>1. loc[v][1] < read_pos
    BY <1>3, <1>4, <1>5, BlocksTyped
  <2>2. nodes[loc[v][1]].read >= BlockSize
    BY <1>1, <1>3, <2>1 DEF ListInv
  <2>. QED  BY <1>3, <2>2, BlocksTyped DEF Index
<1>6. CASE loc[v][1] = mine[t].node
  BY <1>6
<1>. QED  BY <1>3, <1>4, <1>5, <1>6, BlocksTyped

\* Reading the next of a block that looks empty keeps the invariant.
LEMMA LastInv == ASSUME QueueInv, NEW t \in Client, Last(t) PROVE QueueInv'
<1>. PICK loc \in Locations : InvWith(loc)
  BY DEF QueueInv
<1>. QueueTypes
  BY DEF QueueInv
<1>. DEFINE n == mine[t].node
            last == IsLast(t)
            m == [mine[t] EXCEPT !.empty = last]
            l == IF last THEN "clear" ELSE "take"
<1>1. /\ stage[t] = "last" /\ mine[t] \in Locals
      /\ UNCHANGED <<plan, nodes, write_pos, read_pos, hazard, retired, freed, pushed, popped, seen>>
  BY QueueTyped DEF Last, list_, hazards, History
<1>2. t \in Consumer
  <2>1. t \notin Producer
    BY <1>1 DEF InvWith, PusherInv, ProducerInv, PushStages
  <2>. QED  BY <2>1 DEF Consumer
<1>3. /\ ConsumerInv(t) /\ RetiredInv(t) /\ PoppedInv(loc, t) /\ SeenInv(loc, t)
      /\ ListInv /\ SlotsInv(loc)
  BY <1>2 DEF InvWith, PopperInv, SharedInv
<1>4. n \in Blocks /\ nodes[n].read \in Nat /\ n <= read_pos
  BY <1>1, <1>3, BlocksTyped DEF ConsumerInv, PopStages
<1>5. last \in BOOLEAN /\ (last => n = Len(nodes) \/ nodes[n].read < BlockSize)
  <2>1. last <=> IF plan.design = "new" THEN nodes[n].next = NoNode ELSE nodes[n].read < BlockSize
    BY DEF IsLast, Node
  <2>2. last \in BOOLEAN
    <3>1. CASE plan.design = "new"
      BY <3>1 DEF IsLast
    <3>2. CASE plan.design # "new"
      BY <3>2 DEF IsLast
    <3>. QED  BY <3>1, <3>2
  <2>3. nodes[n].next = NoNode => n = Len(nodes)
    BY <1>3, <1>4, BlocksTyped DEF ListInv, Blocks, NoNode
  <2>. HIDE DEF last
  <2>. QED  BY <2>1, <2>2, <2>3
<1>6. /\ m \in Locals /\ m.node = n /\ m.linked = mine[t].linked /\ m.unread = mine[t].unread
      /\ m.empty = last
  BY <1>1, <1>5 DEF Locals
<1>7. l \in Stages /\ (l = IF last THEN "clear" ELSE "take")
  BY DEF Stages
<1>8. stage' = [stage EXCEPT ![t] = l] /\ mine' = [mine EXCEPT ![t] = m]
  BY DEF Last, To
<1>. HIDE DEF m, l, n, last
<1>9. OnlyMoves(t, l, m)
  BY <1>1, <1>8 DEF OnlyMoves, QueueTypes
<1>10. /\ stage'[t] = l /\ mine'[t] = m
       /\ \A u \in Client : u # t => stage'[u] = stage[u] /\ mine'[u] = mine[u]
  BY <1>6, <1>7, <1>9, RestIs
<1>11. \A v \in Value : Placed(v)' <=> Placed(v)
  BY <1>1, <1>2, <1>10, PlanValueIs, BlocksTyped DEF Placed, Inside
<1>12. ASSUME last, NEW v \in seen[t] PROVE loc[v][2] < nodes[loc[v][1]].read
  <2>1. Written(loc[v], n, nodes[n].read)
    BY <1>1, <1>3, <1>12 DEF SeenInv, n
  <2>2. v \in Value /\ Placed(v)
    BY <1>3, QueueTyped DEF SeenInv
  <2>3. loc[v][1] \in Blocks /\ BlockSize \in Nat /\ Len(nodes) \in Nat
    BY <1>3, <2>2, BlocksTyped DEF SlotsInv
  <2>4. ~(loc[v][1] > n)
    BY <1>4, <1>5, <1>12, <2>1, <2>3 DEF Written, Blocks
  <2>5. loc[v][1] = n => loc[v][2] < nodes[n].read
    BY <2>1 DEF Written
  <2>. QED  BY <1>1, <1>2, <2>4, <2>5, BehindIsRead DEF PopStages, n
<1>13. PopperInv(loc, t)'
  <2>1. ConsumerInv(t)'
    BY <1>1, <1>3, <1>4, <1>6, <1>7, <1>10, PlanKeeps DEF ConsumerInv, PopStages, Blocks, n
  <2>2. RetiredInv(t)'
    BY <1>1, <1>3, <1>7, <1>10 DEF RetiredInv
  <2>3. PoppedInv(loc, t)'
    BY <1>1, <1>2, <1>3, <1>6, <1>7, <1>10, <1>11, PopperRests DEF PopStages, n
  <2>4. SeenInv(loc, t)'
    BY <1>1, <1>3, <1>6, <1>7, <1>10, <1>11, <1>12, QueueTyped DEF SeenInv
  <2>. QED  BY <2>1, <2>2, <2>3, <2>4 DEF PopperInv
<1>14. l \in PopStages => stage[t] \in PopStages /\ m.node = mine[t].node
  BY <1>1, <1>6 DEF PopStages, n
<1>. QED
  BY <1>1, <1>2, <1>6, <1>7, <1>9, <1>11, <1>13, <1>14, LocalStep DEF Consumer

\* The old queue's reader that found its slot still empty keeps the invariant.
LEMMA MissedInv == ASSUME QueueInv, NEW t \in Client, Missed(t) PROVE QueueInv'
<1>. PICK loc \in Locations : InvWith(loc)
  BY DEF QueueInv
<1>. QueueTypes
  BY DEF QueueInv
<1>. DEFINE n == mine[t].node
            none == nodes[n].write <= mine[t].pos + 1
            m == IF none THEN [mine[t] EXCEPT !.empty = TRUE]
                 ELSE [mine[t] EXCEPT !.unread = {"write", "read"}]
            l == IF none THEN "clear" ELSE "look"
<1>1. /\ stage[t] = "missed" /\ mine[t] \in Locals
      /\ UNCHANGED <<plan, nodes, write_pos, read_pos, hazard, retired, freed, pushed, popped, seen>>
  BY QueueTyped DEF Missed, list_, hazards, History
<1>2. t \in Consumer
  <2>1. t \notin Producer
    BY <1>1 DEF InvWith, PusherInv, ProducerInv, PushStages
  <2>. QED  BY <2>1 DEF Consumer
<1>3. /\ ConsumerInv(t) /\ RetiredInv(t) /\ PoppedInv(loc, t) /\ SeenInv(loc, t)
      /\ ListInv /\ SlotsInv(loc)
  BY <1>2 DEF InvWith, PopperInv, SharedInv
<1>4. /\ n \in Blocks /\ nodes[n].read \in Nat /\ nodes[n].write \in Nat /\ n <= read_pos
      /\ mine[t].pos \in Nat /\ mine[t].pos + 1 <= BlockSize /\ mine[t].pos < nodes[n].read
      /\ ~mine[t].empty
  BY <1>1, <1>3, BlocksTyped DEF ConsumerInv, PopStages, Index
<1>5. /\ m \in Locals /\ m.node = n /\ m.linked = mine[t].linked
      /\ m.empty <=> none
      /\ ~none => m.unread = {"write", "read"}
  BY <1>1, <1>4 DEF Locals, Counters
<1>6. l \in Stages /\ (l = IF none THEN "clear" ELSE "look")
  BY DEF Stages
<1>7. stage' = [stage EXCEPT ![t] = l] /\ mine' = [mine EXCEPT ![t] = m]
  BY DEF Missed, To, Node
<1>8. none => nodes[n].write <= mine[t].pos + 1
  OBVIOUS
<1>. HIDE DEF m, l, n, none
<1>9. OnlyMoves(t, l, m)
  BY <1>1, <1>7 DEF OnlyMoves, QueueTypes
<1>10. /\ stage'[t] = l /\ mine'[t] = m
       /\ \A u \in Client : u # t => stage'[u] = stage[u] /\ mine'[u] = mine[u]
  BY <1>5, <1>6, <1>9, RestIs
<1>11. \A v \in Value : Placed(v)' <=> Placed(v)
  BY <1>1, <1>2, <1>10, PlanValueIs, BlocksTyped DEF Placed, Inside
<1>12. ASSUME none, NEW v \in seen[t] PROVE loc[v][2] < nodes[loc[v][1]].read
  <2>1. v \in Value /\ Placed(v)
    BY <1>3, QueueTyped DEF SeenInv
  <2>2. /\ loc[v][1] \in Blocks /\ loc[v][2] \in Nat /\ loc[v][2] < nodes[loc[v][1]].write
        /\ BlockSize \in Nat /\ Len(nodes) \in Nat
    BY <1>3, <2>1, BlocksTyped DEF SlotsInv, Index
  <2>3. n < Len(nodes) => nodes[n].write > BlockSize
    BY <1>3, <1>4 DEF ListInv
  <2>4. ~(loc[v][1] > n)
    BY <1>4, <1>8, <1>12, <2>2, <2>3 DEF Blocks
  <2>5. loc[v][1] = n => loc[v][2] < nodes[n].read
    BY <1>4, <1>8, <1>12, <2>2
  <2>. QED  BY <1>1, <1>2, <2>4, <2>5, BehindIsRead DEF PopStages, n
<1>13. PopperInv(loc, t)'
  <2>1. ConsumerInv(t)'
    BY <1>1, <1>3, <1>4, <1>5, <1>6, <1>10, PlanKeeps DEF ConsumerInv, PopStages, Blocks, n
  <2>2. RetiredInv(t)'
    BY <1>1, <1>3, <1>6, <1>10 DEF RetiredInv
  <2>3. PoppedInv(loc, t)'
    BY <1>1, <1>2, <1>3, <1>5, <1>6, <1>10, <1>11, PopperRests DEF PopStages, n
  <2>4. SeenInv(loc, t)'
    BY <1>1, <1>3, <1>5, <1>6, <1>10, <1>11, <1>12, QueueTyped DEF SeenInv
  <2>. QED  BY <2>1, <2>2, <2>3, <2>4 DEF PopperInv
<1>14. l \in PopStages => stage[t] \in PopStages /\ m.node = mine[t].node
  BY <1>1, <1>5 DEF PopStages, n
<1>. QED
  BY <1>1, <1>2, <1>5, <1>6, <1>9, <1>11, <1>13, <1>14, LocalStep DEF Consumer

\* Dropping the hazard pointer before the old block is retired keeps the invariant.
LEMMA UnguardInv == ASSUME QueueInv, NEW t \in Client, Unguard(t) PROVE QueueInv'
<1>. PICK loc \in Locations : InvWith(loc)
  BY DEF QueueInv
<1>. QueueTypes
  BY DEF QueueInv
<1>. DEFINE m == [Idle EXCEPT !.ptr = 1, !.asked = 1]
<1>1. /\ stage[t] = "unguard" /\ mine[t] \in Locals /\ retired[t] \in Seq(Nat)
      /\ mine[t].node \in Nat
      /\ UNCHANGED <<plan, nodes, write_pos, read_pos, freed, pushed, popped, seen>>
  BY QueueTyped DEF Unguard, list_, History
<1>2. t \in Consumer
  <2>1. t \notin Producer
    BY <1>1 DEF InvWith, PusherInv, ProducerInv, PushStages
  <2>. QED  BY <2>1 DEF Consumer
<1>3. /\ ConsumerInv(t) /\ RetiredInv(t) /\ PoppedInv(loc, t) /\ SeenInv(loc, t)
      /\ ListInv /\ SlotsInv(loc)
  BY <1>2 DEF InvWith, PopperInv, SharedInv
<1>4. m \in Locals /\ "scan" \in Stages /\ ~m.empty /\ ~m.linked /\ m.ptr = 1 /\ m.asked = 1
  BY DEF Locals, Idle, Counters, NoNode, Stages
<1>. HIDE DEF m
<1>5. retired'[t] = Append(retired[t], mine[t].node) /\ retired'[t] \in Seq(Nat)
  BY <1>1 DEF Unguard, QueueTypes
<1>6. OnlyMoves(t, "scan", m)
  BY <1>1, <1>5 DEF Unguard, To, OnlyMoves, QueueTypes, NoNode, m
<1>7. /\ stage'[t] = "scan" /\ mine'[t] = m
      /\ \A u \in Client : u # t => stage'[u] = stage[u] /\ mine'[u] = mine[u]
  BY <1>4, <1>6, RestIs
<1>8. \A v \in Value : Placed(v)' <=> Placed(v)
  BY <1>1, <1>2, <1>7, PlanValueIs, BlocksTyped DEF Placed, Inside
<1>9. PopperInv(loc, t)'
  <2>1. ConsumerInv(t)'
    BY <1>4, <1>7 DEF ConsumerInv, PopStages
  <2>2. RetiredInv(t)'
    <3>1. 1 \in DOMAIN retired'[t] /\ 1 \in 1..Len(plan'.pushes)
      BY <1>1, <1>5, QueueTyped
    <3>2. \A i \in DOMAIN retired'[t] : retired'[t][i] < read_pos'
      BY <1>1, <1>3, <1>5 DEF RetiredInv, ConsumerInv
    <3>3. \A u \in Consumer' : ~(u < 1)
      BY <1>1, PlanKeeps, QueueTyped, BlocksTyped
    <3>. QED  BY <1>4, <1>7, <3>1, <3>2, <3>3 DEF RetiredInv
  <2>3. PoppedInv(loc, t)'
    BY <1>1, <1>2, <1>3, <1>7, <1>8, PopperRests DEF PopStages
  <2>4. SeenInv(loc, t)'
    BY <1>1, <1>3, <1>4, <1>7, <1>8, QueueTyped DEF SeenInv
  <2>. QED  BY <2>1, <2>2, <2>3, <2>4 DEF PopperInv
<1>. QED
  BY <1>1, <1>2, <1>4, <1>6, <1>8, <1>9, LocalStep DEF Consumer, PopStages

\* The end of a push or a pop keeps the invariant: the value just pushed counts as pushed.
LEMMA ClearInv == ASSUME QueueInv, NEW t \in Client, Clear(t) PROVE QueueInv'
<1>. PICK loc \in Locations : InvWith(loc)
  BY DEF QueueInv
<1>. QueueTypes
  BY DEF QueueInv
<1>1. /\ stage[t] = "clear" /\ mine[t] \in Locals /\ pushed[t] \in Nat
      /\ UNCHANGED <<plan, nodes, write_pos, read_pos, retired, freed, popped>>
  BY QueueTyped DEF Clear, list_
<1>2. "idle" \in Stages
  BY DEF Stages
<1>3. OnlyMoves(t, "idle", Idle)
  <2>1. pushed' \in [Client -> Nat] /\ \A u \in Client : u # t => pushed'[u] = pushed[u]
    BY <1>1 DEF Clear, QueueTypes
  <2>2. seen' \in [Client -> SUBSET Value] /\ \A u \in Client : u # t => seen'[u] = seen[u]
    BY DEF Clear, QueueTypes
  <2>. QED  BY <1>1, <2>1, <2>2 DEF Clear, To, OnlyMoves, QueueTypes, NoNode
<1>4. /\ stage'[t] = "idle" /\ mine'[t] = Idle
      /\ \A u \in Client : u # t => stage'[u] = stage[u] /\ mine'[u] = mine[u]
  BY <1>2, <1>3, RestIs, IdleIs
<1>5. /\ \A u \in Client : u # t => pushed'[u] = pushed[u]
      /\ t \in Producer => pushed'[t] = pushed[t] + 1
  BY <1>1 DEF Clear, QueueTypes
<1>6. \A v \in Value : Placed(v)' <=> Placed(v)
  <2>. SUFFICES ASSUME NEW v \in Value PROVE Placed(v)' <=> Placed(v)
    OBVIOUS
  <2>1. v[1] \in Client /\ v[1] \in Producer /\ v[2] \in Nat
    BY PlanValueIs
  <2>2. CASE v[1] = t
    BY <1>1, <1>4, <1>5, <2>1, <2>2, IdleIs DEF Placed, Inside
  <2>3. CASE v[1] # t
    BY <1>4, <1>5, <2>1, <2>3 DEF Placed, Inside
  <2>. QED  BY <2>2, <2>3
<1>7. ASSUME t \in Producer PROVE PusherInv(loc, t)'
  <2>1. ProducerInv(t) /\ PushedInv(loc, t) /\ SlotsInv(loc)
    BY <1>7 DEF InvWith, PusherInv, SharedInv
  <2>2. ProducerInv(t)'
    BY <1>4, IdleIs DEF ProducerInv, PushStages
  <2>3. PushedInv(loc, t)'
    BY <1>1, <1>4, <1>6, <1>7, <2>1, IdleIs, PusherRests DEF PushStages
  <2>. QED  BY <2>2, <2>3 DEF PusherInv
<1>8. ASSUME t \in Consumer PROVE PopperInv(loc, t)'
  <2>1. ConsumerInv(t) /\ RetiredInv(t) /\ PoppedInv(loc, t) /\ SlotsInv(loc)
    BY <1>8 DEF InvWith, PopperInv, SharedInv
  <2>2. ConsumerInv(t)'
    BY <1>4, IdleIs DEF ConsumerInv, PopStages
  <2>3. RetiredInv(t)'
    BY <1>1, <1>4, <2>1 DEF RetiredInv
  <2>4. PoppedInv(loc, t)'
    BY <1>1, <1>4, <1>6, <1>8, <2>1, PopperRests DEF PopStages
  <2>5. seen'[t] = {}
    BY <1>8 DEF Clear, QueueTypes
  <2>. QED  BY <2>2, <2>3, <2>4, <2>5 DEF PopperInv, SeenInv
<1>. QED
  BY <1>1, <1>2, <1>3, <1>6, <1>7, <1>8, IdleIs, LocalStep DEF PopStages

\* What is freed stays behind read_pos and out of every reader's hands.
LEMMA FreedKeeps ==
  ASSUME QueueTypes, QueueTypes', NEW t \in Client, StepOf(t), freed' = freed, FreedInv
  PROVE  FreedInv'
<1>1. Consumer' = Consumer /\ Consumer \subseteq Client
  BY PlanKeeps, BlocksTyped DEF StepOf, OthersRest
<1>2. read_pos \in Nat /\ read_pos' \in Nat /\ read_pos <= read_pos' /\ read_pos \notin freed
  BY BlocksTyped, BlocksTypedNext DEF StepOf, Grows, FreedInv
<1>3. \A b \in freed : b \in Nat /\ b < read_pos'
  BY <1>2 DEF FreedInv, QueueTypes
<1>4. ASSUME NEW u \in Consumer, stage'[u] \in PopStages PROVE mine'[u].node \notin freed
  <2>1. CASE u = t
    BY <1>2, <1>4, <2>1 DEF FreedInv, StepOf, Enters
  <2>2. CASE u # t
    BY <1>1, <1>4, <2>2 DEF FreedInv, StepOf, OthersRest
  <2>. QED  BY <2>1, <2>2
<1>. QED  BY <1>1, <1>3, <1>4 DEF FreedInv

\* No value is popped twice in a step that pops none.
LEMMA OnceKeeps == ASSUME OnceInv, plan' = plan, popped' = popped PROVE OnceInv'
BY PlanKeeps DEF OnceInv

\* A claimed slot stays taken, or its reader stays about to take it.
LEMMA ClaimsKeeps ==
  ASSUME QueueTypes, NEW t \in Client, StepOf(t), stage[t] # "get", ClaimsInv,
         \A b \in Blocks', i \in Index : i < nodes'[b].read =>
            \/ b \in Blocks /\ i < nodes[b].read
            \/ t \in Consumer /\ Gets(t, b, i)'
  PROVE  ClaimsInv'
<1>1. Consumer' = Consumer /\ Index' = Index /\ Consumer \subseteq Client
  BY PlanKeeps, BlocksTyped DEF StepOf, OthersRest
<1>2. \A u \in Consumer : \A b, i : Gets(u, b, i) => Gets(u, b, i)'
  BY <1>1 DEF Gets, StepOf, OthersRest
<1>3. \A b \in Blocks, i \in Index : nodes[b].data[i] = Taken => nodes'[b].data[i] = Taken
  BY DEF StepOf, Grows
<1>. QED  BY <1>1, <1>2, <1>3 DEF ClaimsInv

\* The set of popped values depends on what each client popped.
LEMMA PoppedKeeps == ASSUME plan' = plan, popped' = popped PROVE Popped' = Popped
BY PlanKeeps DEF Popped

\* A thread gives up what it has reached and loads the position again.
LEMMA StartsOverInv ==
  ASSUME QueueInv, NEW t \in Client, StartOver(t), stage[t] \in {"set", "link", "swing", "scan"},
         t \in Producer => ~mine[t].linked,
         UNCHANGED <<plan, nodes, write_pos, read_pos, freed, popped, pushed, hazard, seen>>,
         retired' \in [Client -> Seq(Nat)],
         \A u \in Client : u # t => retired'[u] = retired[u],
         t \in Consumer => \A i \in DOMAIN retired'[t] : retired'[t][i] < read_pos
  PROVE  QueueInv'
<1>. PICK loc \in Locations : InvWith(loc)
  BY DEF QueueInv
<1>. QueueTypes
  BY DEF QueueInv
<1>1. "load" \in Stages /\ OnlyMoves(t, "load", Idle)
  BY DEF Stages, StartOver, To, OnlyMoves, QueueTypes
<1>2. /\ stage'[t] = "load" /\ mine'[t] = Idle
      /\ \A u \in Client : u # t => stage'[u] = stage[u] /\ mine'[u] = mine[u]
  BY <1>1, RestIs, IdleIs
<1>3. \A v \in Value : Placed(v)' <=> Placed(v)
  BY <1>2, PlanValueIs, IdleIs DEF Placed, Inside
<1>4. ASSUME t \in Producer PROVE PusherInv(loc, t)'
  <2>1. ProducerInv(t) /\ PushedInv(loc, t) /\ SlotsInv(loc)
    BY <1>4 DEF InvWith, PusherInv, SharedInv
  <2>2. ProducerInv(t)'
    BY <1>2, <2>1, IdleIs DEF ProducerInv, PushStages
  <2>3. PushedInv(loc, t)'
    BY <1>2, <1>3, <1>4, <2>1, IdleIs, PusherRests DEF PushStages
  <2>. QED  BY <2>2, <2>3 DEF PusherInv
<1>5. ASSUME t \in Consumer PROVE PopperInv(loc, t)'
  <2>1. ConsumerInv(t) /\ RetiredInv(t) /\ PoppedInv(loc, t) /\ SeenInv(loc, t) /\ SlotsInv(loc)
    BY <1>5 DEF InvWith, PopperInv, SharedInv
  <2>2. ConsumerInv(t)'
    BY <1>2, IdleIs DEF ConsumerInv, PopStages, Idle
  <2>3. RetiredInv(t)'
    BY <1>2, <1>5 DEF RetiredInv
  <2>4. PoppedInv(loc, t)'
    BY <1>2, <1>3, <1>5, <2>1, PopperRests DEF PopStages
  <2>5. SeenInv(loc, t)'
    BY <1>2, <1>3, <2>1, IdleIs, QueueTyped DEF SeenInv
  <2>. QED  BY <2>2, <2>3, <2>4, <2>5 DEF PopperInv
<1>. QED
  BY <1>1, <1>3, <1>4, <1>5, IdleIs, LocalStep DEF PopStages

\* A step that changes one block.
LEMMA BlockStep ==
  ASSUME QueueTypes, plan' = plan, NEW n \in Blocks, NEW block \in Block,
         nodes' = [nodes EXCEPT ![n] = block]
  PROVE  /\ Len(nodes') = Len(nodes) /\ Blocks' = Blocks /\ Block' = Block
         /\ nodes' \in Seq(Block) /\ nodes'[n] = block
         /\ \A b \in Blocks : b # n => nodes'[b] = nodes[b]
<1>1. nodes \in Seq(Block)
  BY DEF QueueTypes
<1>2. nodes' \in Seq(Block) /\ Len(nodes') = Len(nodes)
  BY <1>1 DEF Blocks
<1>3. Blocks' = Blocks
  BY <1>2 DEF Blocks
<1>4. Block' = Block
  BY PlanKeeps DEF Block
<1>. QED  BY <1>1, <1>2, <1>3, <1>4 DEF Blocks

\* Every placed value stays in its slot in a step that touches no slot's data.
LEMMA SlotsKeeps ==
  ASSUME QueueTypes, NEW loc, SlotsInv(loc), plan' = plan, popped' = popped, Blocks' = Blocks,
         \A v \in Value : Placed(v)' <=> Placed(v),
         \A b \in Blocks : /\ nodes'[b].data = nodes[b].data
                           /\ nodes[b].write \in Nat /\ nodes'[b].write \in Nat
                           /\ nodes[b].write <= nodes'[b].write
  PROVE  SlotsInv(loc)'
<1>1. Value' = Value /\ Index' = Index /\ Popped' = Popped /\ BlockSize \in Nat
  BY PlanKeeps, PoppedKeeps, BlocksTyped
<1>2. ASSUME NEW v \in Value, Placed(v)
      PROVE  /\ loc[v][1] \in Blocks /\ loc[v][2] \in Index
             /\ loc[v][2] < nodes'[loc[v][1]].write
             /\ nodes'[loc[v][1]].data[loc[v][2]] \in {v, Taken}
             /\ nodes'[loc[v][1]].data[loc[v][2]] = Taken => v \in Popped
  <2>1. /\ loc[v][1] \in Blocks /\ loc[v][2] \in Index
        /\ loc[v][2] < nodes[loc[v][1]].write
        /\ nodes[loc[v][1]].data[loc[v][2]] \in {v, Taken}
        /\ nodes[loc[v][1]].data[loc[v][2]] = Taken => v \in Popped
    BY <1>2 DEF SlotsInv
  <2>2. loc[v][2] \in Nat
    BY <1>1, <2>1 DEF Index
  <2>3. nodes'[loc[v][1]].data = nodes[loc[v][1]].data
    BY <2>1
  <2>4. loc[v][2] < nodes'[loc[v][1]].write
    BY <2>1, <2>2
  <2>. QED  BY <2>1, <2>3, <2>4
<1>3. ASSUME NEW b \in Blocks, NEW i \in Index, NEW v \in Value, nodes'[b].data[i] = v
      PROVE  Placed(v)' /\ loc[v] = <<b, i>>
  <2>1. nodes[b].data[i] = v
    BY <1>3
  <2>. QED  BY <2>1 DEF SlotsInv
<1>. QED  BY <1>1, <1>2, <1>3 DEF SlotsInv

\* fetch_add of write_pos in a push keeps the invariant.
LEMMA ClaimInv == ASSUME QueueInv, NEW t \in Client, Claim(t) PROVE QueueInv'
<1>. PICK loc \in Locations : InvWith(loc)
  BY DEF QueueInv
<1>. QueueTypes
  BY DEF QueueInv
<1>. DEFINE n == mine[t].node
            w == nodes[n].write
            m == [mine[t] EXCEPT !.pos = w]
            l == IF w >= BlockSize THEN "next" ELSE "set"
            block == [nodes[n] EXCEPT !.write = w + 1]
<1>1. /\ stage[t] = "claim" /\ mine[t] \in Locals
      /\ UNCHANGED <<plan, write_pos, read_pos, hazard, retired, freed, pushed, popped, seen>>
      /\ BlockSize \in Nat /\ write_pos \in Nat /\ read_pos \in Nat
  BY QueueTyped, BlocksTyped DEF Claim, hazards, History
<1>2. t \in Producer /\ t \notin Consumer
  <2>1. t \notin Consumer
    BY <1>1 DEF InvWith, PopperInv, ConsumerInv, PopStages
  <2>. QED  BY <2>1, BlocksTyped
<1>3. /\ ProducerInv(t) /\ PushedInv(loc, t)
      /\ ListInv /\ ClaimsInv /\ FreedInv /\ OnceInv /\ SlotsInv(loc)
  BY <1>2 DEF InvWith, PusherInv, SharedInv
<1>4. n \in Blocks /\ n \in Nat /\ w \in Nat /\ n <= write_pos /\ ~mine[t].linked
  BY <1>1, <1>3, BlocksTyped DEF ProducerInv, PushStages
<1>5. m \in Locals /\ m.node = n /\ m.linked = mine[t].linked /\ m.pos = w
  BY <1>1, <1>4 DEF Locals
<1>6. l \in Stages /\ (l = IF w >= BlockSize THEN "next" ELSE "set")
  BY DEF Stages
<1>7. /\ block \in Block /\ block.write = w + 1 /\ block.read = nodes[n].read
      /\ block.next = nodes[n].next /\ block.data = nodes[n].data
  BY <1>4, BlocksTyped DEF Block
<1>8. /\ stage' = [stage EXCEPT ![t] = l] /\ mine' = [mine EXCEPT ![t] = m]
      /\ nodes' = [nodes EXCEPT ![n] = block]
  BY DEF Claim, To, Node
<1>. HIDE DEF m, l, block
<1>w. w = nodes[n].write /\ n = mine[t].node
  OBVIOUS
<1>. HIDE DEF w, n
<1>9. /\ stage'[t] = l /\ mine'[t] = m
      /\ stage' \in [Client -> Stages] /\ mine' \in [Client -> Locals]
      /\ \A u \in Client : u # t => stage'[u] = stage[u] /\ mine'[u] = mine[u]
  BY <1>5, <1>6, <1>8 DEF QueueTypes
<1>10. /\ Len(nodes') = Len(nodes) /\ Blocks' = Blocks /\ Block' = Block
       /\ nodes' \in Seq(Block) /\ nodes'[n] = block
       /\ \A b \in Blocks : b # n => nodes'[b] = nodes[b]
  BY <1>1, <1>4, <1>7, <1>8, BlockStep
<1>11. /\ Client' = Client /\ Producer' = Producer /\ Consumer' = Consumer /\ Value' = Value
       /\ BlockSize' = BlockSize /\ Index' = Index
  BY <1>1, PlanKeeps
<1>12. QueueTypes'
  BY <1>1, <1>9, <1>10, <1>11 DEF QueueTypes
<1>13. \A b \in Blocks :
         /\ nodes'[b].next = nodes[b].next /\ nodes'[b].data = nodes[b].data
         /\ nodes'[b].read = nodes[b].read /\ nodes[b].read \in Nat
         /\ nodes[b].write <= nodes'[b].write
         /\ nodes[b].write \in Nat /\ nodes'[b].write \in Nat
  <2>. TAKE b \in Blocks
  <2>1. CASE b = n
    <3>1. nodes[n].read \in Nat /\ nodes[n].write \in Nat
      BY <1>4, BlocksTyped
    <3>2. /\ nodes'[n].write = w + 1 /\ nodes'[n].read = nodes[n].read
          /\ nodes'[n].next = nodes[n].next /\ nodes'[n].data = nodes[n].data
      BY <1>7, <1>10
    <3>. QED  BY <1>w, <2>1, <3>1, <3>2
  <2>2. CASE b # n
    BY <1>10, <2>2, BlocksTyped
  <2>. QED  BY <2>1, <2>2
<1>14. \A v \in Value : Placed(v)' <=> Placed(v)
  BY <1>1, <1>5, <1>6, <1>9, PlanValueIs DEF Placed, Inside
<1>15. StepOf(t)
  <2>1. OthersRest(t)
    BY <1>1, <1>9 DEF OthersRest
  <2>2. Grows
    BY <1>1, <1>10, <1>13, BlocksTyped DEF Grows
  <2>. QED  BY <1>2, <1>14, <2>1, <2>2 DEF StepOf, StaysPlaced, Enters
<1>16. SharedInv(loc)'
  <2>1. ListInv'
    BY <1>1, <1>3, <1>10, <1>11, <1>13 DEF ListInv
  <2>2. ClaimsInv'
    BY <1>1, <1>3, <1>10, <1>11, <1>13, <1>15, ClaimsKeeps
  <2>3. FreedInv'
    BY <1>1, <1>3, <1>12, <1>15, FreedKeeps
  <2>4. OnceInv'
    BY <1>1, <1>3, OnceKeeps
  <2>7. SlotsInv(loc)'
    BY <1>1, <1>3, <1>10, <1>13, <1>14, SlotsKeeps
  <2>. QED  BY <2>1, <2>2, <2>3, <2>4, <2>7 DEF SharedInv
<1>17. PusherInv(loc, t)'
  <2>1. ProducerInv(t)'
    <3>1. /\ l \in {"next", "set"} /\ (l = "next" => w >= BlockSize)
          /\ (l = "set" => w < BlockSize)
      BY <1>1, <1>4, <1>6
    <3>2. nodes'[n].write = w + 1
      BY <1>7, <1>10
    <3>3. pushed[t] < plan.pushes[t]
      BY <1>1, <1>3 DEF ProducerInv
    <3>4. l = "set" => w \in Index /\ w < nodes'[n].write
      BY <1>1, <1>4, <3>1, <3>2 DEF Index
    <3>5. l = "next" => nodes'[n].write > BlockSize
      BY <1>1, <1>4, <3>1, <3>2
    <3>. QED  BY <1>1, <1>4, <1>5, <1>9, <1>10, <1>11, <3>1, <3>3, <3>4, <3>5
              DEF ProducerInv, PushStages
  <2>2. ASSUME NEW v \in Value, v[1] = t, Placed(v), w < BlockSize
        PROVE  Precedes(loc[v], <<n, w>>)
    <3>1. loc[v][1] <= n
      BY <1>1, <1>3, <1>4, <1>w, <2>2 DEF PushedInv, PushStages
    <3>2. loc[v][1] = n => loc[v][2] < w
      BY <1>3, <1>w, <2>2 DEF SlotsInv
    <3>3. loc[v][1] \in Nat
      BY <1>3, <2>2, BlocksTyped DEF SlotsInv
    <3>. QED  BY <1>4, <3>1, <3>2, <3>3 DEF Precedes
  <2>3. PushedInv(loc, t)'
    BY <1>1, <1>3, <1>4, <1>5, <1>6, <1>9, <1>11, <1>14, <1>w, <2>2 DEF PushedInv, PushStages
  <2>. QED  BY <2>1, <2>3 DEF PusherInv
<1>. QED
  BY <1>2, <1>12, <1>15, <1>16, <1>17, QueueStepOf

\* The exchange of the queue's write_pos for the next block keeps the invariant.
LEMMA AdvanceWriteInv == ASSUME QueueInv, NEW t \in Client, AdvanceWrite(t) PROVE QueueInv'
<1>. PICK loc \in Locations : InvWith(loc)
  BY DEF QueueInv
<1>. QueueTypes
  BY DEF QueueInv
<1>. DEFINE n == mine[t].node
            linked == mine[t].linked
            m == IF linked THEN mine[t] ELSE Idle
            l == IF linked THEN "clear" ELSE "load"
<1>1. /\ stage[t] = "advance" /\ mine[t] \in Locals
      /\ UNCHANGED <<plan, nodes, read_pos, hazard, retired, freed, pushed, popped, seen>>
      /\ BlockSize \in Nat /\ write_pos \in Nat /\ read_pos \in Nat
  BY QueueTyped, BlocksTyped DEF AdvanceWrite, hazards, History
<1>2. t \in Producer /\ t \notin Consumer
  <2>1. t \notin Consumer
    BY <1>1 DEF InvWith, PopperInv, ConsumerInv, PopStages
  <2>. QED  BY <2>1, BlocksTyped
<1>3. /\ ProducerInv(t) /\ PushedInv(loc, t)
      /\ ListInv /\ ClaimsInv /\ FreedInv /\ OnceInv /\ SlotsInv(loc)
  BY <1>2 DEF InvWith, PusherInv, SharedInv
<1>4. n \in Blocks /\ n \in Nat /\ n <= write_pos /\ mine[t].next = n + 1 /\ n + 1 \in Blocks
  BY <1>1, <1>3, BlocksTyped DEF ProducerInv, PushStages
<1>5. /\ m \in Locals /\ l \in Stages /\ m.linked = linked
      /\ (l = IF linked THEN "clear" ELSE "load")
  <2>1. mine[t].linked \in BOOLEAN
    BY QueueTyped
  <2>2. CASE linked
    BY <1>1, <2>1, <2>2 DEF Stages
  <2>3. CASE ~linked
    BY <2>1, <2>3, IdleIs DEF Stages, Idle
  <2>. QED  BY <2>2, <2>3
<1>6. /\ stage' = [stage EXCEPT ![t] = l] /\ mine' = [mine EXCEPT ![t] = m]
  BY DEF AdvanceWrite, Advanced, To, StartOver, QueueTypes
<1>7. write_pos' = (IF write_pos = n THEN n + 1 ELSE write_pos) /\ write_pos' \in Blocks
      /\ write_pos' \in Nat /\ write_pos <= write_pos' /\ n + 1 <= write_pos'
  BY <1>1, <1>4 DEF AdvanceWrite, QueueTypes
<1>. HIDE DEF m, l
<1>8. /\ stage'[t] = l /\ mine'[t] = m
      /\ stage' \in [Client -> Stages] /\ mine' \in [Client -> Locals]
      /\ \A u \in Client : u # t => stage'[u] = stage[u] /\ mine'[u] = mine[u]
  BY <1>5, <1>6 DEF QueueTypes
<1>9. /\ Client' = Client /\ Producer' = Producer /\ Consumer' = Consumer /\ Value' = Value
      /\ BlockSize' = BlockSize /\ Index' = Index /\ Blocks' = Blocks /\ Block' = Block
  BY <1>1, PlanKeeps DEF Blocks, Block
<1>10. QueueTypes'
  BY <1>1, <1>7, <1>8, <1>9 DEF QueueTypes
<1>11. \A v \in Value : Placed(v)' <=> Placed(v)
  BY <1>1, <1>5, <1>8, PlanValueIs DEF Placed, Inside
<1>12. StepOf(t)
  <2>1. OthersRest(t)
    BY <1>1, <1>8 DEF OthersRest
  <2>2. Grows
    BY <1>1, <1>7, BlocksTyped DEF Grows
  <2>. QED  BY <1>2, <1>11, <2>1, <2>2 DEF StepOf, StaysPlaced, Enters
<1>13. SharedInv(loc)'
  <2>1. ListInv'
    BY <1>1, <1>3, <1>9 DEF ListInv
  <2>2. ClaimsInv'
    BY <1>1, <1>3, <1>9, <1>12, ClaimsKeeps
  <2>3. FreedInv'
    BY <1>1, <1>3, <1>10, <1>12, FreedKeeps
  <2>4. OnceInv'
    BY <1>1, <1>3, OnceKeeps
  <2>5. SlotsInv(loc)'
    BY <1>1, <1>3, <1>9, <1>11, PoppedKeeps DEF SlotsInv
  <2>. QED  BY <2>1, <2>2, <2>3, <2>4, <2>5 DEF SharedInv
<1>14. PusherInv(loc, t)'
  <2>1. ProducerInv(t)'
    BY <1>1, <1>3, <1>5, <1>8 DEF ProducerInv, PushStages
  <2>2. ASSUME NEW v \in Value, v[1] = t, Placed(v)
        PROVE  loc[v][1] <= write_pos' /\ (linked => loc[v][1] <= m.node + 1)
    <3>1. loc[v][1] \in Nat
      BY <1>3, <2>2, BlocksTyped DEF SlotsInv
    <3>2. linked => m = mine[t] /\ loc[v][1] <= n + 1
      BY <1>3, <2>2 DEF PushedInv, m
    <3>3. ~linked => loc[v][1] <= write_pos
      BY <1>3, <2>2 DEF PushedInv
    <3>. QED  BY <1>1, <1>4, <1>7, <3>1, <3>2, <3>3
  <2>3. PushedInv(loc, t)'
    BY <1>3, <1>5, <1>8, <1>9, <1>11, <2>2 DEF PushedInv, PushStages
  <2>. QED  BY <2>1, <2>3 DEF PusherInv
<1>. QED
  BY <1>2, <1>10, <1>12, <1>13, <1>14, QueueStepOf

\* fetch_add of read_pos in a pop keeps the invariant: a slot has one reader.
LEMMA TakeSlotInv == ASSUME QueueInv, NEW t \in Client, TakeSlot(t) PROVE QueueInv'
<1>. PICK loc \in Locations : InvWith(loc)
  BY DEF QueueInv
<1>. QueueTypes
  BY DEF QueueInv
<1>. DEFINE n == mine[t].node
            r == nodes[n].read
            rr == IF plan.design = "old" /\ r > BlockSize THEN r ELSE r + 1
            m == [mine[t] EXCEPT !.pos = r]
            l == IF r >= BlockSize THEN "next" ELSE "get"
            block == [nodes[n] EXCEPT !.read = rr]
<1>1. /\ stage[t] = "take" /\ mine[t] \in Locals
      /\ UNCHANGED <<plan, write_pos, read_pos, hazard, retired, freed, pushed, popped, seen>>
      /\ BlockSize \in Nat /\ write_pos \in Nat /\ read_pos \in Nat
  BY QueueTyped, BlocksTyped DEF TakeSlot, hazards, History
<1>2. t \in Consumer /\ t \notin Producer
  <2>1. t \notin Producer
    BY <1>1 DEF InvWith, PusherInv, ProducerInv, PushStages
  <2>. QED  BY <2>1 DEF Consumer
<1>3. /\ ConsumerInv(t) /\ RetiredInv(t) /\ PoppedInv(loc, t) /\ SeenInv(loc, t)
      /\ ListInv /\ ClaimsInv /\ FreedInv /\ OnceInv /\ SlotsInv(loc)
  BY <1>2 DEF InvWith, PopperInv, SharedInv
<1>4. n \in Blocks /\ n \in Nat /\ r \in Nat /\ n <= read_pos /\ hazard[t] = n /\ ~mine[t].empty
  BY <1>1, <1>3, BlocksTyped DEF ConsumerInv, PopStages
<1>5. m \in Locals /\ m.node = n /\ m.linked = mine[t].linked /\ m.pos = r
      /\ m.empty = mine[t].empty
  BY <1>1, <1>4 DEF Locals
<1>6. /\ l \in Stages /\ l \in {"next", "get"} /\ (l = "next" => r >= BlockSize)
      /\ (l = "get" => r < BlockSize)
  BY <1>1, <1>4 DEF Stages
<1>7. rr \in Nat /\ r <= rr /\ (r < BlockSize => rr = r + 1)
  BY <1>1, <1>4
<1>8. /\ block \in Block /\ block.read = rr /\ block.write = nodes[n].write
      /\ block.next = nodes[n].next /\ block.data = nodes[n].data
  <2>. HIDE DEF rr
  <2>. QED  BY <1>4, <1>7, BlocksTyped DEF Block
<1>9. /\ stage' = [stage EXCEPT ![t] = l] /\ mine' = [mine EXCEPT ![t] = m]
      /\ nodes' = [nodes EXCEPT ![n] = block]
  BY DEF TakeSlot, To, Node
<1>10. r = nodes[n].read /\ n = mine[t].node
  OBVIOUS
<1>. HIDE DEF m, l, block, n, r, rr
<1>11. /\ stage'[t] = l /\ mine'[t] = m
       /\ stage' \in [Client -> Stages] /\ mine' \in [Client -> Locals]
       /\ \A u \in Client : u # t => stage'[u] = stage[u] /\ mine'[u] = mine[u]
  BY <1>5, <1>6, <1>9 DEF QueueTypes
<1>12. /\ Len(nodes') = Len(nodes) /\ Blocks' = Blocks /\ Block' = Block
       /\ nodes' \in Seq(Block) /\ nodes'[n] = block
       /\ \A b \in Blocks : b # n => nodes'[b] = nodes[b]
  BY <1>1, <1>4, <1>8, <1>9, BlockStep
<1>13. /\ Client' = Client /\ Producer' = Producer /\ Consumer' = Consumer /\ Value' = Value
       /\ BlockSize' = BlockSize /\ Index' = Index
  BY <1>1, PlanKeeps
<1>14. QueueTypes'
  BY <1>1, <1>11, <1>12, <1>13 DEF QueueTypes
<1>15. /\ nodes'[n].read = rr /\ nodes'[n].write = nodes[n].write
       /\ nodes'[n].next = nodes[n].next /\ nodes'[n].data = nodes[n].data
  BY <1>8, <1>12
<1>16. \A b \in Blocks :
         /\ nodes'[b].next = nodes[b].next /\ nodes'[b].data = nodes[b].data
         /\ nodes'[b].write = nodes[b].write /\ nodes[b].write \in Nat
         /\ nodes[b].read <= nodes'[b].read
         /\ nodes[b].read \in Nat /\ nodes'[b].read \in Nat
  <2>. TAKE b \in Blocks
  <2>1. CASE b = n
    <3>1. nodes[n].write \in Nat
      BY <1>4, BlocksTyped
    <3>. QED  BY <1>4, <1>7, <1>10, <1>15, <2>1, <3>1
  <2>2. CASE b # n
    BY <1>12, <2>2, BlocksTyped
  <2>. QED  BY <2>1, <2>2
<1>17. \A v \in Value : Placed(v)' <=> Placed(v)
  BY <1>1, <1>2, <1>11, PlanValueIs DEF Placed, Inside
<1>18. StepOf(t)
  <2>1. OthersRest(t)
    BY <1>1, <1>11 DEF OthersRest
  <2>2. Grows
    BY <1>1, <1>12, <1>16, BlocksTyped DEF Grows
  <2>. QED  BY <1>1, <1>5, <1>10, <1>11, <1>17, <2>1, <2>2 DEF StepOf, StaysPlaced, Enters, PopStages
<1>19. SharedInv(loc)'
  <2>1. ListInv'
    BY <1>1, <1>3, <1>12, <1>13, <1>16 DEF ListInv
  <2>2. ClaimsInv'
    <3>1. ASSUME NEW b \in Blocks, NEW i \in Index, i < nodes'[b].read, ~(i < nodes[b].read)
          PROVE  Gets(t, b, i)'
      <4>1. i \in Nat /\ i < BlockSize
        BY <1>1, <3>1 DEF Index
      <4>2. b = n
        BY <1>12, <3>1
      <4>3. i >= r /\ i < rr
        BY <1>4, <1>10, <1>15, <3>1, <4>1, <4>2
      <4>4. i = r /\ r < BlockSize
        BY <1>1, <1>4, <1>7, <4>1, <4>3
      <4>. QED  BY <1>5, <1>6, <1>11, <4>2, <4>4, <1>1, <1>4 DEF Gets
    <3>. QED  BY <1>1, <1>2, <1>3, <1>12, <1>18, <3>1, ClaimsKeeps
  <2>3. FreedInv'
    BY <1>1, <1>3, <1>14, <1>18, FreedKeeps
  <2>4. OnceInv'
    BY <1>1, <1>3, OnceKeeps
  <2>5. SlotsInv(loc)'
    BY <1>1, <1>3, <1>12, <1>16, <1>17, SlotsKeeps
  <2>. QED  BY <2>1, <2>2, <2>3, <2>4, <2>5 DEF SharedInv
<1>20. PopperInv(loc, t)'
  <2>1. ConsumerInv(t)'
    <3>1. l = "get" => r \in Index /\ r < nodes'[n].read
      BY <1>1, <1>4, <1>6, <1>7, <1>15 DEF Index
    <3>2. l = "next" => nodes'[n].read >= BlockSize
      BY <1>1, <1>4, <1>6, <1>7, <1>15
    <3>. QED  BY <1>1, <1>4, <1>5, <1>6, <1>11, <1>12, <1>13, <3>1, <3>2 DEF ConsumerInv, PopStages
  <2>2. RetiredInv(t)'
    BY <1>1, <1>3, <1>6, <1>11 DEF RetiredInv
  <2>3. ASSUME NEW i \in DOMAIN popped[t], NEW v, v = popped[t][i]
        PROVE  /\ v \in Value /\ Placed(v) /\ loc[v][1] \in Blocks /\ loc[v][2] \in Index
               /\ loc[v][1] <= n /\ (loc[v][1] = n => loc[v][2] < r)
    BY <1>1, <1>3, <1>10, <2>3, QueueTyped DEF PoppedInv, SlotsInv, PopStages
  <2>4. PoppedInv(loc, t)'
    <3>1. SUFFICES ASSUME NEW i \in DOMAIN popped[t], NEW v, v = popped[t][i], NEW p, p = loc[v]
                   PROVE  /\ Placed(v)'
                          /\ nodes'[p[1]].data[p[2]] = Taken
                          /\ p[1] <= read_pos /\ p[2] < nodes'[p[1]].read
                          /\ p[1] <= n
                          /\ l = "get" => Precedes(p, <<n, r>>)
                          /\ \A j \in DOMAIN popped[t] : i < j => Precedes(p, loc[popped[t][j]])
      BY <1>1, <1>5, <1>11 DEF PoppedInv
    <3>2. /\ nodes[p[1]].data[p[2]] = Taken
          /\ p[1] <= read_pos /\ p[2] < nodes[p[1]].read
          /\ \A j \in DOMAIN popped[t] : i < j => Precedes(p, loc[popped[t][j]])
      BY <1>3, <3>1, Zenon DEF PoppedInv
    <3>3. p[1] \in Blocks /\ p[1] \in Nat /\ p[2] \in Nat /\ v \in Value /\ Placed(v)
          /\ p[1] <= n /\ (p[1] = n => p[2] < r)
      BY <1>1, <2>3, <3>1, BlocksTyped DEF Index
    <3>4. Precedes(p, <<n, r>>)
      BY <1>4, <3>3 DEF Precedes
    <3>5. nodes'[p[1]].data[p[2]] = Taken /\ p[2] < nodes'[p[1]].read
      BY <1>16, <3>2, <3>3
    <3>. QED  BY <1>17, <3>2, <3>3, <3>4, <3>5
  <2>5. SeenInv(loc, t)'
    BY <1>1, <1>3, <1>4, <1>5, <1>6, <1>11, <1>17, QueueTyped DEF SeenInv
  <2>. QED  BY <2>1, <2>2, <2>4, <2>5 DEF PopperInv
<1>. QED
  BY <1>2, <1>14, <1>18, <1>19, <1>20, QueueStepOf

\* The exchange of the queue's read_pos for the next block keeps the invariant: all the
\* slots left behind were claimed.
LEMMA SwingInv == ASSUME QueueInv, NEW t \in Client, Swing(t) PROVE QueueInv'
<1>. PICK loc \in Locations : InvWith(loc)
  BY DEF QueueInv
<1>. QueueTypes
  BY DEF QueueInv
<1>. DEFINE n == mine[t].node
<1>1. /\ stage[t] = "swing" /\ mine[t] \in Locals
      /\ UNCHANGED <<plan, nodes, write_pos, hazard, retired, freed, pushed, popped, seen>>
      /\ BlockSize \in Nat /\ write_pos \in Nat /\ read_pos \in Nat
  BY QueueTyped, BlocksTyped DEF Swing, hazards, History
<1>2. t \in Consumer /\ t \notin Producer
  <2>1. t \notin Producer
    BY <1>1 DEF InvWith, PusherInv, ProducerInv, PushStages
  <2>. QED  BY <2>1 DEF Consumer
<1>3. /\ ConsumerInv(t) /\ RetiredInv(t) /\ PoppedInv(loc, t) /\ SeenInv(loc, t)
      /\ ListInv /\ ClaimsInv /\ FreedInv /\ OnceInv /\ SlotsInv(loc)
  BY <1>2 DEF InvWith, PopperInv, SharedInv
<1>4. /\ n \in Blocks /\ n \in Nat /\ n <= read_pos /\ hazard[t] = n /\ ~mine[t].empty
      /\ mine[t].next = n + 1 /\ n + 1 \in Blocks /\ nodes[n].read >= BlockSize
  BY <1>1, <1>3, BlocksTyped DEF ConsumerInv, PopStages
<1>5. CASE read_pos # n
  <2>2. StartOver(t) /\ UNCHANGED read_pos
    BY <1>5 DEF Swing
  <2>3. retired \in [Client -> Seq(Nat)]
    BY DEF QueueTypes
  <2>. QED  BY <1>1, <1>2, <1>3, <2>2, <2>3, StartsOverInv DEF RetiredInv, ConsumerInv
<1>6. CASE read_pos = n
  <2>1. read_pos' = n + 1 /\ stage' = [stage EXCEPT ![t] = "unguard"] /\ mine' = mine
    BY <1>4, <1>6 DEF Swing, To
  <2>. HIDE DEF n
  <2>2. /\ stage'[t] = "unguard" /\ stage' \in [Client -> Stages]
        /\ \A u \in Client : u # t => stage'[u] = stage[u]
    BY <2>1 DEF QueueTypes, Stages
  <2>3. /\ Client' = Client /\ Producer' = Producer /\ Consumer' = Consumer /\ Value' = Value
        /\ BlockSize' = BlockSize /\ Index' = Index /\ Blocks' = Blocks /\ Block' = Block
    BY <1>1, PlanKeeps DEF Blocks, Block
  <2>4. QueueTypes'
    BY <1>1, <1>4, <2>1, <2>2, <2>3 DEF QueueTypes
  <2>5. \A v \in Value : Placed(v)' <=> Placed(v)
    BY <1>1, <1>2, <2>1, <2>2, PlanValueIs DEF Placed, Inside
  <2>6. StepOf(t)
    <3>1. OthersRest(t)
      BY <1>1, <2>1, <2>2 DEF OthersRest
    <3>2. Grows
      BY <1>1, <1>4, <1>6, <2>1, BlocksTyped DEF Grows
    <3>. QED  BY <2>2, <2>5, <3>1, <3>2 DEF StepOf, StaysPlaced, Enters, PopStages
  <2>7. SharedInv(loc)'
    <3>1. ListInv'
      <4>1. \A b \in Blocks : b < n + 1 => nodes[b].read >= BlockSize
        BY <1>3, <1>4, <1>6, BlocksTyped DEF ListInv
      <4>. QED  BY <1>1, <1>3, <2>1, <2>3, <4>1 DEF ListInv
    <3>2. ClaimsInv'
      BY <1>1, <1>3, <2>3, <2>6, ClaimsKeeps
    <3>3. FreedInv'
      BY <1>1, <1>3, <2>4, <2>6, FreedKeeps
    <3>4. OnceInv'
      BY <1>1, <1>3, OnceKeeps
    <3>5. SlotsInv(loc)'
      BY <1>1, <1>3, <2>3, <2>5, BlocksTyped, SlotsKeeps
    <3>. QED  BY <3>1, <3>2, <3>3, <3>4, <3>5 DEF SharedInv
  <2>8. PopperInv(loc, t)'
    <3>1. ConsumerInv(t)'
      BY <1>4, <2>1, <2>2 DEF ConsumerInv, PopStages, n
    <3>2. RetiredInv(t)'
      <4>1. \A i \in DOMAIN retired[t] : retired[t][i] \in Nat
        BY QueueTyped
      <4>. QED  BY <1>1, <1>3, <1>4, <1>6, <2>1, <2>2, <4>1 DEF RetiredInv
    <3>3. PoppedInv(loc, t)'
      <4>1. \A i \in DOMAIN popped[t] : /\ popped[t][i] \in Value /\ Placed(popped[t][i])
                                        /\ loc[popped[t][i]][1] \in Nat
        BY <1>3, QueueTyped, BlocksTyped DEF PoppedInv, SlotsInv
      <4>. QED  BY <1>1, <1>3, <1>4, <1>6, <2>1, <2>2, <2>5, <4>1 DEF PoppedInv, PopStages
    <3>4. SeenInv(loc, t)'
      BY <1>1, <1>3, <1>4, <2>1, <2>2, <2>5, QueueTyped DEF SeenInv
    <3>. QED  BY <3>1, <3>2, <3>3, <3>4 DEF PopperInv
  <2>. QED
    BY <1>2, <2>4, <2>6, <2>7, <2>8, QueueStepOf
<1>. QED  BY <1>5, <1>6

\* Reading a claimed slot keeps the invariant: the value comes out once, and every value
\* pushed before it by the same producer is out.
LEMMA GetInv == ASSUME QueueInv, NEW t \in Client, Get(t) PROVE QueueInv'
<1>. PICK loc \in Locations : InvWith(loc)
  BY DEF QueueInv
<1>. QueueTypes
  BY DEF QueueInv
<1>. DEFINE n == mine[t].node
            i == mine[t].pos
            block == [nodes[n] EXCEPT !.data[i] = Taken]
<1>. PICK was : was = nodes[n].data[i]
  OBVIOUS
<1>1. /\ stage[t] = "get" /\ mine[t] \in Locals
      /\ UNCHANGED <<plan, write_pos, read_pos, hazard, retired, freed, pushed, seen>>
      /\ BlockSize \in Nat /\ write_pos \in Nat /\ read_pos \in Nat
      /\ popped[t] \in Seq(Value)
  BY QueueTyped, BlocksTyped DEF Get, hazards
<1>2. t \in Consumer /\ t \notin Producer
  <2>1. t \notin Producer
    BY <1>1 DEF InvWith, PusherInv, ProducerInv, PushStages
  <2>. QED  BY <2>1 DEF Consumer
<1>3. /\ ConsumerInv(t) /\ RetiredInv(t) /\ PoppedInv(loc, t) /\ SeenInv(loc, t)
      /\ ListInv /\ ClaimsInv /\ FreedInv /\ OnceInv /\ SlotsInv(loc)
  BY <1>2 DEF InvWith, PopperInv, SharedInv
<1>4. /\ n \in Blocks /\ n \in Nat /\ n <= read_pos /\ hazard[t] = n /\ ~mine[t].empty
      /\ i \in Index /\ i \in Nat /\ nodes[n].read \in Nat /\ i < nodes[n].read
  BY <1>1, <1>3, BlocksTyped DEF ConsumerInv, PopStages, Index
<1>5. was \in Value \cup {Empty, Taken} /\ nodes[n].data \in [Index -> Value \cup {Empty, Taken}]
  BY <1>4, BlocksTyped
<1>6. /\ block \in Block /\ block.read = nodes[n].read /\ block.write = nodes[n].write
      /\ block.next = nodes[n].next /\ block.data = [nodes[n].data EXCEPT ![i] = Taken]
  <2>1. [nodes[n].data EXCEPT ![i] = Taken] \in [Index -> Value \cup {Empty, Taken}]
    BY <1>5
  <2>. QED  BY <1>4, <2>1, BlocksTyped DEF Block
<1>7. nodes' = [nodes EXCEPT ![n] = block]
  BY DEF Get
<1>8. /\ was \in Value => /\ popped' = [popped EXCEPT ![t] = Append(popped[t], was)]
                          /\ stage' = [stage EXCEPT ![t] = "clear"] /\ mine' = mine
      /\ was \notin Value =>
           /\ popped' = popped
           /\ \/ /\ stage' = [stage EXCEPT ![t] = "missed"] /\ mine' = mine
                 /\ plan.design = "old"
              \/ stage' = [stage EXCEPT ![t] = "load"] /\ mine' = [mine EXCEPT ![t] = Idle]
  BY DEF Get, Node, To, StartOver
<1>9. was = nodes[n].data[i] /\ n = mine[t].node /\ i = mine[t].pos
  OBVIOUS
<1>. HIDE DEF n, i, block
<1>10. /\ stage' \in [Client -> Stages] /\ mine' \in [Client -> Locals]
       /\ \A u \in Client : u # t => stage'[u] = stage[u] /\ mine'[u] = mine[u]
       /\ \/ was \in Value /\ stage'[t] = "clear" /\ mine'[t] = mine[t]
          \/ /\ was \notin Value
             /\ \/ stage'[t] = "missed" /\ mine'[t] = mine[t] /\ plan.design = "old"
                \/ stage'[t] = "load" /\ mine'[t] = Idle
  <2>1. /\ stage \in [Client -> Stages] /\ mine \in [Client -> Locals]
        /\ "clear" \in Stages /\ "missed" \in Stages /\ "load" \in Stages
    BY DEF QueueTypes, Stages
  <2>2. CASE was \in Value
    BY <1>8, <2>1, <2>2
  <2>3. CASE was \notin Value
    BY <1>8, <2>1, <2>3, IdleIs
  <2>. QED  BY <2>2, <2>3
<1>11. /\ Len(nodes') = Len(nodes) /\ Blocks' = Blocks /\ Block' = Block
       /\ nodes' \in Seq(Block) /\ nodes'[n] = block
       /\ \A b \in Blocks : b # n => nodes'[b] = nodes[b]
  BY <1>1, <1>4, <1>6, <1>7, BlockStep
<1>12. /\ Client' = Client /\ Producer' = Producer /\ Consumer' = Consumer /\ Value' = Value
       /\ BlockSize' = BlockSize /\ Index' = Index
  BY <1>1, PlanKeeps
<1>13. /\ popped' \in [Client -> Seq(Value)]
       /\ \A u \in Client : u # t => popped'[u] = popped[u]
       /\ popped'[t] = IF was \in Value THEN Append(popped[t], was) ELSE popped[t]
  <2>1. popped \in [Client -> Seq(Value)]
    BY DEF QueueTypes
  <2>2. CASE was \in Value
    <3>1. Append(popped[t], was) \in Seq(Value)
      BY <1>1, <2>2
    <3>. QED  BY <1>8, <2>1, <2>2, <3>1
  <2>3. CASE was \notin Value
    BY <1>8, <2>1, <2>3
  <2>. QED  BY <2>2, <2>3
<1>14. QueueTypes'
  BY <1>1, <1>10, <1>11, <1>12, <1>13 DEF QueueTypes
<1>15. /\ nodes'[n].read = nodes[n].read /\ nodes'[n].write = nodes[n].write
       /\ nodes'[n].next = nodes[n].next /\ nodes'[n].data[i] = Taken
       /\ \A j \in Index : j # i => nodes'[n].data[j] = nodes[n].data[j]
  BY <1>4, <1>5, <1>6, <1>11
<1>16. \A b \in Blocks :
         /\ nodes'[b].next = nodes[b].next /\ nodes'[b].write = nodes[b].write
         /\ nodes'[b].read = nodes[b].read /\ nodes[b].write \in Nat /\ nodes[b].read \in Nat
         /\ \A j \in Index : ~(b = n /\ j = i) => nodes'[b].data[j] = nodes[b].data[j]
  <2>. TAKE b \in Blocks
  <2>1. CASE b = n
    BY <1>15, <2>1, BlocksTyped
  <2>2. CASE b # n
    BY <1>11, <2>2, BlocksTyped
  <2>. QED  BY <2>1, <2>2
<1>17. \A v \in Value : Placed(v)' <=> Placed(v)
  BY <1>1, <1>2, <1>10, PlanValueIs DEF Placed, Inside
<1>18. StepOf(t)
  <2>1. OthersRest(t)
    BY <1>1, <1>10, <1>13 DEF OthersRest
  <2>2. \A b \in Blocks, j \in Index : nodes[b].data[j] = Taken => nodes'[b].data[j] = Taken
    BY <1>4, <1>15, <1>16
  <2>3. Grows
    BY <1>1, <1>11, <1>16, <2>2, BlocksTyped DEF Grows
  <2>. QED  BY <1>1, <1>10, <1>17, <2>1, <2>3 DEF StepOf, StaysPlaced, Enters, PopStages
<1>19. Popped' = Popped \cup (IF was \in Value THEN {was} ELSE {})
  <2>1. ASSUME NEW u \in Consumer, NEW j \in DOMAIN popped[u] PROVE popped[u][j] \in Popped'
    <3>1. j \in DOMAIN popped'[u] /\ popped'[u][j] = popped[u][j]
      <4>1. CASE u = t
        <5>1. popped[t] \in Seq(Value) /\ j \in DOMAIN popped[t]
          BY <2>1, <4>1, QueueTyped
        <5>2. popped'[t] = popped[t] \/ (was \in Value /\ popped'[t] = Append(popped[t], was))
          BY <1>13
        <5>3. ASSUME was \in Value, popped'[t] = Append(popped[t], was)
              PROVE  j \in DOMAIN popped'[t] /\ popped'[t][j] = popped[t][j]
          BY <5>1, <5>3
        <5>. QED  BY <4>1, <5>1, <5>2, <5>3
      <4>2. CASE u # t
        <5>1. u \in Client
          BY <2>1, BlocksTyped
        <5>. QED  BY <1>13, <2>1, <4>2, <5>1
      <4>. QED  BY <4>1, <4>2
    <3>. QED  BY <1>12, <3>1 DEF Popped
  <2>2. ASSUME was \in Value PROVE was \in Popped'
    <3>1. Len(popped[t]) + 1 \in DOMAIN popped'[t] /\ popped'[t][Len(popped[t]) + 1] = was
      BY <1>1, <1>13, <2>2
    <3>. QED  BY <1>2, <1>12, <3>1 DEF Popped
  <2>3. ASSUME NEW u \in Consumer, NEW j \in DOMAIN popped'[u]
        PROVE  popped'[u][j] \in Popped \/ (was \in Value /\ popped'[u][j] = was)
    <3>1. CASE u # t \/ was \notin Value
      <4>1. popped'[u] = popped[u]
        BY <1>13, <3>1, BlocksTyped
      <4>. QED  BY <2>3, <4>1 DEF Popped
    <3>2. CASE u = t /\ was \in Value
      <4>1. popped'[u] = Append(popped[t], was)
        BY <1>13, <3>2
      <4>2. CASE j \in DOMAIN popped[t]
        BY <1>1, <1>2, <3>2, <4>1, <4>2 DEF Popped
      <4>3. CASE j \notin DOMAIN popped[t]
        BY <1>1, <2>3, <3>2, <4>1, <4>3
      <4>. QED  BY <4>2, <4>3
    <3>. QED  BY <3>1, <3>2
  <2>. QED  BY <1>12, <2>1, <2>2, <2>3 DEF Popped
<1>20. was \in Value => Placed(was) /\ loc[was] = <<n, i>>
  BY <1>3, <1>4, <1>9, Zenon DEF SlotsInv
<1>21. ASSUME NEW u \in Consumer, NEW j \in DOMAIN popped[u], was \in Value
       PROVE  popped[u][j] # was
  <2>1. PoppedInv(loc, u)
    BY Zenon DEF InvWith, PopperInv
  <2>2. popped[u][j] = was => nodes[loc[was][1]].data[loc[was][2]] = Taken
    BY <2>1, Zenon DEF PoppedInv
  <2>3. nodes[loc[was][1]].data[loc[was][2]] = was
    <3>1. loc[was][1] = n /\ loc[was][2] = i
      BY <1>20, <1>21
    <3>. QED  BY <1>9, <3>1, Zenon
  <2>. QED  BY <1>21, <2>2, <2>3, PlanValueIs, Zenon
<1>22. SharedInv(loc)'
  <2>1. ListInv'
    BY <1>1, <1>3, <1>11, <1>12, <1>16 DEF ListInv
  <2>2. ClaimsInv'
    <3>1. SUFFICES ASSUME NEW b \in Blocks, NEW j \in Index, j < nodes'[b].read
                   PROVE  nodes'[b].data[j] = Taken \/ \E u \in Consumer : Gets(u, b, j)'
      BY <1>11, <1>12 DEF ClaimsInv
    <3>2. CASE b = n /\ j = i
      BY <1>15, <3>2
    <3>3. CASE ~(b = n /\ j = i)
      <4>1. nodes'[b].data[j] = nodes[b].data[j] /\ j < nodes[b].read
        BY <1>16, <3>1, <3>3
      <4>2. nodes[b].data[j] = Taken \/ \E u \in Consumer : Gets(u, b, j)
        BY <1>3, <4>1 DEF ClaimsInv
      <4>3. \A u \in Consumer : Gets(u, b, j) => u # t /\ Gets(u, b, j)'
        BY <1>9, <1>10, <3>3, BlocksTyped DEF Gets
      <4>. QED  BY <4>1, <4>2, <4>3
    <3>. QED  BY <3>2, <3>3
  <2>3. FreedInv'
    BY <1>1, <1>3, <1>14, <1>18, FreedKeeps
  <2>4. OnceInv'
    <3>1. SUFFICES ASSUME NEW u \in Consumer, NEW c \in Consumer, NEW j \in DOMAIN popped'[u],
                          NEW k \in DOMAIN popped'[c], popped'[u][j] = popped'[c][k]
                   PROVE  u = c /\ j = k
      BY <1>12 DEF OnceInv
    <3>2. ASSUME NEW x \in Consumer, NEW y \in DOMAIN popped'[x]
          PROVE  \/ y \in DOMAIN popped[x] /\ popped'[x][y] = popped[x][y]
                 \/ /\ x = t /\ was \in Value /\ y = Len(popped[t]) + 1 /\ popped'[x][y] = was
      <4>1. CASE x # t
        BY <1>13, <3>2, <4>1, BlocksTyped
      <4>2. CASE x = t /\ was \in Value
        <5>1. popped'[x] = Append(popped[x], was) /\ popped[x] \in Seq(Value)
          BY <1>1, <1>13, <4>2
        <5>. QED  BY <3>2, <4>2, <5>1
      <4>3. CASE x = t /\ was \notin Value
        BY <1>13, <3>2, <4>3
      <4>. QED  BY <4>1, <4>2, <4>3
    <3>3. CASE j \in DOMAIN popped[u] /\ popped'[u][j] = popped[u][j]
               /\ k \in DOMAIN popped[c] /\ popped'[c][k] = popped[c][k]
      <4>1. popped[u][j] = popped[c][k]
        BY <3>1, <3>3
      <4>. QED  BY <1>3, <3>3, <4>1 DEF OnceInv
    <3>. QED  BY <1>21, <3>1, <3>2, <3>3
  <2>5. SlotsInv(loc)'
    <3>1. ASSUME NEW v \in Value, Placed(v)
          PROVE  /\ loc[v][1] \in Blocks /\ loc[v][2] \in Index
                 /\ loc[v][2] < nodes'[loc[v][1]].write
                 /\ nodes'[loc[v][1]].data[loc[v][2]] \in {v, Taken}
                 /\ nodes'[loc[v][1]].data[loc[v][2]] = Taken => v \in Popped'
      <4>1. /\ loc[v][1] \in Blocks /\ loc[v][2] \in Index
            /\ loc[v][2] < nodes[loc[v][1]].write
            /\ nodes[loc[v][1]].data[loc[v][2]] \in {v, Taken}
            /\ nodes[loc[v][1]].data[loc[v][2]] = Taken => v \in Popped
        BY <1>3, <3>1 DEF SlotsInv
      <4>2. CASE loc[v][1] = n /\ loc[v][2] = i
        <5>1. was \in {v, Taken} /\ (was = Taken => v \in Popped)
          BY <1>9, <4>1, <4>2, Zenon
        <5>2. v \in Popped'
          BY <1>19, <5>1
        <5>. QED  BY <1>15, <1>16, <4>1, <4>2, <5>2
      <4>3. CASE ~(loc[v][1] = n /\ loc[v][2] = i)
        BY <1>16, <1>19, <4>1, <4>3
      <4>. QED  BY <4>2, <4>3
    <3>2. ASSUME NEW b \in Blocks, NEW j \in Index, NEW v \in Value, nodes'[b].data[j] = v
          PROVE  Placed(v) /\ loc[v] = <<b, j>>
      <4>1. ~(b = n /\ j = i)
        BY <1>15, <3>2, PlanValueIs
      <4>. QED  BY <1>3, <1>16, <3>2, <4>1 DEF SlotsInv
    <3>. QED  BY <1>11, <1>12, <1>17, <3>1, <3>2, Zenon DEF SlotsInv
  <2>. QED  BY <2>1, <2>2, <2>3, <2>4, <2>5 DEF SharedInv
<1>23. PopperInv(loc, t)'
  <2>1. ConsumerInv(t)'
    BY <1>1, <1>4, <1>9, <1>10, <1>11, <1>12, <1>16, IdleIs DEF ConsumerInv, PopStages, Idle
  <2>2. RetiredInv(t)'
    BY <1>1, <1>3, <1>10 DEF RetiredInv
  <2>3. PoppedInv(loc, t)'
    <3>1. stage'[t] \in PopStages => mine'[t].node = n
      BY <1>9, <1>10 DEF PopStages
    <3>2. stage'[t] # "get"
      BY <1>10
    <3>3. ASSUME NEW k \in DOMAIN popped[t], NEW v, v = popped[t][k], NEW p, p = loc[v]
          PROVE  /\ Placed(v)'
                 /\ nodes'[p[1]].data[p[2]] = Taken
                 /\ p[1] <= read_pos /\ p[2] < nodes'[p[1]].read
                 /\ p[1] <= n /\ Precedes(p, <<n, i>>)
                 /\ \A j \in DOMAIN popped[t] : k < j => Precedes(p, loc[popped[t][j]])
      <4>1. /\ Placed(v) /\ nodes[p[1]].data[p[2]] = Taken
            /\ p[1] <= read_pos /\ p[2] < nodes[p[1]].read
            /\ p[1] <= n /\ Precedes(p, <<n, i>>)
            /\ \A j \in DOMAIN popped[t] : k < j => Precedes(p, loc[popped[t][j]])
        BY <1>1, <1>3, <1>9, <3>3, Zenon DEF PoppedInv, PopStages
      <4>2. v \in Value
        BY <1>1, <3>3
      <4>3. p[1] \in Blocks /\ p[2] \in Index
        BY <1>3, <3>3, <4>1, <4>2, Zenon DEF SlotsInv
      <4>4. nodes'[p[1]].data[p[2]] = Taken
        BY <1>15, <1>16, <4>1, <4>3
      <4>. QED  BY <1>16, <1>17, <4>1, <4>2, <4>3, <4>4, Zenon
    <3>4. ASSUME was \in Value
          PROVE  /\ Placed(was)' /\ loc[was] = <<n, i>> /\ nodes'[n].data[i] = Taken
                 /\ n <= read_pos /\ i < nodes'[n].read
      BY <1>4, <1>15, <1>17, <1>20, <3>4
    <3>5. CASE was \notin Value
      <4>1. popped'[t] = popped[t]
        BY <1>13, <3>5
      <4>. QED  BY <1>1, <3>1, <3>2, <3>3, <4>1 DEF PoppedInv
    <3>6. CASE was \in Value
      <4>1. popped'[t] = Append(popped[t], was) /\ stage'[t] \notin PopStages
        BY <1>10, <1>13, <3>6 DEF PopStages
      <4>2. \A k \in DOMAIN popped'[t] :
              \/ k \in DOMAIN popped[t] /\ popped'[t][k] = popped[t][k] /\ k < Len(popped[t]) + 1
              \/ k = Len(popped[t]) + 1 /\ popped'[t][k] = was
        BY <1>1, <4>1
      <4>3. SUFFICES ASSUME NEW k \in DOMAIN popped'[t], NEW v, v = popped'[t][k],
                            NEW p, p = loc[v]
                     PROVE  /\ Placed(v)'
                            /\ nodes'[p[1]].data[p[2]] = Taken
                            /\ p[1] <= read_pos /\ p[2] < nodes'[p[1]].read
                            /\ \A j \in DOMAIN popped'[t] : k < j => Precedes(p, loc[popped'[t][j]])
        BY <1>1, <3>2, <4>1, Zenon DEF PoppedInv
      <4>4. CASE k \in DOMAIN popped[t] /\ popped'[t][k] = popped[t][k]
        <5>1. v = popped[t][k]
          BY <4>3, <4>4
        <5>2. /\ Placed(v)' /\ nodes'[p[1]].data[p[2]] = Taken
              /\ p[1] <= read_pos /\ p[2] < nodes'[p[1]].read /\ Precedes(p, <<n, i>>)
              /\ \A j \in DOMAIN popped[t] : k < j => Precedes(p, loc[popped[t][j]])
          BY <3>3, <4>3, <4>4, <5>1
        <5>3. ASSUME NEW j \in DOMAIN popped'[t], k < j PROVE Precedes(p, loc[popped'[t][j]])
          BY <3>4, <3>6, <4>2, <5>2, <5>3
        <5>. QED  BY <5>2, <5>3
      <4>5. CASE k = Len(popped[t]) + 1 /\ popped'[t][k] = was
        <5>1. v = was /\ p[1] = n /\ p[2] = i
          BY <3>4, <3>6, <4>3, <4>5
        <5>2. \A j \in DOMAIN popped'[t] : ~(k < j)
          BY <1>1, <4>1, <4>5
        <5>3. Placed(v)'
          BY <3>4, <3>6, <5>1
        <5>. QED  BY <3>4, <3>6, <5>1, <5>2, <5>3
      <4>. QED  BY <4>2, <4>4, <4>5
    <3>. QED  BY <3>5, <3>6
  <2>4. SeenInv(loc, t)'
    BY <1>1, <1>3, <1>4, <1>10, <1>17, IdleIs, QueueTyped DEF SeenInv
  <2>. QED  BY <2>1, <2>2, <2>3, <2>4, Zenon DEF PopperInv
<1>. QED
  BY <1>2, <1>14, <1>18, <1>22, <1>23, QueueStepOf

\* There are as many clients as the plan names.
LEMMA ClientsAre ==
  ASSUME QueueTypes
  PROVE  /\ Cardinality(Client) = Len(plan.pushes) /\ Len(plan.pushes) \in Nat
         /\ \A u \in Client : u \in Nat /\ u >= 1 /\ u <= Len(plan.pushes)
<1>1. plan.pushes \in Seq(Nat)
  BY DEF QueueTypes
<1>2. Len(plan.pushes) \in Nat /\ Client = 1..Len(plan.pushes)
  BY <1>1 DEF Client
<1>3. Cardinality(1..Len(plan.pushes)) = Len(plan.pushes)
  BY <1>2, FS_Interval
<1>. QED  BY <1>2, <1>3

\* Taking one entry from a list of retired blocks leaves the others.
LEMMA WithoutIs ==
  ASSUME NEW r \in Seq(Nat), NEW i \in 1..Len(r)
  PROVE  /\ Without(r, i) \in Seq(Nat)
         /\ \A k \in DOMAIN Without(r, i) : \E j \in DOMAIN r : Without(r, i)[k] = r[j]
<1>a. PICK a : a = SubSeq(r, 1, i - 1)
  OBVIOUS
<1>b. PICK b : b = SubSeq(r, i + 1, Len(r))
  OBVIOUS
<1>1. a \in Seq(Nat) /\ Len(a) = i - 1 /\ \A k \in 1..(i - 1) : a[k] = r[k]
  BY <1>a
<1>2. b \in Seq(Nat) /\ Len(b) = Len(r) - i /\ \A k \in 1..(Len(r) - i) : b[k] = r[i + k]
  BY <1>b
<1>3. Without(r, i) = a \o b
  BY <1>a, <1>b DEF Without
<1>0. i \in Nat /\ Len(r) \in Nat /\ i <= Len(r) /\ i >= 1
  OBVIOUS
<1>c. /\ a \o b \in Seq(Nat) /\ Len(a \o b) = Len(a) + Len(b)
      /\ \A k \in 1 .. Len(a) + Len(b) : (a \o b)[k] = IF k <= Len(a) THEN a[k] ELSE b[k - Len(a)]
  BY <1>1, <1>2, ConcatProperties
<1>4. a \o b \in Seq(Nat) /\ Len(a \o b) = Len(r) - 1
  BY <1>1, <1>2, <1>0, <1>c
<1>5. ASSUME NEW k \in 1..(Len(r) - 1) PROVE \E j \in DOMAIN r : (a \o b)[k] = r[j]
  <2>1. CASE k < i
    <3>1. (a \o b)[k] = a[k] /\ a[k] = r[k] /\ k \in DOMAIN r
      BY <1>1, <1>2, <2>1, <1>0, <1>c
    <3>. QED  BY <3>1
  <2>2. CASE k >= i
    <3>1. k - (i - 1) \in 1..(Len(r) - i) /\ i + (k - (i - 1)) = k + 1 /\ k + 1 \in DOMAIN r
      BY <2>2
    <3>4. ~(k <= Len(a)) /\ k - Len(a) = k - (i - 1) /\ k \in 1 .. Len(a) + Len(b)
      BY <1>0, <1>1, <1>2, <2>2
    <3>2. (a \o b)[k] = b[k - (i - 1)]
      BY <1>c, <3>4
    <3>3. b[k - (i - 1)] = r[i + (k - (i - 1))]
      BY <1>2, <3>1
    <3>. QED  BY <3>1, <3>2, <3>3
  <2>3. k < i \/ k >= i
    BY <1>0
  <2>. QED  BY <2>1, <2>2, <2>3, Zenon
<1>6. DOMAIN (a \o b) = 1..(Len(r) - 1)
  BY <1>4
<1>. QED  BY <1>3, <1>4, <1>5, <1>6

\* retire: the block is freed when every thread has been asked, and none protects it.
LEMMA ScanInv == ASSUME QueueInv, NEW t \in Client, Scan(t) PROVE QueueInv'
<1>. PICK loc \in Locations : InvWith(loc)
  BY DEF QueueInv
<1>. QueueTypes
  BY DEF QueueInv
<1>. DEFINE i == mine[t].ptr
            asked == mine[t].asked
            ptr == retired[t][i]
            answer == Protected(ptr, asked)
            to == IF answer = {FALSE} THEN Without(retired[t], i) ELSE retired[t]
            next == IF answer = {TRUE} THEN i + 1 ELSE i
            over == next > Len(to)
            m == IF over THEN Idle
                 ELSE [mine[t] EXCEPT !.ptr = next, !.asked = IF answer = {} THEN @ + 1 ELSE 1]
            l == IF over THEN "load" ELSE "scan"
<1>1. /\ stage[t] = "scan" /\ mine[t] \in Locals /\ retired[t] \in Seq(Nat)
      /\ UNCHANGED <<plan, nodes, write_pos, read_pos, hazard, pushed, popped, seen>>
      /\ BlockSize \in Nat /\ write_pos \in Nat /\ read_pos \in Nat
  BY QueueTyped, BlocksTyped DEF Scan, list_, History
<1>2. t \in Consumer /\ t \notin Producer
  <2>1. t \notin Producer
    BY <1>1 DEF InvWith, PusherInv, ProducerInv, PushStages
  <2>. QED  BY <2>1 DEF Consumer
<1>3. /\ ConsumerInv(t) /\ RetiredInv(t) /\ PoppedInv(loc, t) /\ SeenInv(loc, t)
      /\ ListInv /\ ClaimsInv /\ FreedInv /\ OnceInv /\ SlotsInv(loc)
  BY <1>2 DEF InvWith, PopperInv, SharedInv
<1>4. /\ i \in DOMAIN retired[t] /\ i \in Nat /\ i >= 1 /\ asked \in 1..Len(plan.pushes)
      /\ asked \in Nat /\ ptr \in Nat /\ ptr < read_pos /\ ~mine[t].empty
      /\ \A u \in Consumer : u < asked /\ stage[u] \in PopStages => mine[u].node # ptr
  BY <1>1, <1>3 DEF RetiredInv, ConsumerInv
<1>5. /\ answer = {TRUE} => hazard[asked] = ptr
      /\ answer = {} => hazard[asked] # ptr /\ asked + 1 \in 1..Len(plan.pushes)
      /\ answer = {FALSE} => hazard[asked] # ptr /\ asked = Len(plan.pushes)
      /\ answer = {TRUE} \/ answer = {} \/ answer = {FALSE}
  <2>1. Cardinality(Client) = Len(plan.pushes) /\ Len(plan.pushes) \in Nat
    BY ClientsAre
  <2>2. CASE hazard[asked] = ptr
    <3>1. answer = {TRUE}
      BY <2>2 DEF Protected
    <3>. QED  BY <2>2, <3>1
  <2>3. CASE hazard[asked] # ptr /\ asked = Len(plan.pushes)
    <3>1. answer = {FALSE}
      BY <2>1, <2>3 DEF Protected
    <3>. QED  BY <2>3, <3>1
  <2>4. CASE hazard[asked] # ptr /\ asked # Len(plan.pushes)
    <3>1. answer = {}
      BY <2>1, <2>4 DEF Protected
    <3>. HIDE DEF asked, answer
    <3>2. asked + 1 \in 1..Len(plan.pushes)
      BY <1>4, <2>1, <2>4
    <3>. QED  BY <2>4, <3>1, <3>2
  <2>. QED  BY <2>2, <2>3, <2>4
<1>6. /\ retired' = [retired EXCEPT ![t] = to]
      /\ freed' = IF answer = {FALSE} THEN freed \cup {ptr} ELSE freed
  BY DEF Scan
<1>7. stage' = [stage EXCEPT ![t] = l] /\ mine' = [mine EXCEPT ![t] = m]
  <2>1. IF over THEN StartOver(t)
        ELSE /\ mine' = [mine EXCEPT ![t].ptr = next,
                               ![t].asked = IF answer = {} THEN @ + 1 ELSE 1]
             /\ To(t, "scan")
    BY DEF Scan
  <2>2. CASE over
    BY <2>1, <2>2 DEF StartOver, To
  <2>3. CASE ~over
    BY <2>1, <2>3 DEF To
  <2>. QED  BY <2>2, <2>3
<1>8. /\ to \in Seq(Nat) /\ \A k \in DOMAIN to : \E j \in DOMAIN retired[t] : to[k] = retired[t][j]
      /\ answer # {FALSE} => to = retired[t]
  <2>. HIDE DEF answer
  <2>1. CASE answer = {FALSE}
    <3>1. to = Without(retired[t], i) /\ i \in 1..Len(retired[t])
      BY <1>1, <1>4, <2>1
    <3>. QED  BY <1>1, <2>1, <3>1, WithoutIs
  <2>2. CASE answer # {FALSE}
    BY <1>1, <2>2
  <2>. QED  BY <2>1, <2>2
<1>9. /\ m \in Locals /\ l \in Stages /\ l \in {"scan", "load"} /\ ~m.empty
      /\ l = "load" => m = Idle
      /\ l = "scan" => /\ m.ptr = next /\ m.asked = (IF answer = {} THEN asked + 1 ELSE 1)
                       /\ next <= Len(to)
      /\ next \in Nat /\ next >= 1
  <2>. HIDE DEF to, answer, i, asked
  <2>1. next \in Nat /\ next >= 1
    <3>1. next = i + 1 \/ next = i
      OBVIOUS
    <3>2. i \in Nat /\ i >= 1
      BY <1>4
    <3>. HIDE DEF next
    <3>. QED  BY <3>1, <3>2
  <2>2. Len(to) \in Nat
    BY <1>8
  <2>. HIDE DEF next
  <2>3. CASE over
    BY <2>1, <2>2, <2>3, IdleIs DEF Stages
  <2>4. CASE ~over
    <3>. DEFINE ask == IF answer = {} THEN asked + 1 ELSE 1
    <3>1. ask \in Nat
      BY <1>4
    <3>2. m = [mine[t] EXCEPT !.ptr = next, !.asked = ask]
      BY <2>4 DEF asked
    <3>. HIDE DEF ask
    <3>3. m \in Locals /\ m.ptr = next /\ m.asked = ask /\ m.empty = mine[t].empty
      <4>. HIDE DEF m
      <4>. QED  BY <1>1, <2>1, <3>1, <3>2 DEF Locals
    <3>4. l = "scan" /\ next <= Len(to)
      BY <2>1, <2>2, <2>4
    <3>. QED  BY <1>4, <2>1, <3>3, <3>4 DEF Stages, ask
  <2>. QED  BY <2>3, <2>4
<1>10. /\ answer = {} => next = i
  OBVIOUS
<1>11. i = mine[t].ptr /\ asked = mine[t].asked /\ ptr = retired[t][i]
  OBVIOUS
<1>. HIDE DEF m, l, over, next, to, answer, ptr, asked, i
<1>12. /\ stage'[t] = l /\ mine'[t] = m /\ retired'[t] = to
       /\ stage' \in [Client -> Stages] /\ mine' \in [Client -> Locals]
       /\ retired' \in [Client -> Seq(Nat)]
       /\ \A u \in Client : u # t => /\ stage'[u] = stage[u] /\ mine'[u] = mine[u]
                                     /\ retired'[u] = retired[u]
  BY <1>6, <1>7, <1>8, <1>9 DEF QueueTypes
<1>13. /\ Client' = Client /\ Producer' = Producer /\ Consumer' = Consumer /\ Value' = Value
       /\ BlockSize' = BlockSize /\ Index' = Index /\ Blocks' = Blocks /\ Block' = Block
  BY <1>1, PlanKeeps DEF Blocks, Block
<1>14. freed' \in SUBSET Nat
  BY <1>4, <1>6 DEF QueueTypes
<1>15. QueueTypes'
  BY <1>1, <1>12, <1>13, <1>14 DEF QueueTypes
<1>16. \A v \in Value : Placed(v)' <=> Placed(v)
  BY <1>1, <1>2, <1>12, PlanValueIs DEF Placed, Inside
<1>17. StepOf(t)
  <2>1. OthersRest(t)
    BY <1>1, <1>12 DEF OthersRest
  <2>2. Grows
    BY <1>1, BlocksTyped DEF Grows
  <2>. QED  BY <1>9, <1>12, <1>16, <2>1, <2>2 DEF StepOf, StaysPlaced, Enters, PopStages
<1>18. SharedInv(loc)'
  <2>1. ListInv'
    BY <1>1, <1>3, <1>13 DEF ListInv
  <2>2. ClaimsInv'
    BY <1>1, <1>3, <1>13, <1>17, ClaimsKeeps
  <2>3. FreedInv'
    <3>1. ASSUME NEW u \in Consumer, stage'[u] \in PopStages
          PROVE  stage[u] \in PopStages /\ mine'[u].node = mine[u].node /\ u # t
      <4>1. u # t
        BY <1>9, <1>12, <3>1 DEF PopStages
      <4>. QED  BY <1>12, <3>1, <4>1, BlocksTyped
    <3>2. ASSUME answer = {FALSE}, NEW u \in Consumer, stage[u] \in PopStages
          PROVE  mine[u].node # ptr
      <4>1. u \in 1..Len(plan.pushes) /\ u \in Nat /\ Len(plan.pushes) \in Nat
        BY <3>2, ClientsAre, BlocksTyped
      <4>2. CASE u < asked
        BY <1>4, <3>2, <4>2
      <4>3. CASE u = asked
        <5>1. PopperInv(loc, u)
          BY DEF InvWith
        <5>. QED  BY <1>5, <3>2, <4>3, <5>1 DEF PopperInv, ConsumerInv
      <4>. QED  BY <1>4, <1>5, <3>2, <4>1, <4>2, <4>3
    <3>3. \A b \in freed' : b < read_pos
      BY <1>3, <1>4, <1>6 DEF FreedInv
    <3>4. ASSUME NEW u \in Consumer, stage'[u] \in PopStages PROVE mine'[u].node \notin freed'
      BY <1>3, <1>6, <3>1, <3>2, <3>4 DEF FreedInv
    <3>. QED  BY <1>1, <1>13, <3>3, <3>4 DEF FreedInv
  <2>4. OnceInv'
    BY <1>1, <1>3, OnceKeeps
  <2>5. SlotsInv(loc)'
    BY <1>1, <1>3, <1>13, <1>16, BlocksTyped, SlotsKeeps
  <2>. QED  BY <2>1, <2>2, <2>3, <2>4, <2>5 DEF SharedInv
<1>19. PopperInv(loc, t)'
  <2>1. ConsumerInv(t)'
    BY <1>9, <1>12, IdleIs DEF ConsumerInv, PopStages, Idle
  <2>2. RetiredInv(t)'
    <3>1. \A k \in DOMAIN to : to[k] < read_pos
      BY <1>3, <1>8 DEF RetiredInv
    <3>2. CASE l = "load"
      BY <1>1, <1>12, <3>1, <3>2 DEF RetiredInv
    <3>3. CASE l = "scan"
      <4>1. next \in DOMAIN to /\ m.ptr = next /\ m.asked = (IF answer = {} THEN asked + 1 ELSE 1)
        BY <1>8, <1>9, <3>3
      <4>2. \A u \in Consumer : u \in Nat /\ u >= 1 /\ Len(plan.pushes) \in Nat
        BY ClientsAre, BlocksTyped
      <4>3. CASE answer = {}
        <5>1. to = retired[t] /\ m.asked = asked + 1 /\ to[next] = ptr
          BY <1>8, <1>10, <1>11, <4>1, <4>3
        <5>2. ASSUME NEW u \in Consumer, u < asked + 1, stage'[u] \in PopStages
              PROVE  mine'[u].node # ptr
          <6>1. u # t /\ u \in Client
            BY <1>9, <1>12, <5>2, BlocksTyped DEF PopStages
          <6>2. stage[u] \in PopStages /\ mine'[u] = mine[u]
            BY <1>12, <5>2, <6>1
          <6>3. CASE u < asked
            BY <1>4, <6>2, <6>3
          <6>4. CASE u = asked
            <7>1. PopperInv(loc, u)
              BY DEF InvWith
            <7>. QED  BY <1>5, <4>3, <6>2, <6>4, <7>1 DEF PopperInv, ConsumerInv
          <6>. QED  BY <1>4, <4>2, <5>2, <6>3, <6>4
        <5>. QED  BY <1>1, <1>5, <1>12, <1>13, <3>1, <3>3, <4>1, <4>3, <5>1, <5>2 DEF RetiredInv
      <4>4. CASE answer # {}
        <5>1. m.asked = 1 /\ 1 \in 1..Len(plan.pushes)
          BY <1>4, <4>1, <4>4
        <5>2. \A u \in Consumer : ~(u < 1)
          BY <4>2
        <5>. QED  BY <1>1, <1>12, <1>13, <3>1, <3>3, <4>1, <5>1, <5>2 DEF RetiredInv
      <4>. QED  BY <4>3, <4>4
    <3>. QED  BY <1>9, <3>2, <3>3
  <2>3. PoppedInv(loc, t)'
    BY <1>1, <1>2, <1>3, <1>9, <1>12, <1>16, PopperRests DEF PopStages
  <2>4. SeenInv(loc, t)'
    BY <1>1, <1>3, <1>9, <1>12, <1>16, QueueTyped DEF SeenInv
  <2>. QED  BY <2>1, <2>2, <2>3, <2>4 DEF PopperInv
<1>. QED
  BY <1>2, <1>15, <1>17, <1>18, <1>19, QueueStepOf

\* Storing the value in the slot claimed for it keeps the invariant: it goes behind
\* everything its producer pushed before.
LEMMA SetSlotInv == ASSUME QueueInv, NEW t \in Client, SetSlot(t) PROVE QueueInv'
<1>. PICK loc \in Locations : InvWith(loc)
  BY DEF QueueInv
<1>. QueueTypes
  BY DEF QueueInv
<1>. DEFINE n == mine[t].node
            i == mine[t].pos
<1>. PICK val : val = Pushing(t)
  OBVIOUS
<1>. DEFINE block == [nodes[n] EXCEPT !.data[i] = val]
<1>1. /\ stage[t] = "set" /\ mine[t] \in Locals
      /\ UNCHANGED <<plan, write_pos, read_pos, hazard, retired, freed, pushed, popped, seen>>
      /\ BlockSize \in Nat /\ write_pos \in Nat /\ read_pos \in Nat /\ pushed[t] \in Nat
  BY QueueTyped, BlocksTyped DEF SetSlot, hazards, History
<1>2. t \in Producer /\ t \notin Consumer
  <2>1. t \notin Consumer
    BY <1>1 DEF InvWith, PopperInv, ConsumerInv, PopStages
  <2>. QED  BY <2>1, BlocksTyped
<1>3. /\ ProducerInv(t) /\ PushedInv(loc, t)
      /\ ListInv /\ ClaimsInv /\ FreedInv /\ OnceInv /\ SlotsInv(loc)
  BY <1>2 DEF InvWith, PusherInv, SharedInv
<1>4. /\ n \in Blocks /\ n \in Nat /\ n <= write_pos /\ ~mine[t].linked
      /\ i \in Index /\ i \in Nat /\ i < nodes[n].write /\ nodes[n].write \in Nat
      /\ pushed[t] < plan.pushes[t]
  BY <1>1, <1>3, BlocksTyped DEF ProducerInv, PushStages, Index
<1>5. val \in Value /\ val[1] = t /\ val[2] = pushed[t] + 1
  <2>1. pushed[t] + 1 \in Nat /\ 1 <= pushed[t] + 1 /\ pushed[t] + 1 <= plan.pushes[t]
    BY <1>1, <1>4, QueueTyped
  <2>. QED  BY <1>2, <2>1, PlanValueIs DEF Pushing
<1>6. ~Placed(val)
  BY <1>1, <1>4, <1>5 DEF Placed, Inside
<1>7. CASE nodes[n].data[i] # Empty
  <2>1. StartOver(t) /\ UNCHANGED nodes
    BY <1>7 DEF SetSlot, Node
  <2>2. retired \in [Client -> Seq(Nat)]
    BY DEF QueueTypes
  <2>. QED  BY <1>1, <1>2, <1>4, <2>1, <2>2, StartsOverInv
<1>8. CASE nodes[n].data[i] = Empty
  <2>1. /\ nodes' = [nodes EXCEPT ![n] = block]
        /\ stage' = [stage EXCEPT ![t] = "clear"] /\ mine' = mine
    BY <1>8 DEF SetSlot, Node, To
  <2>2. /\ block \in Block /\ block.read = nodes[n].read /\ block.write = nodes[n].write
        /\ block.next = nodes[n].next /\ block.data = [nodes[n].data EXCEPT ![i] = val]
    <3>1. [nodes[n].data EXCEPT ![i] = val] \in [Index -> Value \cup {Empty, Taken}]
      BY <1>4, <1>5, BlocksTyped
    <3>. QED  BY <1>4, <3>1, BlocksTyped DEF Block
  <2>3. nodes[n].data \in [Index -> Value \cup {Empty, Taken}]
    BY <1>4, BlocksTyped
  <2>4. n = mine[t].node /\ i = mine[t].pos
    OBVIOUS
  <2>. HIDE DEF n, i, block
  <2>5. /\ stage'[t] = "clear" /\ stage' \in [Client -> Stages]
        /\ \A u \in Client : u # t => stage'[u] = stage[u]
    BY <2>1 DEF QueueTypes, Stages
  <2>6. /\ Len(nodes') = Len(nodes) /\ Blocks' = Blocks /\ Block' = Block
        /\ nodes' \in Seq(Block) /\ nodes'[n] = block
        /\ \A b \in Blocks : b # n => nodes'[b] = nodes[b]
    BY <1>1, <1>4, <2>1, <2>2, BlockStep
  <2>7. /\ Client' = Client /\ Producer' = Producer /\ Consumer' = Consumer /\ Value' = Value
        /\ BlockSize' = BlockSize /\ Index' = Index /\ Popped' = Popped
    BY <1>1, PlanKeeps, PoppedKeeps
  <2>8. QueueTypes'
    BY <1>1, <2>1, <2>5, <2>6, <2>7 DEF QueueTypes
  <2>9. /\ nodes'[n].read = nodes[n].read /\ nodes'[n].write = nodes[n].write
        /\ nodes'[n].next = nodes[n].next /\ nodes'[n].data[i] = val
        /\ \A j \in Index : j # i => nodes'[n].data[j] = nodes[n].data[j]
    BY <1>4, <2>2, <2>3, <2>6
  <2>10. \A b \in Blocks :
           /\ nodes'[b].next = nodes[b].next /\ nodes'[b].write = nodes[b].write
           /\ nodes'[b].read = nodes[b].read /\ nodes[b].write \in Nat /\ nodes[b].read \in Nat
           /\ \A j \in Index : ~(b = n /\ j = i) => nodes'[b].data[j] = nodes[b].data[j]
    <3>. TAKE b \in Blocks
    <3>1. CASE b = n
      BY <2>9, <3>1, BlocksTyped
    <3>2. CASE b # n
      BY <2>6, <3>2, BlocksTyped
    <3>. QED  BY <3>1, <3>2
  <2>11. \A v \in Value : Placed(v)' <=> Placed(v) \/ v = val
    <3>. SUFFICES ASSUME NEW v \in Value PROVE Placed(v)' <=> Placed(v) \/ v = val
      OBVIOUS
    <3>1. v = <<v[1], v[2]>> /\ v[1] \in Client /\ v[2] \in Nat
      BY PlanValueIs
    <3>2. CASE v[1] = t
      <4>1. v = val <=> v[2] = pushed[t] + 1
        BY <1>5, <3>1, <3>2 DEF Pushing
      <4>. QED  BY <1>1, <1>4, <2>1, <2>5, <3>1, <3>2, <4>1 DEF Placed, Inside
    <3>3. CASE v[1] # t
      BY <1>1, <1>5, <2>1, <2>5, <3>1, <3>3 DEF Placed, Inside
    <3>. QED  BY <3>2, <3>3
  <2>12. StepOf(t)
    <3>1. OthersRest(t)
      BY <1>1, <2>1, <2>5 DEF OthersRest
    <3>2. \A b \in Blocks, j \in Index : nodes[b].data[j] = Taken => nodes'[b].data[j] = Taken
      BY <1>8, <2>10, PlanValueIs
    <3>3. Grows
      BY <1>1, <2>6, <2>10, <3>2, BlocksTyped DEF Grows
    <3>. QED  BY <1>2, <2>11, <3>1, <3>3 DEF StepOf, StaysPlaced, Enters
  <2>. PICK lot : lot = [loc EXCEPT ![val] = <<n, i>>]
    OBVIOUS
  <2>13. /\ lot \in Locations /\ lot[val] = <<n, i>>
         /\ \A v \in Value : v # val => lot[v] = loc[v]
         /\ \A v \in Value : Placed(v) => lot[v] = loc[v]
    BY <1>4, <1>5, <1>6 DEF Locations
  <2>14. SharedInv(lot)'
    <3>1. ListInv'
      BY <1>1, <1>3, <2>6, <2>7, <2>10 DEF ListInv
    <3>2. ClaimsInv'
      <4>1. SUFFICES ASSUME NEW b \in Blocks, NEW j \in Index, j < nodes'[b].read
                     PROVE  nodes'[b].data[j] = Taken \/ \E u \in Consumer : Gets(u, b, j)'
        BY <2>6, <2>7 DEF ClaimsInv
      <4>2. nodes[b].data[j] = Taken \/ \E u \in Consumer : Gets(u, b, j)
        BY <1>3, <2>10, <4>1 DEF ClaimsInv
      <4>3. nodes[b].data[j] = Taken => nodes'[b].data[j] = Taken
        BY <1>8, <2>10, PlanValueIs
      <4>4. \A u \in Consumer : Gets(u, b, j) => Gets(u, b, j)'
        BY <1>2, <2>1, <2>5, BlocksTyped DEF Gets
      <4>. QED  BY <4>2, <4>3, <4>4
    <3>3. FreedInv'
      BY <1>1, <1>3, <2>8, <2>12, FreedKeeps
    <3>4. OnceInv'
      BY <1>1, <1>3, OnceKeeps
    <3>5. SlotsInv(lot)'
      <4>1. ASSUME NEW v \in Value, Placed(v)'
            PROVE  /\ lot[v][1] \in Blocks /\ lot[v][2] \in Index
                   /\ lot[v][2] < nodes'[lot[v][1]].write
                   /\ nodes'[lot[v][1]].data[lot[v][2]] \in {v, Taken}
                   /\ nodes'[lot[v][1]].data[lot[v][2]] = Taken => v \in Popped
        <5>1. CASE v = val
          <6>1. lot[v][1] = n /\ lot[v][2] = i
            BY <2>13, <5>1
          <6>. QED  BY <1>4, <1>5, <2>9, <5>1, <6>1, PlanValueIs
        <5>2. CASE v # val
          <6>1. Placed(v) /\ lot[v] = loc[v]
            BY <2>11, <2>13, <4>1, <5>2
          <6>2. /\ loc[v][1] \in Blocks /\ loc[v][2] \in Index
                /\ loc[v][2] < nodes[loc[v][1]].write
                /\ nodes[loc[v][1]].data[loc[v][2]] \in {v, Taken}
                /\ nodes[loc[v][1]].data[loc[v][2]] = Taken => v \in Popped
            BY <1>3, <6>1 DEF SlotsInv
          <6>3. ~(loc[v][1] = n /\ loc[v][2] = i)
            BY <1>8, <6>2, PlanValueIs
          <6>. QED  BY <2>10, <6>1, <6>2, <6>3
        <5>. QED  BY <5>1, <5>2
      <4>2. ASSUME NEW b \in Blocks, NEW j \in Index, NEW v \in Value, nodes'[b].data[j] = v
            PROVE  Placed(v)' /\ lot[v] = <<b, j>>
        <5>1. CASE b = n /\ j = i
          BY <2>9, <2>11, <2>13, <4>2, <5>1
        <5>2. CASE ~(b = n /\ j = i)
          <6>1. nodes[b].data[j] = v
            BY <2>10, <4>2, <5>2
          <6>2. Placed(v) /\ loc[v] = <<b, j>>
            BY <1>3, <6>1 DEF SlotsInv
          <6>. QED  BY <2>11, <2>13, <6>2
        <5>. QED  BY <5>1, <5>2
      <4>. QED  BY <2>6, <2>7, <4>1, <4>2 DEF SlotsInv
    <3>. QED  BY <3>1, <3>2, <3>3, <3>4, <3>5 DEF SharedInv
  <2>15. PusherInv(lot, t)'
    <3>1. ProducerInv(t)'
      BY <1>1, <1>3, <1>4, <2>1, <2>5 DEF ProducerInv, PushStages
    <3>2. ASSUME NEW v \in Value, v[1] = t, Placed(v)'
          PROVE  /\ lot[v][1] <= write_pos
                 /\ \A w \in Value : w[1] = t /\ Placed(w)' /\ v[2] < w[2] => Precedes(lot[v], lot[w])
      <4>1. \A x \in Value : x[1] = t /\ Placed(x) => x[2] <= pushed[t] /\ x[2] \in Nat
        BY <1>1, <1>4, PlanValueIs DEF Placed, Inside
      <4>2. CASE v = val
        <5>1. ASSUME NEW w \in Value, w[1] = t, Placed(w)', v[2] < w[2] PROVE FALSE
          BY <1>1, <1>5, <2>11, <4>1, <4>2, <5>1
        <5>. QED  BY <1>4, <2>13, <4>2, <5>1
      <4>3. CASE v # val
        <5>1. Placed(v) /\ lot[v] = loc[v]
          BY <2>11, <2>13, <3>2, <4>3
        <5>2. loc[v][1] <= write_pos /\ Precedes(loc[v], <<n, i>>)
          BY <1>1, <1>3, <1>4, <2>4, <3>2, <5>1 DEF PushedInv
        <5>3. ASSUME NEW w \in Value, w[1] = t, Placed(w)', v[2] < w[2] PROVE Precedes(lot[v], lot[w])
          <6>1. CASE w = val
            BY <2>13, <5>1, <5>2, <6>1
          <6>2. CASE w # val
            BY <1>3, <2>11, <2>13, <3>2, <5>1, <5>3, <6>2 DEF PushedInv
          <6>. QED  BY <6>1, <6>2
        <5>. QED  BY <5>1, <5>2, <5>3
      <4>. QED  BY <4>2, <4>3
    <3>3. PushedInv(lot, t)'
      BY <1>1, <1>4, <2>1, <2>5, <2>7, <3>2 DEF PushedInv, PushStages
    <3>. QED  BY <3>1, <3>3 DEF PusherInv
  <2>. QED
    BY <1>2, <2>8, <2>12, <2>13, <2>14, <2>15, QueueStepOf
<1>. QED  BY <1>7, <1>8

\* Linking a new block, its first slot already filled, keeps the invariant.
LEMMA LinkInv == ASSUME QueueInv, NEW t \in Client, Link(t) PROVE QueueInv'
<1>. PICK loc \in Locations : InvWith(loc)
  BY DEF QueueInv
<1>. QueueTypes
  BY DEF QueueInv
<1>. PICK val : val = Pushing(t)
  OBVIOUS
<1>. DEFINE n == mine[t].node
            new == [NewNode EXCEPT !.write = 1, !.data[0] = val]
            block == [nodes[n] EXCEPT !.next = n + 1]
<1>1. /\ stage[t] = "link" /\ mine[t] \in Locals
      /\ UNCHANGED <<plan, write_pos, read_pos, hazard, retired, freed, pushed, popped, seen>>
      /\ BlockSize \in Nat /\ BlockSize > 0 /\ write_pos \in Nat /\ read_pos \in Nat
      /\ pushed[t] \in Nat /\ Len(nodes) \in Nat
  BY QueueTyped, BlocksTyped DEF Link, hazards, History
<1>2. t \in Producer /\ t \notin Consumer
  <2>1. t \notin Consumer
    BY <1>1 DEF InvWith, PopperInv, ConsumerInv, PopStages
  <2>. QED  BY <2>1, BlocksTyped
<1>3. /\ ProducerInv(t) /\ PushedInv(loc, t)
      /\ ListInv /\ ClaimsInv /\ FreedInv /\ OnceInv /\ SlotsInv(loc)
  BY <1>2 DEF InvWith, PusherInv, SharedInv
<1>4. /\ n \in Blocks /\ n \in Nat /\ n <= write_pos /\ ~mine[t].linked
      /\ nodes[n].write > BlockSize /\ nodes[n].write \in Nat /\ nodes[n].read \in Nat
      /\ pushed[t] < plan.pushes[t] /\ nodes[n] \in Block
  BY <1>1, <1>3, BlocksTyped DEF ProducerInv, PushStages
<1>5. val \in Value /\ val[1] = t /\ val[2] = pushed[t] + 1
  <2>1. pushed[t] + 1 \in Nat /\ 1 <= pushed[t] + 1 /\ pushed[t] + 1 <= plan.pushes[t]
    <3>1. plan.pushes[t] \in Nat
      BY QueueTyped
    <3>. QED  BY <1>1, <1>4, <3>1
  <2>. QED  BY <1>2, <2>1, PlanValueIs DEF Pushing
<1>6. ~Placed(val)
  BY <1>1, <1>4, <1>5 DEF Placed, Inside
<1>7. CASE nodes[n].next # NoNode /\ plan.design # "old"
  <2>1. StartOver(t) /\ UNCHANGED nodes
    BY <1>7 DEF Link, Node
  <2>2. retired \in [Client -> Seq(Nat)]
    BY DEF QueueTypes
  <2>. QED  BY <1>1, <1>2, <1>4, <2>1, <2>2, StartsOverInv
<1>8. CASE nodes[n].next # NoNode /\ plan.design = "old"
  <2>. DEFINE m == [mine[t] EXCEPT !.next = nodes[n].next]
  <2>1. /\ stage' = [stage EXCEPT ![t] = "advance"] /\ mine' = [mine EXCEPT ![t] = m]
        /\ UNCHANGED nodes
    BY <1>8 DEF Link, Node, To
  <2>2. nodes[n].next = n + 1 /\ n + 1 \in Blocks
    BY <1>3, <1>4, <1>8, BlocksTyped DEF ListInv, Blocks
  <2>3. m \in Locals /\ m.next = n + 1 /\ m.node = n /\ m.linked = mine[t].linked
    <3>. PICK next : next = nodes[n].next
      OBVIOUS
    <3>1. next \in Nat /\ m = [mine[t] EXCEPT !.next = next]
      BY <1>4, <2>2
    <3>. HIDE DEF m
    <3>. QED  BY <1>1, <2>2, <3>1 DEF Locals
  <2>4. n = mine[t].node
    OBVIOUS
  <2>. HIDE DEF m, n
  <2>5. "advance" \in Stages /\ OnlyMoves(t, "advance", m)
    BY <1>1, <2>1 DEF Stages, OnlyMoves, QueueTypes
  <2>6. /\ stage'[t] = "advance" /\ mine'[t] = m
        /\ \A u \in Client : u # t => stage'[u] = stage[u] /\ mine'[u] = mine[u]
    BY <2>3, <2>5, RestIs
  <2>7. \A v \in Value : Placed(v)' <=> Placed(v)
    BY <1>1, <2>3, <2>6, PlanValueIs DEF Placed, Inside
  <2>8. PusherInv(loc, t)'
    <3>1. Blocks' = Blocks
      BY <2>1 DEF Blocks
    <3>2. ProducerInv(t)'
      BY <1>1, <1>4, <2>1, <2>2, <2>3, <2>6, <3>1, PlanKeeps DEF ProducerInv, PushStages
    <3>3. PushedInv(loc, t)'
      BY <1>1, <1>2, <1>3, <1>4, <2>1, <2>3, <2>4, <2>6, <2>7, PusherRests DEF PushStages
    <3>. QED  BY <3>2, <3>3 DEF PusherInv
  <2>. QED
    BY <1>1, <1>2, <2>1, <2>3, <2>5, <2>7, <2>8, LocalStep DEF PopStages
<1>9. CASE nodes[n].next = NoNode
  <2>1. n = Len(nodes)
    BY <1>1, <1>3, <1>4, <1>9, BlocksTyped DEF ListInv, Blocks, NoNode
  <2>. DEFINE m == [mine[t] EXCEPT !.next = n + 1, !.linked = TRUE]
  <2>2. /\ nodes' = Append([nodes EXCEPT ![n] = block], new)
        /\ stage' = [stage EXCEPT ![t] = "advance"] /\ mine' = [mine EXCEPT ![t] = m]
    BY <1>9, <2>1 DEF Link, Node, To
  <2>3. m \in Locals /\ m.next = n + 1 /\ m.node = n /\ m.linked
    <3>. PICK next : next = n + 1
      OBVIOUS
    <3>1. next \in Nat /\ m = [mine[t] EXCEPT !.next = next, !.linked = TRUE]
      BY <1>4
    <3>. HIDE DEF m
    <3>. QED  BY <1>1, <3>1 DEF Locals
  <2>4. /\ block \in Block /\ block.read = nodes[n].read /\ block.write = nodes[n].write
        /\ block.next = n + 1 /\ block.data = nodes[n].data
    BY <1>4 DEF Block
  <2>5. /\ new \in Block /\ new.write = 1 /\ new.read = 0 /\ new.next = NoNode
        /\ new.data[0] = val /\ \A j \in Index : j # 0 => new.data[j] = Empty
    <3>1. NewNode.data = [j \in Index |-> Empty] /\ 0 \in Index
      BY <1>1 DEF NewNode, Index
    <3>2. [NewNode.data EXCEPT ![0] = val] \in [Index -> Value \cup {Empty, Taken}]
      BY <1>5, <3>1
    <3>3. NewNode \in Block /\ NewNode.read = 0 /\ NewNode.next = NoNode
      BY <1>1 DEF NewNode, Block, Index, NoNode
    <3>. PICK d : d = [NewNode.data EXCEPT ![0] = val]
      OBVIOUS
    <3>4. /\ d \in [Index -> Value \cup {Empty, Taken}] /\ d[0] = val
          /\ \A j \in Index : j # 0 => d[j] = Empty
      BY <3>1, <3>2
    <3>5. new \in Block /\ new.write = 1 /\ new.read = 0 /\ new.next = NoNode /\ new.data = d
      <4>. HIDE DEF NewNode
      <4>. QED  BY <3>3, <3>4 DEF Block
    <3>. QED  BY <3>4, <3>5
  <2>6. n = mine[t].node
    OBVIOUS
  <2>. HIDE DEF n, m, block, new
  <2>7. /\ stage'[t] = "advance" /\ mine'[t] = m
        /\ stage' \in [Client -> Stages] /\ mine' \in [Client -> Locals]
        /\ \A u \in Client : u # t => stage'[u] = stage[u] /\ mine'[u] = mine[u]
    BY <2>2, <2>3 DEF QueueTypes, Stages
  <2>8. /\ nodes' \in Seq(Block) /\ Len(nodes') = n + 1 /\ nodes'[n] = block
        /\ nodes'[n + 1] = new
        /\ \A b \in Blocks : b # n => nodes'[b] = nodes[b]
    <3>1. nodes \in Seq(Block)
      BY DEF QueueTypes
    <3>2. PICK s : s = [nodes EXCEPT ![n] = block]
      OBVIOUS
    <3>3. s \in Seq(Block) /\ Len(s) = n /\ s[n] = block /\ \A b \in Blocks : b # n => s[b] = nodes[b]
      BY <1>4, <2>1, <2>4, <3>1, <3>2 DEF Blocks
    <3>4. nodes' = Append(s, new)
      BY <2>2, <3>2
    <3>5. \A b \in 1..n : nodes'[b] = s[b]
      BY <3>3, <3>4
    <3>. QED  BY <1>4, <2>1, <2>5, <3>3, <3>4, <3>5 DEF Blocks
  <2>9. /\ Client' = Client /\ Producer' = Producer /\ Consumer' = Consumer /\ Value' = Value
        /\ BlockSize' = BlockSize /\ Index' = Index /\ Popped' = Popped
    BY <1>1, PlanKeeps, PoppedKeeps, Zenon
  <2>10. Block' = Block /\ Blocks' = 1..(n + 1) /\ Blocks = 1..n
    BY <2>1, <2>8, <2>9 DEF Block, Blocks
  <2>11. QueueTypes'
    <3>1. Blocks \subseteq Blocks'
      BY <1>4, <2>10
    <3>2. write_pos \in Blocks' /\ read_pos \in Blocks'
      BY <3>1, Zenon DEF QueueTypes
    <3>. QED  BY <1>1, <2>7, <2>8, <2>9, <2>10, <3>2 DEF QueueTypes
  <2>12. \A b \in Blocks :
           /\ nodes'[b].next = (IF b = n THEN n + 1 ELSE nodes[b].next)
           /\ nodes'[b].write = nodes[b].write
           /\ nodes'[b].read = nodes[b].read /\ nodes[b].write \in Nat /\ nodes[b].read \in Nat
           /\ nodes'[b].data = nodes[b].data
    <3>. TAKE b \in Blocks
    <3>1. CASE b = n
      BY <2>4, <2>8, <3>1, BlocksTyped
    <3>2. CASE b # n
      BY <2>8, <3>2, BlocksTyped
    <3>. QED  BY <3>1, <3>2
  <2>13. \A v \in Value : Placed(v)' <=> Placed(v) \/ v = val
    <3>. SUFFICES ASSUME NEW v \in Value PROVE Placed(v)' <=> Placed(v) \/ v = val
      OBVIOUS
    <3>1. v = <<v[1], v[2]>> /\ v[1] \in Client /\ v[2] \in Nat
      BY PlanValueIs
    <3>2. CASE v[1] = t
      <4>1. v = val <=> v[2] = pushed[t] + 1
        BY <1>5, <3>1, <3>2 DEF Pushing
      <4>. QED  BY <1>1, <1>4, <2>3, <2>7, <3>1, <3>2, <4>1 DEF Placed, Inside
    <3>3. CASE v[1] # t
      BY <1>1, <1>5, <2>7, <3>1, <3>3 DEF Placed, Inside
    <3>. QED  BY <3>2, <3>3
  <2>14. StepOf(t)
    <3>1. OthersRest(t)
      BY <1>1, <2>7 DEF OthersRest
    <3>2. Grows
      BY <1>1, <2>1, <2>8, <2>12, BlocksTyped DEF Grows
    <3>. QED  BY <1>2, <2>13, <3>1, <3>2 DEF StepOf, StaysPlaced, Enters
  <2>. PICK lot : lot = [loc EXCEPT ![val] = <<n + 1, 0>>]
    OBVIOUS
  <2>15. /\ lot \in Locations /\ lot[val] = <<n + 1, 0>>
         /\ \A v \in Value : v # val => lot[v] = loc[v]
         /\ \A v \in Value : Placed(v) => lot[v] = loc[v]
    BY <1>4, <1>5, <1>6 DEF Locations
  <2>16. \A b \in Blocks' : b \in Blocks \/ b = n + 1
    BY <1>4, <2>10
  <2>17. SharedInv(lot)'
    <3>1. ListInv'
      <4>1. \A b \in Blocks :
              /\ nodes[b].next = (IF b < n THEN b + 1 ELSE NoNode)
              /\ b < n => nodes[b].write > BlockSize
              /\ b < read_pos => nodes[b].read >= BlockSize
        BY <1>3, <2>1 DEF ListInv
      <4>2. ~(n + 1 < read_pos)
        BY <1>4, <2>10 DEF QueueTypes
      <4>3. \A b \in Blocks' :
              /\ nodes'[b].next = (IF b < n + 1 THEN b + 1 ELSE NoNode)
              /\ b < n + 1 => nodes'[b].write > BlockSize
              /\ b < read_pos => nodes'[b].read >= BlockSize
        <5>. TAKE b \in Blocks'
        <5>1. CASE b = n + 1
          BY <1>4, <2>5, <2>8, <4>2, <5>1
        <5>2. CASE b \in Blocks
          <6>1. b \in Nat /\ b < n + 1 /\ (b < n \/ b = n)
            BY <1>4, <2>10, <5>2
          <6>. QED  BY <1>4, <2>12, <4>1, <5>2, <6>1
        <5>. QED  BY <2>16, <5>1, <5>2
      <4>. QED  BY <1>1, <2>8, <2>9, <4>3 DEF ListInv
    <3>2. ClaimsInv'
      <4>1. ASSUME NEW b \in Blocks', NEW j \in Index, j < nodes'[b].read
            PROVE  b \in Blocks /\ j < nodes[b].read
        <5>1. b # n + 1
          BY <1>1, <2>5, <2>8, <4>1 DEF Index
        <5>. QED  BY <2>12, <2>16, <4>1, <5>1
      <4>. QED  BY <1>1, <1>3, <2>14, <4>1, ClaimsKeeps
    <3>3. FreedInv'
      BY <1>1, <1>3, <2>11, <2>14, FreedKeeps
    <3>4. OnceInv'
      BY <1>1, <1>3, OnceKeeps
    <3>5. SlotsInv(lot)'
      <4>1. ASSUME NEW v \in Value, Placed(v)'
            PROVE  /\ lot[v][1] \in Blocks' /\ lot[v][2] \in Index
                   /\ lot[v][2] < nodes'[lot[v][1]].write
                   /\ nodes'[lot[v][1]].data[lot[v][2]] \in {v, Taken}
                   /\ nodes'[lot[v][1]].data[lot[v][2]] = Taken => v \in Popped
        <5>1. CASE v = val
          <6>1. lot[v][1] = n + 1 /\ lot[v][2] = 0
            BY <2>15, <5>1
          <6>2. n + 1 \in Blocks' /\ 0 \in Index
            BY <1>1, <1>4, <2>10 DEF Index
          <6>. QED  BY <1>5, <2>5, <2>8, <5>1, <6>1, <6>2, PlanValueIs
        <5>2. CASE v # val
          <6>1. Placed(v) /\ lot[v] = loc[v]
            BY <2>13, <2>15, <4>1, <5>2
          <6>2. /\ loc[v][1] \in Blocks /\ loc[v][2] \in Index
                /\ loc[v][2] < nodes[loc[v][1]].write
                /\ nodes[loc[v][1]].data[loc[v][2]] \in {v, Taken}
                /\ nodes[loc[v][1]].data[loc[v][2]] = Taken => v \in Popped
            BY <1>3, <6>1 DEF SlotsInv
          <6>3. loc[v][1] \in Blocks'
            BY <1>4, <2>10, <6>2
          <6>. QED  BY <2>12, <6>1, <6>2, <6>3
        <5>. QED  BY <5>1, <5>2
      <4>2. ASSUME NEW b \in Blocks', NEW j \in Index, NEW v \in Value, nodes'[b].data[j] = v
            PROVE  Placed(v)' /\ lot[v] = <<b, j>>
        <5>1. CASE b = n + 1
          <6>1. j = 0 /\ v = val
            BY <2>5, <2>8, <4>2, <5>1, PlanValueIs
          <6>. QED  BY <2>13, <2>15, <5>1, <6>1
        <5>2. CASE b \in Blocks
          <6>1. nodes[b].data[j] = v
            BY <2>12, <4>2, <5>2
          <6>2. Placed(v) /\ loc[v] = <<b, j>>
            BY <1>3, <5>2, <6>1 DEF SlotsInv
          <6>. QED  BY <2>13, <2>15, <6>2
        <5>. QED  BY <2>16, <5>1, <5>2
      <4>. QED  BY <2>9, <4>1, <4>2 DEF SlotsInv
    <3>. QED  BY <3>1, <3>2, <3>3, <3>4, <3>5 DEF SharedInv
  <2>18. PusherInv(lot, t)'
    <3>1. ProducerInv(t)'
      <4>1. n \in Blocks' /\ n + 1 \in Blocks'
        BY <1>4, <2>10
      <4>. QED  BY <1>1, <1>4, <2>3, <2>7, <4>1 DEF ProducerInv, PushStages
    <3>2. ASSUME NEW v \in Value, v[1] = t, Placed(v)'
          PROVE  /\ lot[v][1] <= n + 1
                 /\ \A w \in Value : w[1] = t /\ Placed(w)' /\ v[2] < w[2] => Precedes(lot[v], lot[w])
      <4>1. \A x \in Value : x[1] = t /\ Placed(x) => x[2] <= pushed[t] /\ x[2] \in Nat
        BY <1>1, <1>4, PlanValueIs DEF Placed, Inside
      <4>2. CASE v = val
        <5>1. ASSUME NEW w \in Value, w[1] = t, Placed(w)', v[2] < w[2] PROVE FALSE
          BY <1>1, <1>5, <2>13, <4>1, <4>2, <5>1
        <5>. QED  BY <1>4, <2>15, <4>2, <5>1
      <4>3. CASE v # val
        <5>1. Placed(v) /\ lot[v] = loc[v]
          BY <2>13, <2>15, <3>2, <4>3
        <5>2. loc[v][1] < n + 1 /\ loc[v][1] <= n + 1
          BY <1>3, <1>4, <2>10, <5>1 DEF SlotsInv
        <5>3. ASSUME NEW w \in Value, w[1] = t, Placed(w)', v[2] < w[2] PROVE Precedes(lot[v], lot[w])
          <6>1. CASE w = val
            BY <2>15, <5>1, <5>2, <6>1 DEF Precedes
          <6>2. CASE w # val
            BY <1>3, <2>13, <2>15, <3>2, <5>1, <5>3, <6>2 DEF PushedInv
          <6>. QED  BY <6>1, <6>2
        <5>. QED  BY <5>1, <5>2, <5>3
      <4>. QED  BY <4>2, <4>3
    <3>3. PushedInv(lot, t)'
      BY <1>1, <2>3, <2>7, <2>9, <3>2 DEF PushedInv, PushStages
    <3>. QED  BY <3>1, <3>3 DEF PusherInv
  <2>. QED
    BY <1>2, <2>11, <2>14, <2>15, <2>17, <2>18, QueueStepOf
<1>. QED  BY <1>7, <1>8, <1>9

\* Every step of the queue keeps the invariant, one action at a time.
LEMMA QueueStepInv == QueueInv /\ [QueueNext]_queueVars => QueueInv'
<1>. SUFFICES ASSUME QueueInv, [QueueNext]_queueVars PROVE QueueInv'
  OBVIOUS
<1>1. ASSUME NEW t \in Client, QueueStep(t) PROVE QueueInv'
  BY <1>1, BeginInv, LoadPosInv, GuardInv, ClaimInv, SetSlotInv, FollowInv, LinkInv,
     AdvanceWriteInv, LookInv, LastInv, TakeSlotInv, GetInv, MissedInv, SwingInv, UnguardInv,
     ScanInv, ClearInv DEF QueueStep
<1>2. ASSUME UNCHANGED queueVars PROVE QueueInv'
  <2>. PICK loc \in Locations : InvWith(loc)
    BY DEF QueueInv
  <2>1. UNCHANGED <<plan, nodes, write_pos, read_pos, hazard, retired, freed, stage, mine, pushed,
                    popped, seen>>
    BY <1>2 DEF queueVars, list_, hazards
  <2>2. /\ Client' = Client /\ Producer' = Producer /\ Consumer' = Consumer /\ Value' = Value
        /\ BlockSize' = BlockSize /\ Index' = Index /\ Locations' = Locations
        /\ Blocks' = Blocks /\ Block' = Block /\ Popped' = Popped
    BY <2>1, PlanKeeps, PoppedKeeps DEF Blocks, Block
  <2>3. QueueTypes'
    BY <2>1, <2>2 DEF QueueInv, QueueTypes
  <2>4. QueueTypes
    BY DEF QueueInv
  <2>5. \A v \in Value : Placed(v)' <=> Placed(v)
    BY <2>1, PlanValueIs, <2>4 DEF Placed, Inside
  <2>6. SharedInv(loc)'
    <3>1. ListInv /\ ClaimsInv /\ FreedInv /\ OnceInv /\ SlotsInv(loc)
      BY DEF InvWith, SharedInv
    <3>2. ListInv' /\ OnceInv'
      BY <2>1, <2>2, <3>1 DEF ListInv, OnceInv
    <3>3. ClaimsInv'
      BY <2>1, <2>2, <3>1 DEF ClaimsInv, Gets
    <3>4. FreedInv'
      BY <2>1, <2>2, <3>1 DEF FreedInv
    <3>5. SlotsInv(loc)'
      BY <2>1, <2>2, <2>5, <3>1 DEF SlotsInv
    <3>. QED  BY <3>2, <3>3, <3>4, <3>5 DEF SharedInv
  <2>7. ASSUME NEW t \in Producer PROVE PusherInv(loc, t)'
    <3>1. ProducerInv(t) /\ PushedInv(loc, t)
      BY DEF InvWith, PusherInv
    <3>2. ProducerInv(t)'
      BY <2>1, <2>2, <3>1 DEF ProducerInv
    <3>3. PushedInv(loc, t)'
      BY <2>1, <2>2, <2>5, <3>1 DEF PushedInv
    <3>. QED  BY <3>2, <3>3 DEF PusherInv
  <2>8. ASSUME NEW t \in Consumer PROVE PopperInv(loc, t)'
    <3>1. ConsumerInv(t) /\ RetiredInv(t) /\ PoppedInv(loc, t) /\ SeenInv(loc, t)
      BY DEF InvWith, PopperInv
    <3>2. popped[t] \in Seq(Value) /\ seen[t] \in SUBSET Value
      BY <2>4, QueueTyped, BlocksTyped
    <3>3. ConsumerInv(t)' /\ RetiredInv(t)'
      BY <2>1, <2>2, <3>1 DEF ConsumerInv, RetiredInv
    <3>4. PoppedInv(loc, t)'
      BY <2>1, <2>2, <2>5, <3>1, <3>2 DEF PoppedInv
    <3>5. SeenInv(loc, t)'
      BY <2>1, <2>2, <2>5, <3>1, <3>2 DEF SeenInv, Written
    <3>. QED  BY <3>3, <3>4, <3>5 DEF PopperInv
  <2>. QED  BY <2>2, <2>3, <2>6, <2>7, <2>8 DEF QueueInv, InvWith
<1>. QED  BY <1>1, <1>2 DEF QueueNext, QueueFinished

\* The inductive invariant holds in every state of both queues, for any number of clients,
\* pushes, blocks and slots in a block (MpmcQueue::push, pop; HazardPointers).
THEOREM QueueInvAlways == QueueSpec => []QueueInv
BY QueueInitInv, QueueStepInv, PTL DEF QueueSpec

\* The invariant says that no value is popped twice or before one its producer pushed
\* earlier, that pop reports empty only if what it could not see was not there, and that no block
\* in a reader's hands is freed.
LEMMA QueueInvImplies == QueueInv => OnceInOrder /\ EmptyIsTrue /\ NoFreedBlockRead
<1>. SUFFICES ASSUME QueueInv PROVE OnceInOrder /\ EmptyIsTrue /\ NoFreedBlockRead
  OBVIOUS
<1>. PICK loc \in Locations : InvWith(loc)
  BY DEF QueueInv
<1>. QueueTypes
  BY DEF QueueInv
<1>1. ListInv /\ ClaimsInv /\ FreedInv /\ OnceInv /\ SlotsInv(loc)
  BY DEF InvWith, SharedInv
<1>2. \A t \in Consumer : ConsumerInv(t) /\ PoppedInv(loc, t) /\ SeenInv(loc, t)
  BY DEF InvWith, PopperInv
<1>3. \A t \in Producer : PushedInv(loc, t)
  BY DEF InvWith, PusherInv
<1>4. OnceInOrder
  <2>1. ASSUME NEW t \in Consumer, NEW i \in DOMAIN popped[t], NEW j \in DOMAIN popped[t],
               popped[t][i][1] = popped[t][j][1], i < j
        PROVE  popped[t][i][2] < popped[t][j][2]
    <3>. PICK v : v = popped[t][i]
      OBVIOUS
    <3>. PICK w : w = popped[t][j]
      OBVIOUS
    <3>1. v \in Value /\ w \in Value /\ v[2] \in Nat /\ w[2] \in Nat /\ v[1] = w[1] /\ v[1] \in Producer
          /\ v = <<v[1], v[2]>> /\ w = <<w[1], w[2]>>
      <4>1. popped[t] \in Seq(Value)
        BY QueueTyped, BlocksTyped
      <4>2. v \in Value /\ w \in Value
        BY <4>1
      <4>. QED  BY <2>1, <4>2, PlanValueIs
    <3>2. Placed(v) /\ Placed(w) /\ Precedes(loc[v], loc[w])
      BY <1>2, <2>1, Zenon DEF PoppedInv
    <3>3. loc[v][1] \in Nat /\ loc[v][2] \in Nat /\ loc[w][1] \in Nat /\ loc[w][2] \in Nat
      BY <1>1, <3>1, <3>2, BlocksTyped DEF SlotsInv, Index
    <3>4. ~(w[2] < v[2])
      <4>1. w[2] < v[2] => Precedes(loc[w], loc[v])
        BY <1>3, <3>1, <3>2 DEF PushedInv
      <4>. QED  BY <3>2, <3>3, <4>1 DEF Precedes
    <3>5. v[2] # w[2]
      <4>1. v[2] = w[2] => v = w
        BY <3>1
      <4>2. v = w => i = j
        BY <1>1, <2>1 DEF OnceInv
      <4>3. i # j
        <5>1. popped[t] \in Seq(Value)
          BY QueueTyped, BlocksTyped
        <5>2. i \in Nat /\ j \in Nat
          BY <5>1
        <5>. QED  BY <2>1, <5>2
      <4>. QED  BY <4>1, <4>2, <4>3
    <3>. QED  BY <3>1, <3>4, <3>5
  <2>. QED  BY <1>1, <2>1 DEF OnceInOrder, OnceInv
<1>5. EmptyIsTrue
  <2>. SUFFICES ASSUME NEW t \in Consumer, mine[t].empty, NEW v \in seen[t]
                PROVE  v \in Popped \cup Claimed
    BY DEF EmptyIsTrue
  <2>1. v \in Value /\ Placed(v) /\ loc[v][2] < nodes[loc[v][1]].read
    BY <1>2, QueueTyped, BlocksTyped DEF SeenInv
  <2>2. /\ loc[v][1] \in Blocks /\ loc[v][2] \in Index
        /\ nodes[loc[v][1]].data[loc[v][2]] \in {v, Taken}
        /\ nodes[loc[v][1]].data[loc[v][2]] = Taken => v \in Popped
    BY <1>1, <2>1 DEF SlotsInv
  <2>3. CASE nodes[loc[v][1]].data[loc[v][2]] = Taken
    BY <2>2, <2>3, Zenon
  <2>4. CASE nodes[loc[v][1]].data[loc[v][2]] # Taken
    <3>1. PICK u \in Consumer : Gets(u, loc[v][1], loc[v][2])
      BY <1>1, <2>1, <2>2, <2>4 DEF ClaimsInv
    <3>2. v = nodes[mine[u].node].data[mine[u].pos] /\ stage[u] = "get"
      BY <2>2, <2>4, <3>1 DEF Gets
    <3>. QED  BY <3>2, Zenon DEF Claimed
  <2>. QED  BY <2>3, <2>4
<1>6. NoFreedBlockRead
  BY <1>1, <1>2 DEF NoFreedBlockRead, UsesFreed, FreedInv, ConsumerInv, PopStages
<1>. QED  BY <1>4, <1>5, <1>6
-----------------------------------------------------------------------------
Link_ == Raw \cup {NoRaw}
Giver == [raw : Link_, seen : Link_]
PoolTypes ==
  /\ allocated \in 0..Raws /\ allocs \in 0..Allocs
  /\ \A u \in User, r \in Raw : has[u][r] > 0 => allocs > 0
  /\ ref_cnt \in [Raw -> Nat] /\ next_ \in [Raw -> Link_]
  /\ free_head \in Link_ /\ reader_head \in Link_ /\ reader_tail \in Link_
  /\ has \in [User -> [Raw -> {0, 1}]]
  /\ stands \in [User -> {"idle", "load", "push"}] /\ gives \in [User -> Giver]
  /\ order \in Seq(Raw)

\* The reader's list holds the first k of the free objects, linked forwards; the free
\* queue the others, linked backwards.
FreeInv(k) ==
  /\ \A i, j \in DOMAIN order : order[i] = order[j] => i = j
  /\ reader_head = (IF k = 0 THEN NoRaw ELSE order[1]) /\ (k > 0 => reader_tail = order[k])
  /\ free_head = IF k = Len(order) THEN NoRaw ELSE order[Len(order)]
  /\ \A i \in 1..k : next_[order[i]] = IF i = k THEN NoRaw ELSE order[i + 1]
  /\ \A i \in k + 1..Len(order) : next_[order[i]] = IF i = k + 1 THEN NoRaw ELSE order[i - 1]

IsFree(r) == \E i \in DOMAIN order : order[i] = r
IsGiven(r) == \E u \in User : gives[u].raw = r
GiversInv ==
  /\ \A u \in User : /\ stands[u] = "idle" <=> gives[u].raw = NoRaw
                     /\ stands[u] = "push" => next_[gives[u].raw] = gives[u].seen
                     /\ ~IsFree(gives[u].raw)
  /\ \A u, v \in User : gives[u].raw = gives[v].raw /\ gives[u].raw # NoRaw => u = v
  /\ \A r \in Raw : ref_cnt[r] > 0 => ~IsFree(r) /\ ~IsGiven(r)
CountsInv ==
  /\ \A r \in Raw : IsFree(r) \/ IsGiven(r) \/ ref_cnt[r] > 0 <=> r <= allocated
  /\ \A r \in Raw : ref_cnt[r] = Cardinality(References(r))
PoolInv == PoolTypes /\ GiversInv /\ CountsInv /\ \E k \in 0..Len(order) : FreeInv(k)

\* A sequence of a known length is a function on that many numbers.
LEMMA SequenceIs ==
  ASSUME NEW S, NEW w \in Seq(S), NEW n, Len(w) = n
  PROVE  w \in [1..n -> S]
OBVIOUS

\* The references to an object can be counted.
LEMMA ReferencesIs ==
  ASSUME NEW r \in Raw
  PROVE  IsFiniteSet(References(r)) /\ Cardinality(References(r)) \in Nat
<1>1. IsFiniteSet(1..Allocs)
  BY PoolAssumption, FS_Interval
<1>2. IsFiniteSet(User \X (1..Allocs))
  BY <1>1, PoolAssumption, FS_Product
<1>3. References(r) \in SUBSET (User \X (1..Allocs))
  BY DEF References
<1>. QED  BY <1>2, <1>3, FS_Subset, FS_CardinalityType

\* Two chains from the same head are the same.
LEMMA ChainIs ==
  ASSUME PoolTypes, NEW head, NEW s \in Lists, IsChain(s, head)
  PROVE  Chain(head) = s
<1>. SUFFICES ASSUME NEW c \in Lists, IsChain(c, head) PROVE c = s
  BY DEF Chain
<1>1. PICK n \in 0..Raws : s \in [1..n -> Raw]
  BY DEF Lists
<1>2. PICK m \in 0..Raws : c \in [1..m -> Raw]
  BY DEF Lists
<1>3. Len(s) = n /\ Len(c) = m /\ DOMAIN s = 1..n /\ DOMAIN c = 1..m /\ n \in Nat /\ m \in Nat
  BY <1>1, <1>2, PoolAssumption
<1>4. /\ head = (IF n = 0 THEN NoRaw ELSE s[1])
      /\ \A i \in 1..n : next_[s[i]] = IF i = n THEN NoRaw ELSE s[i + 1]
  <2>1. s = <<>> <=> n = 0
    BY <1>1, <1>3
  <2>. QED  BY <1>3, <2>1 DEF IsChain
<1>5. /\ head = (IF m = 0 THEN NoRaw ELSE c[1])
      /\ \A i \in 1..m : next_[c[i]] = IF i = m THEN NoRaw ELSE c[i + 1]
  <2>1. c = <<>> <=> m = 0
    BY <1>2, <1>3
  <2>. QED  BY <1>3, <2>1 DEF IsChain
<1>6. NoRaw \notin Raw
  BY DEF NoRaw, Raw
<1>7. /\ \A i \in 1..n : s[i] \in Raw
      /\ \A i \in 1..m : c[i] \in Raw
  BY <1>1, <1>2
<1>8. n = 0 <=> m = 0
  BY <1>3, <1>4, <1>5, <1>6, <1>7
<1>9. ASSUME NEW i \in Nat, i >= 1, i <= n, i <= m, c[i] = s[i]
      PROVE  (i = n <=> i = m) /\ (i < n => c[i + 1] = s[i + 1])
  <2>1. i \in 1..n /\ i \in 1..m /\ (i < n => i + 1 \in 1..n) /\ (i < m => i + 1 \in 1..m)
    BY <1>3, <1>9
  <2>2. next_[s[i]] = (IF i = n THEN NoRaw ELSE s[i + 1])
        /\ next_[s[i]] = (IF i = m THEN NoRaw ELSE c[i + 1])
    BY <1>4, <1>5, <1>9, <2>1
  <2>. QED  BY <1>3, <1>6, <1>7, <1>9, <2>1, <2>2
<1>. DEFINE Bad == {i \in Nat : i >= 1 /\ i <= n /\ ~(i <= m /\ c[i] = s[i])}
<1>10. Bad = {}
  <2>. SUFFICES ASSUME Bad # {} PROVE FALSE
    OBVIOUS
  <2>1. PICK i \in Bad : \A j \in Bad : i <= j
    <3>1. Bad \in SUBSET Nat
      OBVIOUS
    <3>. QED  BY <3>1, LeastElement
  <2>2. CASE i = 1
    BY <1>3, <1>4, <1>5, <1>8, <2>1, <2>2
  <2>3. CASE i # 1
    <3>1. i - 1 \in Nat /\ i - 1 >= 1 /\ i - 1 < n /\ i - 1 \notin Bad
      BY <1>3, <2>1, <2>3
    <3>2. i - 1 <= m /\ c[i - 1] = s[i - 1]
      BY <1>3, <3>1
    <3>3. i - 1 # m /\ c[i] = s[i]
      <4>1. (i - 1) + 1 = i
        BY <2>1
      <4>. QED  BY <1>3, <1>9, <3>1, <3>2, <4>1
    <3>. QED  BY <1>3, <2>1, <3>1, <3>2, <3>3
  <2>. QED  BY <2>2, <2>3
<1>11. \A i \in 1..n : i <= m /\ c[i] = s[i]
  BY <1>3, <1>10
<1>12. n = m
  <2>1. CASE n = 0
    BY <1>8, <2>1
  <2>2. CASE n # 0
    <3>1. n \in Nat /\ n >= 1 /\ n <= m /\ c[n] = s[n]
      BY <1>3, <1>11, <2>2
    <3>. QED  BY <1>3, <1>9, <3>1
  <2>. QED  BY <2>1, <2>2
<1>. QED  BY <1>1, <1>2, <1>3, <1>11, <1>12

\* The lists are the parts of order.
LEMMA OrderIsShort ==
  ASSUME PoolTypes, \A i, j \in DOMAIN order : order[i] = order[j] => i = j
  PROVE  Len(order) \in 0..Raws
<1>1. order \in [1..Len(order) -> Raw] /\ Len(order) \in Nat
  BY DEF PoolTypes
<1>2. IsFiniteSet(Raw) /\ Cardinality(Raw) = Raws
  BY PoolAssumption, FS_Interval DEF Raw
<1>3. IsFiniteSet(1..Len(order)) /\ Cardinality(1..Len(order)) = Len(order)
  <2>. PICK n \in Nat : n = Len(order)
    BY <1>1, Zenon
  <2>1. 1 \in Int /\ n \in Int
    OBVIOUS
  <2>2. IsFiniteSet(1..n) /\ Cardinality(1..n) = IF 1 > n THEN 0 ELSE n - 1 + 1
    BY <2>1, FS_Interval
  <2>. QED  BY <2>2
<1>4. ~(Cardinality(Raw) < Cardinality(1..Len(order)))
  <2>. SUFFICES ASSUME Cardinality(Raw) < Cardinality(1..Len(order)) PROVE FALSE
    OBVIOUS
  <2>1. \E x, y \in 1..Len(order) : x # y /\ order[x] = order[y]
    BY <1>1, <1>2, <1>3, FS_PigeonHole
  <2>. QED  BY <1>1, <2>1
<1>. QED  BY <1>1, <1>2, <1>3, <1>4, PoolAssumption

\* The two lists of the pool, found by following next, are the two parts of the order in
\* which the objects were freed.
LEMMA ChainsAre ==
  ASSUME PoolTypes, NEW k \in 0..Len(order), FreeInv(k)
  PROVE  /\ Chain(reader_head) = [i \in 1..k |-> order[i]]
         /\ Chain(free_head) = [i \in 1..Len(order) - k |-> order[Len(order) + 1 - i]]
<1>1. order \in [1..Len(order) -> Raw] /\ Len(order) \in 0..Raws /\ Len(order) \in Nat /\ k \in Nat
  BY OrderIsShort DEF PoolTypes, FreeInv
<1>. PICK n : n = Len(order)
  OBVIOUS
<1>2. n \in Nat /\ n <= Raws /\ k <= n /\ order \in [1..n -> Raw]
  BY <1>1, PoolAssumption
<1>3. Chain(reader_head) = [i \in 1..k |-> order[i]]
  <2>. DEFINE s == [i \in 1..k |-> order[i]]
  <2>1. s \in [1..k -> Raw] /\ Len(s) = k /\ DOMAIN s = 1..k /\ (s = <<>> <=> k = 0)
    BY <1>1, <1>2
  <2>2. s \in Lists
    BY <1>1, <1>2, <2>1, PoolAssumption DEF Lists
  <2>3. IsChain(s, reader_head)
    <3>1. \A i \in 1..k : s[i] = order[i]
      OBVIOUS
    <3>2. reader_head = IF s = <<>> THEN NoRaw ELSE s[1]
      BY <1>1, <2>1, <3>1 DEF FreeInv
    <3>3. \A i \in 1..k : next_[s[i]] = IF i = k THEN NoRaw ELSE s[i + 1]
      <4>. TAKE i \in 1..k
      <4>1. i # k => i + 1 \in 1..k
        BY <1>1
      <4>. HIDE DEF s
      <4>. QED  BY <3>1, <4>1 DEF FreeInv
    <3>. HIDE DEF s
    <3>. QED  BY <2>1, <3>2, <3>3 DEF IsChain
  <2>. QED  BY <2>2, <2>3, ChainIs
<1>4. Chain(free_head) = [i \in 1..n - k |-> order[n + 1 - i]]
  <2>. DEFINE s == [i \in 1..n - k |-> order[n + 1 - i]]
  <2>1. \A i \in 1..n - k : n + 1 - i \in 1..n
    BY <1>1, <1>2
  <2>2. n - k \in Nat /\ n - k \in 0..Raws
    BY <1>1, <1>2, PoolAssumption
  <2>3. s \in [1..n - k -> Raw]
    BY <1>2, <2>1
  <2>4. Len(s) = n - k /\ DOMAIN s = 1..n - k /\ (s = <<>> <=> k = n)
    BY <1>1, <1>2, <2>2
  <2>5. s \in Lists
    BY <2>2, <2>3 DEF Lists
  <2>6. IsChain(s, free_head)
    <3>1. \A i \in 1..n - k : s[i] = order[n + 1 - i]
      OBVIOUS
    <3>2. free_head = IF s = <<>> THEN NoRaw ELSE s[1]
      <4>1. k # n => 1 \in 1..n - k /\ n + 1 - 1 = n
        BY <1>1, <1>2
      <4>2. free_head = IF k = n THEN NoRaw ELSE order[n]
        BY DEF FreeInv
      <4>. HIDE DEF s
      <4>. QED  BY <2>4, <3>1, <4>1, <4>2
    <3>3. \A i \in 1..n - k : next_[s[i]] = IF i = n - k THEN NoRaw ELSE s[i + 1]
      <4>. TAKE i \in 1..n - k
      <4>. PICK j : j = n + 1 - i
        OBVIOUS
      <4>1. /\ j \in k + 1..n /\ (i = n - k <=> j = k + 1)
            /\ i # n - k => i + 1 \in 1..n - k /\ n + 1 - (i + 1) = j - 1
        BY <1>1, <1>2
      <4>2. next_[order[j]] = IF j = k + 1 THEN NoRaw ELSE order[j - 1]
        BY <4>1 DEF FreeInv
      <4>. HIDE DEF s
      <4>. QED  BY <3>1, <4>1, <4>2
    <3>. HIDE DEF s
    <3>. QED  BY <2>4, <3>2, <3>3 DEF IsChain
  <2>. QED  BY <2>5, <2>6, ChainIs
<1>. QED  BY <1>3, <1>4

\* A SharedPtr more, or one less.
LEMMA ReferencesMore ==
  ASSUME PoolTypes, allocs' \in 1..Allocs, NEW v \in User, NEW r \in Raw, has[v][r] = 0,
         has' = [has EXCEPT ![v][r] = @ + 1]
  PROVE  /\ Cardinality(References(r))' = Cardinality(References(r)) + 1
         /\ \A q \in Raw : q # r => References(q)' = References(q)
         /\ has' \in [User -> [Raw -> {0, 1}]]
<1>1. has' \in [User -> [Raw -> {0, 1}]] /\ has \in [User -> [Raw -> {0, 1}]]
  BY DEF PoolTypes
<1>2. \A u \in User, q \in Raw : has'[u][q] = IF u = v /\ q = r THEN 1 ELSE has[u][q]
  BY <1>1
<1>3. Allocs \in Nat /\ 1 \in 1..Allocs
  BY PoolAssumption
<1>4. \A x \in User \X (1..Allocs) : x[1] \in User /\ x[2] \in Nat /\ x[2] > 0
  BY <1>3
<1>5. <<v, 1>> \in User \X (1..Allocs)
  BY <1>3
<1>6. References(r)' = References(r) \cup {<<v, 1>>}
  <2>1. ASSUME NEW x \in User \X (1..Allocs)
        PROVE  x[2] <= has'[x[1]][r] <=> x[2] <= has[x[1]][r] \/ x = <<v, 1>>
    <3>1. x = <<x[1], x[2]>> /\ x[1] \in User /\ x[2] \in 1..Allocs
      OBVIOUS
    <3>2. has[x[1]][r] \in {0, 1}
      BY <1>1, <3>1
    <3>. QED  BY <1>2, <1>3, <1>4, <3>1, <3>2
  <2>. QED  BY <1>5, <2>1 DEF References
<1>7. <<v, 1>> \notin References(r)
  BY DEF References
<1>8. \A q \in Raw : q # r => References(q)' = References(q)
  BY <1>2, <1>4 DEF References
<1>9. Cardinality(References(r) \cup {<<v, 1>>}) = Cardinality(References(r)) + 1
  BY <1>7, ReferencesIs, FS_AddElement
<1>. QED  BY <1>1, <1>6, <1>8, <1>9

\* Giving up one reference leaves one fewer.
LEMMA ReferencesLess ==
  ASSUME PoolTypes, NEW v \in User, NEW r \in Raw, has[v][r] > 0,
         has' = [has EXCEPT ![v][r] = @ - 1]
  PROVE  /\ Cardinality(References(r))' = Cardinality(References(r)) - 1
         /\ \A q \in Raw : q # r => References(q)' = References(q)
         /\ has' \in [User -> [Raw -> {0, 1}]]
         /\ Cardinality(References(r)) > 0
<1>1. has' \in [User -> [Raw -> {0, 1}]] /\ has \in [User -> [Raw -> {0, 1}]] /\ has[v][r] = 1
  BY DEF PoolTypes
<1>2. \A u \in User, q \in Raw : has'[u][q] = IF u = v /\ q = r THEN 0 ELSE has[u][q]
  BY <1>1
<1>3. Allocs \in Nat /\ 1 \in 1..Allocs
  BY PoolAssumption DEF PoolTypes
<1>4. \A x \in User \X (1..Allocs) : x[1] \in User /\ x[2] \in Nat /\ x[2] > 0
  BY <1>3
<1>5. <<v, 1>> \in User \X (1..Allocs)
  BY <1>3
<1>6. References(r)' = References(r) \ {<<v, 1>>}
  <2>1. ASSUME NEW x \in User \X (1..Allocs)
        PROVE  x[2] <= has'[x[1]][r] <=> x[2] <= has[x[1]][r] /\ x # <<v, 1>>
    <3>1. x = <<x[1], x[2]>> /\ x[1] \in User /\ x[2] \in 1..Allocs
      OBVIOUS
    <3>2. has[x[1]][r] \in {0, 1}
      BY <1>1, <3>1
    <3>. QED  BY <1>1, <1>2, <1>3, <1>4, <3>1, <3>2
  <2>. QED  BY <1>5, <2>1 DEF References
<1>7. <<v, 1>> \in References(r)
  BY <1>1, <1>5 DEF References
<1>8. \A q \in Raw : q # r => References(q)' = References(q)
  BY <1>2, <1>4 DEF References
<1>9. Cardinality(References(r) \ {<<v, 1>>}) = Cardinality(References(r)) - 1
  BY <1>7, ReferencesIs, FS_RemoveElement
<1>10. Cardinality(References(r)) > 0
  BY <1>7, ReferencesIs, FS_EmptySet
<1>. QED  BY <1>1, <1>6, <1>8, <1>9, <1>10

\* The empty pool satisfies the invariant.
THEOREM PoolInitInv == PoolInit => PoolInv
<1>. SUFFICES ASSUME PoolInit PROVE PoolInv
  OBVIOUS
<1>1. PoolTypes
  BY PoolAssumption DEF PoolInit, PoolTypes, Link_, Giver, Raw, NoRaw
<1>2. DOMAIN order = {} /\ Len(order) = 0
  BY DEF PoolInit
<1>3. NoRaw \notin Raw
  BY DEF NoRaw, Raw
<1>4. GiversInv
  BY <1>2, <1>3 DEF PoolInit, GiversInv, IsFree, IsGiven
<1>5. CountsInv
  <2>. SUFFICES ASSUME NEW r \in Raw
                PROVE  /\ IsFree(r) \/ IsGiven(r) \/ ref_cnt[r] > 0 <=> r <= allocated
                       /\ ref_cnt[r] = Cardinality(References(r))
    BY DEF CountsInv
  <2>1. ~(r <= 0) /\ r # NoRaw
    BY DEF Raw, NoRaw
  <2>2. References(r) = {}
    BY PoolAssumption DEF References, PoolInit
  <2>. QED  BY <1>2, <2>1, <2>2, FS_EmptySet DEF PoolInit, IsFree, IsGiven
<1>6. 0 \in 0..Len(order) /\ FreeInv(0)
  BY <1>2 DEF FreeInv, PoolInit
<1>. QED  BY <1>1, <1>4, <1>5, <1>6 DEF PoolInv

\* The invariant says that the objects come back in the order in which they were freed.
LEMMA PoolInvImplies == PoolInv => FreedInOrder
<1>. SUFFICES ASSUME PoolInv PROVE FreedInOrder
  OBVIOUS
<1>0. PoolTypes /\ GiversInv /\ CountsInv
  BY DEF PoolInv
<1>. PICK k \in 0..Len(order) : FreeInv(k)
  BY DEF PoolInv
<1>. PICK n : n = Len(order)
  OBVIOUS
<1>1. order \in [1..n -> Raw] /\ n \in Nat /\ k \in Nat /\ k <= n /\ order \in Seq(Raw)
  BY <1>0 DEF PoolTypes
<1>2. Chain(reader_head) = [i \in 1..k |-> order[i]]
      /\ Chain(free_head) = [i \in 1..n - k |-> order[n + 1 - i]]
  BY <1>0, ChainsAre
<1>3. Rev(Chain(free_head)) = [i \in 1..n - k |-> order[k + i]]
  <2>1. Len(Chain(free_head)) = n - k
    BY <1>1, <1>2
  <2>2. \A i \in 1..n - k : n - k + 1 - i \in 1..n - k /\ n + 1 - (n - k + 1 - i) = k + i
    BY <1>1
  <2>. QED  BY <1>2, <2>1, <2>2 DEF Rev
<1>4. Chain(reader_head) \o Rev(Chain(free_head)) = order
  <2>. DEFINE s == [i \in 1..k |-> order[i]]
              t == [i \in 1..n - k |-> order[k + i]]
  <2>1. s \in Seq(Raw) /\ Len(s) = k /\ \A i \in 1..k : s[i] = order[i]
    BY <1>1
  <2>2. t \in Seq(Raw) /\ Len(t) = n - k /\ \A i \in 1..n - k : t[i] = order[k + i]
    <3>1. \A i \in 1..n - k : k + i \in 1..n
      BY <1>1
    <3>. QED  BY <1>1, <3>1
  <2>. HIDE DEF s, t
  <2>3. /\ s \o t \in Seq(Raw) /\ Len(s \o t) = Len(s) + Len(t)
        /\ \A i \in 1..Len(s) + Len(t) : (s \o t)[i] = IF i <= Len(s) THEN s[i] ELSE t[i - Len(s)]
    BY <2>1, <2>2, ConcatProperties
  <2>4. Len(s \o t) = n
    BY <1>1, <2>1, <2>2, <2>3
  <2>5. \A i \in 1..n : (s \o t)[i] = order[i]
    <3>. TAKE i \in 1..n
    <3>1. (s \o t)[i] = IF i <= k THEN s[i] ELSE t[i - k]
      BY <1>1, <2>1, <2>2, <2>3
    <3>2. i <= k => i \in 1..k
      BY <1>1
    <3>3. ~(i <= k) => i - k \in 1..n - k /\ k + (i - k) = i
      BY <1>1
    <3>. QED  BY <2>1, <2>2, <3>1, <3>2, <3>3
  <2>. PICK w : w = s \o t
    OBVIOUS
  <2>6. w \in [1..n -> Raw]
    <3>1. w \in Seq(Raw) /\ Len(w) = n
      BY <2>3, <2>4
    <3>. QED  BY <3>1, SequenceIs
  <2>7. s \o t = order
    BY <1>1, <2>5, <2>6
  <2>. QED  BY <1>2, <1>3, <2>7 DEF s, t
<1>5. ASSUME NEW r \in Raw
      PROVE  /\ ref_cnt[r] = Cardinality(References(r))
             /\ Cardinality({i \in DOMAIN order : order[i] = r})
                  + Cardinality({u \in User : gives[u].raw = r})
                  + (IF ref_cnt[r] > 0 THEN 1 ELSE 0) = (IF r <= allocated THEN 1 ELSE 0)
  <2>1. Cardinality({i \in DOMAIN order : order[i] = r}) = IF IsFree(r) THEN 1 ELSE 0
    <3>1. CASE IsFree(r)
      <4>. PICK i \in DOMAIN order : order[i] = r
        BY <3>1 DEF IsFree
      <4>1. {j \in DOMAIN order : order[j] = r} = {i}
        BY DEF FreeInv
      <4>. QED  BY <3>1, <4>1, FS_Singleton
    <3>2. CASE ~IsFree(r)
      <4>1. {j \in DOMAIN order : order[j] = r} = {}
        BY <3>2 DEF IsFree
      <4>. QED  BY <3>2, <4>1, FS_EmptySet
    <3>. QED  BY <3>1, <3>2
  <2>2. Cardinality({u \in User : gives[u].raw = r}) = IF IsGiven(r) THEN 1 ELSE 0
    <3>1. CASE IsGiven(r)
      <4>. PICK u \in User : gives[u].raw = r
        BY <3>1 DEF IsGiven
      <4>0. r # NoRaw
        BY DEF Raw, NoRaw
      <4>1. {v \in User : gives[v].raw = r} = {u}
        BY <1>0, <4>0 DEF GiversInv
      <4>. QED  BY <3>1, <4>1, FS_Singleton
    <3>2. CASE ~IsGiven(r)
      <4>1. {v \in User : gives[v].raw = r} = {}
        BY <3>2 DEF IsGiven
      <4>. QED  BY <3>2, <4>1, FS_EmptySet
    <3>. QED  BY <3>1, <3>2
  <2>3. IsGiven(r) => ~IsFree(r)
    BY <1>0 DEF GiversInv, IsGiven
  <2>4. ref_cnt[r] > 0 => ~IsFree(r) /\ ~IsGiven(r)
    BY <1>0 DEF GiversInv
  <2>5. IsFree(r) \/ IsGiven(r) \/ ref_cnt[r] > 0 <=> r <= allocated
    BY <1>0 DEF CountsInv
  <2>6. ref_cnt[r] = Cardinality(References(r))
    BY <1>0 DEF CountsInv
  <2>. HIDE DEF IsFree, IsGiven
  <2>. QED  BY <2>1, <2>2, <2>3, <2>4, <2>5, <2>6
<1>. QED  BY <1>4, <1>5 DEF FreedInOrder

\* An object somebody refers to has a positive count.
LEMMA ReferencesSome ==
  ASSUME PoolTypes, CountsInv, NEW v \in User, NEW r \in Raw, has[v][r] > 0
  PROVE  ref_cnt[r] > 0
<1>1. <<v, 1>> \in References(r)
  <2>1. Allocs \in Nat /\ 1 \in 1..Allocs
    BY PoolAssumption DEF PoolTypes
  <2>2. has[v][r] = 1
    BY DEF PoolTypes
  <2>. QED  BY <2>1, <2>2 DEF References
<1>2. Cardinality(References(r)) > 0
  BY <1>1, ReferencesIs, FS_EmptySet
<1>. QED  BY <1>2 DEF CountsInv

\* MpscLinkQueueImpl::push, the load of the head and the store of next, keeps the invariant:
\* the object is not yet in the list.
LEMMA LoadFreeHeadInv ==
  ASSUME PoolInv, NEW u \in User, stands[u] \in {"load", "push"},
         next_' = [next_ EXCEPT ![gives[u].raw] = free_head],
         gives' = [gives EXCEPT ![u].seen = free_head],
         stands' = [stands EXCEPT ![u] = "push"],
         UNCHANGED <<allocated, ref_cnt, free_head, reader_head, reader_tail, allocs, has, order>>
  PROVE  PoolInv'
<1>0. PoolTypes /\ GiversInv /\ CountsInv
  BY DEF PoolInv
<1>. PICK k \in 0..Len(order) : FreeInv(k)
  BY DEF PoolInv
<1>. PICK g : g = gives[u].raw
  OBVIOUS
<1>1. g \in Raw /\ ~IsFree(g) /\ NoRaw \notin Raw
  BY <1>0 DEF PoolTypes, GiversInv, Giver, Link_, NoRaw, Raw
<1>2. /\ next_' \in [Raw -> Link_] /\ stands' \in [User -> {"idle", "load", "push"}]
      /\ gives' \in [User -> Giver]
      /\ \A v \in User : gives'[v].raw = gives[v].raw
      /\ gives'[u].seen = free_head
      /\ \A v \in User : v # u => gives'[v] = gives[v]
      /\ \A q \in Raw : next_'[q] = IF q = g THEN free_head ELSE next_[q]
      /\ \A v \in User : stands'[v] = IF v = u THEN "push" ELSE stands[v]
  BY <1>0, <1>1, ZenonT(40) DEF PoolTypes, Giver, Link_
<1>3. PoolTypes'
  BY <1>0, <1>2 DEF PoolTypes, Link_
<1>4. \A r : IsFree(r)' = IsFree(r) /\ IsGiven(r)' = IsGiven(r)
  BY <1>2 DEF IsFree, IsGiven
<1>5. GiversInv'
  <2>1. ASSUME NEW v \in User
        PROVE  /\ stands'[v] = "idle" <=> gives'[v].raw = NoRaw
               /\ stands'[v] = "push" => next_'[gives'[v].raw] = gives'[v].seen
               /\ ~IsFree(gives[v].raw)
    <3>1. CASE v = u
      BY <1>0, <1>1, <1>2, <3>1 DEF GiversInv
    <3>2. CASE v # u
      <4>1. gives[v].raw = NoRaw \/ (gives[v].raw \in Raw /\ gives[v].raw # g)
        BY <1>0, <1>1, <3>2 DEF GiversInv, PoolTypes, Giver, Link_
      <4>2. stands[v] = "push" => gives[v].raw # NoRaw
        BY <1>0 DEF GiversInv
      <4>. QED  BY <1>0, <1>1, <1>2, <3>2, <4>1, <4>2 DEF GiversInv
    <3>. QED  BY <3>1, <3>2
  <2>2. \A v \in User : \A i \in DOMAIN order' : order'[i] # gives'[v].raw
    BY <1>2, <2>1 DEF IsFree
  <2>3. \A v, w \in User : gives'[v].raw = gives'[w].raw /\ gives'[v].raw # NoRaw => v = w
    BY <1>0, <1>2 DEF GiversInv
  <2>4. \A r \in Raw : ref_cnt[r] > 0 => ~IsFree(r) /\ ~IsGiven(r)
    BY <1>0 DEF GiversInv
  <2>5. \A r \in Raw : ref_cnt'[r] > 0 => ~IsFree(r)' /\ ~IsGiven(r)'
    BY <1>4, <2>4
  <2>. HIDE DEF IsGiven
  <2>. QED  BY <2>1, <2>2, <2>3, <2>5 DEF GiversInv, IsFree
<1>6. CountsInv'
  BY <1>0, <1>4 DEF CountsInv, References
<1>7. FreeInv(k)'
  <2>1. \A i \in DOMAIN order : order[i] # g /\ order[i] \in Raw
    BY <1>0, <1>1 DEF IsFree, PoolTypes
  <2>2. k \in Nat /\ Len(order) \in Nat /\ DOMAIN order = 1..Len(order)
    BY <1>0 DEF PoolTypes
  <2>3. \A i \in 1..k : next_'[order[i]] = next_[order[i]]
    BY <1>2, <2>1, <2>2
  <2>4. \A i \in k + 1..Len(order) : next_'[order[i]] = next_[order[i]]
    BY <1>2, <2>1, <2>2
  <2>. QED  BY <2>3, <2>4 DEF FreeInv
<1>. QED  BY <1>3, <1>5, <1>6, <1>7 DEF PoolInv

\* The exchange that succeeds puts the object at the end of the order, and the invariant stays.
LEMMA RawPushedInv ==
  ASSUME PoolInv, NEW u \in User, stands[u] = "push", free_head = gives[u].seen,
         free_head' = gives[u].raw, order' = Append(order, gives[u].raw),
         stands' = [stands EXCEPT ![u] = "idle"],
         gives' = [gives EXCEPT ![u] = [raw |-> NoRaw, seen |-> NoRaw]],
         UNCHANGED <<next_, allocated, ref_cnt, reader_head, reader_tail, allocs, has>>
  PROVE  PoolInv'
<1>0. PoolTypes /\ GiversInv /\ CountsInv
  BY DEF PoolInv
<1>. PICK k \in 0..Len(order) : FreeInv(k)
  BY DEF PoolInv
<1>. PICK g : g = gives[u].raw
  OBVIOUS
<1>. PICK n : n = Len(order)
  OBVIOUS
<1>1. /\ g \in Raw /\ ~IsFree(g) /\ NoRaw \notin Raw /\ next_[g] = free_head
      /\ \A r \in Raw : r # NoRaw
  BY <1>0 DEF PoolTypes, GiversInv, Giver, Link_, NoRaw, Raw
<1>2. /\ stands' \in [User -> {"idle", "load", "push"}] /\ gives' \in [User -> Giver]
      /\ \A v \in User : gives'[v].raw = IF v = u THEN NoRaw ELSE gives[v].raw
      /\ \A v \in User : v # u => gives'[v] = gives[v]
      /\ \A v \in User : stands'[v] = IF v = u THEN "idle" ELSE stands[v]
  BY <1>0 DEF PoolTypes, Giver, Link_
<1>3. /\ order \in Seq(Raw) /\ n \in Nat /\ k \in Nat /\ k <= n /\ DOMAIN order = 1..n
      /\ order' \in Seq(Raw) /\ Len(order') = n + 1 /\ DOMAIN order' = 1..n + 1
      /\ \A i \in 1..n : order'[i] = order[i]
      /\ order'[n + 1] = g
  BY <1>0, <1>1 DEF PoolTypes
<1>4. PoolTypes'
  BY <1>0, <1>1, <1>2, <1>3 DEF PoolTypes, Link_
<1>5. \A r : IsFree(r)' <=> IsFree(r) \/ r = g
  <2>1. 1..n + 1 = 1..n \cup {n + 1}
    BY <1>3
  <2>. QED  BY <1>3, <2>1 DEF IsFree
<1>6. \A r \in Raw : IsGiven(r)' <=> IsGiven(r) /\ r # g
  <2>. TAKE r \in Raw
  <2>1. \A v \in User : v # u => gives[v].raw # g
    BY <1>0, <1>1 DEF GiversInv
  <2>. QED  BY <1>1, <1>2, <2>1 DEF IsGiven
<1>7. GiversInv'
  <2>1. ASSUME NEW v \in User
        PROVE  /\ stands'[v] = "idle" <=> gives'[v].raw = NoRaw
               /\ stands'[v] = "push" => next_[gives'[v].raw] = gives'[v].seen
               /\ \A i \in DOMAIN order' : order'[i] # gives'[v].raw
    <3>1. CASE v = u
      <4>2. gives'[v].raw = NoRaw
        BY <1>2, <3>1
      <4>3. \A i \in DOMAIN order' : order'[i] # gives'[v].raw
        BY <1>1, <1>3, <4>2
      <4>. QED  BY <1>2, <3>1, <4>2, <4>3
    <3>2. CASE v # u
      <4>1. gives[v].raw # g
        BY <1>0, <1>1, <3>2 DEF GiversInv
      <4>2. ~IsFree(gives[v].raw)
        BY <1>0 DEF GiversInv
      <4>3. \A i \in 1..n + 1 : order'[i] # gives[v].raw
        <5>1. 1..n + 1 = 1..n \cup {n + 1}
          BY <1>3
        <5>. QED  BY <1>3, <4>1, <4>2, <5>1 DEF IsFree
      <4>4. \A i \in DOMAIN order' : order'[i] # gives'[v].raw
        BY <1>2, <1>3, <3>2, <4>3
      <4>. QED  BY <1>0, <1>2, <3>2, <4>4 DEF GiversInv
    <3>. QED  BY <3>1, <3>2
  <2>2. \A v, w \in User : gives'[v].raw = gives'[w].raw /\ gives'[v].raw # NoRaw => v = w
    BY <1>0, <1>2 DEF GiversInv
  <2>3. IsGiven(g)
    BY DEF IsGiven
  <2>4. \A r \in Raw : ref_cnt[r] > 0 => ~IsFree(r) /\ ~IsGiven(r)
    BY <1>0 DEF GiversInv
  <2>5. \A r \in Raw : ref_cnt'[r] > 0 => ~IsFree(r)' /\ ~IsGiven(r)'
    BY <1>5, <1>6, <2>3, <2>4
  <2>. HIDE DEF IsGiven
  <2>. QED  BY <2>1, <2>2, <2>5 DEF GiversInv, IsFree
<1>8. CountsInv'
  <2>1. IsGiven(g)
    BY DEF IsGiven
  <2>2. \A r \in Raw : IsFree(r)' \/ IsGiven(r)' \/ ref_cnt[r] > 0
                         <=> IsFree(r) \/ IsGiven(r) \/ ref_cnt[r] > 0
    BY <1>5, <1>6, <2>1
  <2>. QED  BY <1>0, <2>2 DEF CountsInv, References
<1>9. FreeInv(k)'
  <2>1. \A i, j \in 1..n + 1 : order'[i] = order'[j] => i = j
    <3>1. \A i, j \in 1..n : order[i] = order[j] => i = j
      BY <1>3 DEF FreeInv
    <3>2. \A i \in 1..n : order[i] # g
      BY <1>1, <1>3 DEF IsFree
    <3>3. 1..n + 1 = 1..n \cup {n + 1}
      BY <1>3
    <3>. QED  BY <1>3, <3>1, <3>2, <3>3
  <2>2. /\ reader_head = (IF k = 0 THEN NoRaw ELSE order'[1])
        /\ k > 0 => reader_tail = order'[k]
    BY <1>3 DEF FreeInv
  <2>3. free_head' = IF k = n + 1 THEN NoRaw ELSE order'[n + 1]
    BY <1>3
  <2>4. \A i \in 1..k : next_[order'[i]] = IF i = k THEN NoRaw ELSE order'[i + 1]
    <3>. TAKE i \in 1..k
    <3>1. i \in 1..n /\ (i # k => i + 1 \in 1..n)
      BY <1>3
    <3>. QED  BY <1>3, <3>1 DEF FreeInv
  <2>5. \A i \in k + 1..n + 1 : next_[order'[i]] = IF i = k + 1 THEN NoRaw ELSE order'[i - 1]
    <3>. TAKE i \in k + 1..n + 1
    <3>1. CASE i = n + 1
      <4>1. free_head = IF k = n THEN NoRaw ELSE order[n]
        BY DEF FreeInv
      <4>2. i - 1 = n /\ (k # n => n \in 1..n) /\ (i = k + 1 <=> k = n)
        BY <1>3, <3>1
      <4>. QED  BY <1>1, <1>3, <3>1, <4>1, <4>2
    <3>2. CASE i # n + 1
      <4>1. i \in k + 1..n /\ i \in 1..n /\ (i # k + 1 => i - 1 \in 1..n)
        BY <1>3, <3>2
      <4>2. next_[order[i]] = IF i = k + 1 THEN NoRaw ELSE order[i - 1]
        BY <4>1 DEF FreeInv
      <4>. QED  BY <1>3, <4>1, <4>2
    <3>. QED  BY <3>1, <3>2
  <2>. QED  BY <1>3, <2>1, <2>2, <2>3, <2>4, <2>5 DEF FreeInv
<1>10. k \in 0..Len(order)'
  BY <1>3
<1>. QED  BY <1>4, <1>7, <1>8, <1>9, <1>10 DEF PoolInv

\* Copying a pointer keeps the invariant.
LEMMA ShareInv ==
  ASSUME PoolInv, NEW u \in User, NEW v \in User, NEW r \in Raw, Share(u, v, r)
  PROVE  PoolInv'
<1>0. PoolTypes /\ GiversInv /\ CountsInv
  BY DEF PoolInv
<1>. PICK k \in 0..Len(order) : FreeInv(k)
  BY DEF PoolInv
<1>1. allocs' \in 1..Allocs /\ has[v][r] = 0 /\ has' = [has EXCEPT ![v][r] = @ + 1]
      /\ ref_cnt[r] > 0
  BY <1>0, PoolAssumption, ReferencesSome DEF Share, PoolTypes
<1>2. /\ Cardinality(References(r))' = Cardinality(References(r)) + 1
      /\ \A q \in Raw : q # r => References(q)' = References(q)
      /\ has' \in [User -> [Raw -> {0, 1}]]
  BY <1>0, <1>1, ReferencesMore
<1>3. /\ ref_cnt' \in [Raw -> Nat]
      /\ \A q \in Raw : ref_cnt'[q] = IF q = r THEN ref_cnt[r] + 1 ELSE ref_cnt[q]
  BY <1>0 DEF Share, PoolTypes
<1>4. \A q \in Raw : ref_cnt'[q] > 0 <=> ref_cnt[q] > 0
  <2>1. \A q \in Raw : ref_cnt[q] \in Nat
    BY <1>0 DEF PoolTypes
  <2>. QED  BY <1>1, <1>3, <2>1
<1>5. UNCHANGED <<allocated, next_, free_head, reader_head, reader_tail, allocs, stands, gives, order>>
  BY DEF Share, freeQueue
<1>6. PoolTypes'
  <2>1. \A w \in User, q \in Raw : has'[w][q] > 0 => allocs' > 0
    BY <1>1
  <2>. QED  BY <1>0, <1>2, <1>3, <1>5, <2>1 DEF PoolTypes, Link_
<1>7. GiversInv'
  BY <1>0, <1>4, <1>5 DEF GiversInv, IsFree, IsGiven
<1>8. CountsInv'
  <2>. SUFFICES ASSUME NEW q \in Raw
                PROVE  /\ IsFree(q)' \/ IsGiven(q)' \/ ref_cnt'[q] > 0 <=> q <= allocated'
                       /\ ref_cnt'[q] = Cardinality(References(q))'
    BY DEF CountsInv
  <2>1. IsFree(q) \/ IsGiven(q) \/ ref_cnt[q] > 0 <=> q <= allocated
    BY <1>0 DEF CountsInv
  <2>2. IsFree(q)' = IsFree(q) /\ IsGiven(q)' = IsGiven(q)
    BY <1>5 DEF IsFree, IsGiven
  <2>3. ref_cnt[q] = Cardinality(References(q))
    BY <1>0 DEF CountsInv
  <2>4. ref_cnt'[q] = Cardinality(References(q))'
    <3>1. CASE q = r
      BY <1>2, <1>3, <2>3, <3>1
    <3>2. CASE q # r
      BY <1>2, <1>3, <2>3, <3>2
    <3>. QED  BY <3>1, <3>2
  <2>. QED  BY <1>4, <1>5, <2>1, <2>2, <2>4
<1>9. FreeInv(k)' /\ k \in 0..Len(order)'
  BY <1>5 DEF FreeInv
<1>. QED  BY <1>6, <1>7, <1>8, <1>9 DEF PoolInv

\* Dropping a pointer, the last one included, keeps the invariant.
LEMMA ReleaseInv ==
  ASSUME PoolInv, NEW u \in User, NEW r \in Raw, Release(u, r)
  PROVE  PoolInv'
<1>0. PoolTypes /\ GiversInv /\ CountsInv
  BY DEF PoolInv
<1>. PICK k \in 0..Len(order) : FreeInv(k)
  BY DEF PoolInv
<1>1. has[u][r] > 0 /\ has' = [has EXCEPT ![u][r] = @ - 1] /\ ref_cnt[r] > 0 /\ stands[u] = "idle"
  BY <1>0, ReferencesSome DEF Release
<1>2. /\ Cardinality(References(r))' = Cardinality(References(r)) - 1
      /\ \A q \in Raw : q # r => References(q)' = References(q)
      /\ has' \in [User -> [Raw -> {0, 1}]]
  BY <1>0, <1>1, ReferencesLess
<1>3. /\ ref_cnt' \in [Raw -> Nat]
      /\ \A q \in Raw : ref_cnt'[q] = IF q = r THEN ref_cnt[r] - 1 ELSE ref_cnt[q]
  BY <1>0, <1>1 DEF Release, PoolTypes
<1>5. UNCHANGED <<allocated, next_, free_head, reader_head, reader_tail, allocs, order>>
  BY DEF Release, freeQueue
<1>6. /\ gives' \in [User -> Giver] /\ stands' \in [User -> {"idle", "load", "push"}]
      /\ \A v \in User : v # u => gives'[v] = gives[v] /\ stands'[v] = stands[v]
      /\ IF ref_cnt[r] = 1 THEN gives'[u].raw = r /\ stands'[u] = "load"
         ELSE gives'[u].raw = NoRaw /\ stands'[u] = "idle"
      /\ gives[u].raw = NoRaw
  <2>1. gives[u].raw = NoRaw
    BY <1>0, <1>1 DEF GiversInv
  <2>2. CASE ref_cnt[r] = 1
    <3>1. stands' = [stands EXCEPT ![u] = "load"] /\ gives' = [gives EXCEPT ![u].raw = r]
      BY <2>2 DEF Release
    <3>2. \A v \in User : gives[v] \in Giver
      BY <1>0 DEF PoolTypes
    <3>3. /\ gives' \in [User -> Giver] /\ gives'[u].raw = r
          /\ \A v \in User : v # u => gives'[v] = gives[v]
      BY <1>0, <3>1, <3>2 DEF PoolTypes, Giver, Link_
    <3>. QED  BY <1>0, <2>1, <2>2, <3>1, <3>3 DEF PoolTypes
  <2>3. CASE ref_cnt[r] # 1
    BY <1>0, <1>1, <2>1, <2>3 DEF Release, PoolTypes
  <2>. QED  BY <2>2, <2>3, <2>1
<1>7. PoolTypes'
  <2>1. \A w \in User, q \in Raw : has'[w][q] > 0 => allocs' > 0
    BY <1>0, <1>1, <1>5 DEF PoolTypes
  <2>. QED  BY <1>0, <1>2, <1>3, <1>5, <1>6, <2>1 DEF PoolTypes, Link_
<1>8. \A q : IsFree(q)' = IsFree(q)
  BY <1>5 DEF IsFree
<1>9. r # NoRaw /\ NoRaw \notin Raw /\ ~IsFree(r) /\ ~IsGiven(r)
  BY <1>0, <1>1 DEF GiversInv, Raw, NoRaw
<1>10. \A q \in Raw : IsGiven(q)' <=> IsGiven(q) \/ (q = r /\ ref_cnt[r] = 1)
  BY <1>6, <1>9 DEF IsGiven
<1>11. GiversInv'
  <2>1. ASSUME NEW v \in User
        PROVE  /\ stands'[v] = "idle" <=> gives'[v].raw = NoRaw
               /\ stands'[v] = "push" => next_[gives'[v].raw] = gives'[v].seen
               /\ ~IsFree(gives'[v].raw)
    <3>0. ~IsFree(NoRaw)
      BY <1>0, <1>9 DEF IsFree, PoolTypes
    <3>1. CASE v = u
      BY <1>6, <1>9, <3>0, <3>1
    <3>2. CASE v # u
      BY <1>0, <1>6, <3>2 DEF GiversInv
    <3>. QED  BY <3>1, <3>2
  <2>2. \A v, w \in User : gives'[v].raw = gives'[w].raw /\ gives'[v].raw # NoRaw => v = w
    <3>1. \A v \in User : gives[v].raw # r
      BY <1>9 DEF IsGiven
    <3>. QED  BY <1>0, <1>6, <3>1 DEF GiversInv
  <2>3. \A q \in Raw : ref_cnt'[q] > 0 => ~IsFree(q) /\ ~IsGiven(q)'
    <3>. TAKE q \in Raw
    <3>1. CASE q = r
      BY <1>0, <1>3, <1>9, <1>10, <3>1 DEF PoolTypes
    <3>2. CASE q # r
      BY <1>0, <1>3, <1>10, <3>2 DEF GiversInv
    <3>. QED  BY <3>1, <3>2
  <2>. QED  BY <1>5, <1>8, <2>1, <2>2, <2>3 DEF GiversInv, IsFree
<1>12. CountsInv'
  <2>. SUFFICES ASSUME NEW q \in Raw
                PROVE  /\ IsFree(q)' \/ IsGiven(q)' \/ ref_cnt'[q] > 0 <=> q <= allocated'
                       /\ ref_cnt'[q] = Cardinality(References(q))'
    BY DEF CountsInv
  <2>1. IsFree(q) \/ IsGiven(q) \/ ref_cnt[q] > 0 <=> q <= allocated
    BY <1>0 DEF CountsInv
  <2>3. ref_cnt[q] = Cardinality(References(q)) /\ ref_cnt[q] \in Nat
    BY <1>0 DEF CountsInv, PoolTypes
  <2>4. ref_cnt'[q] = Cardinality(References(q))'
    <3>1. CASE q = r
      BY <1>2, <1>3, <2>3, <3>1
    <3>2. CASE q # r
      BY <1>2, <1>3, <2>3, <3>2
    <3>. QED  BY <3>1, <3>2
  <2>5. (q = r /\ ref_cnt[r] = 1) \/ ref_cnt'[q] > 0 <=> ref_cnt[q] > 0
    BY <1>1, <1>3, <2>3
  <2>. QED  BY <1>5, <1>8, <1>10, <2>1, <2>4, <2>5
<1>13. FreeInv(k)' /\ k \in 0..Len(order)'
  BY <1>5 DEF FreeInv
<1>. QED  BY <1>7, <1>11, <1>12, <1>13 DEF PoolInv

\* What Reader::add makes of the links: the free objects, oldest first.
LEMMA LinkedIs ==
  ASSUME PoolTypes, NEW k \in 0..Len(order), FreeInv(k),
         next_' = Linked(Reversed(Chain(free_head)))
  PROVE  /\ next_' \in [Raw -> Link_]
         /\ \A j \in 1..Len(order) :
              next_'[order[j]] = IF j = Len(order) THEN NoRaw ELSE order[j + 1]
         /\ \A q \in Raw : ~IsFree(q) => next_'[q] = next_[q]
         /\ Reversed(Chain(free_head)) = [i \in 1..Len(order) - k |-> order[k + i]]
<1>. PICK n : n = Len(order)
  OBVIOUS
<1>1. /\ order \in [1..n -> Raw] /\ n \in Nat /\ k \in Nat /\ k <= n /\ DOMAIN order = 1..n
      /\ NoRaw \notin Raw
  <2>1. NoRaw \notin Raw
    BY DEF Raw, NoRaw
  <2>. QED  BY <2>1 DEF PoolTypes
<1>. PICK s : s = [i \in 1..n - k |-> order[k + i]]
  OBVIOUS
<1>2. Reversed(Chain(free_head)) = s
  <2>1. Chain(free_head) = [i \in 1..n - k |-> order[n + 1 - i]]
    BY ChainsAre
  <2>2. Len(Chain(free_head)) = n - k
    BY <1>1, <2>1
  <2>3. \A i \in 1..n - k : n - k + 1 - i \in 1..n - k /\ n + 1 - (n - k + 1 - i) = k + i
    BY <1>1
  <2>. QED  BY <1>1, <2>1, <2>2, <2>3 DEF Rev, Reversed
<1>3. /\ Len(s) = n - k /\ (s = <<>> <=> k = n)
      /\ \A i \in 1..n - k : s[i] = order[k + i] /\ k + i \in 1..n
  BY <1>1
<1>4. \A i, j \in 1..n : order[i] = order[j] => i = j
  BY <1>1 DEF FreeInv
<1>5. /\ reader_head = (IF k = 0 THEN NoRaw ELSE order[1])
      /\ k > 0 => reader_tail = order[k]
      /\ \A i \in 1..k : next_[order[i]] = IF i = k THEN NoRaw ELSE order[i + 1]
  BY DEF FreeInv
<1>. PICK w : w = Linked(s)
  OBVIOUS
<1>6. ASSUME NEW r \in Raw
      PROVE  /\ (\E i \in 1..n - k - 1 : s[i] = r) => \E i \in 1..n - k - 1 : s[i] = r /\ w[r] = s[i + 1]
             /\ ~(\E i \in 1..n - k - 1 : s[i] = r) =>
                  w[r] = IF k # n /\ r = s[n - k] THEN NoRaw
                         ELSE IF k # n /\ k # 0 /\ r = reader_tail THEN s[1]
                         ELSE next_[r]
  <2>1. reader_head # NoRaw <=> k # 0
    BY <1>1, <1>5
  <2>. PICK c : c = CHOOSE i \in 1..Len(s) - 1 : s[i] = r
    OBVIOUS
  <2>2. w[r] = IF \E i \in 1..Len(s) - 1 : s[i] = r THEN s[c + 1]
               ELSE IF s # <<>> /\ r = s[Len(s)] THEN NoRaw
               ELSE IF s # <<>> /\ reader_head # NoRaw /\ r = reader_tail THEN s[1]
               ELSE next_[r]
    BY DEF Linked
  <2>3. Len(s) = n - k /\ (s # <<>> <=> k # n) /\ 1..Len(s) - 1 = 1..n - k - 1
    BY <1>3
  <2>4. (\E i \in 1..Len(s) - 1 : s[i] = r) => c \in 1..Len(s) - 1 /\ s[c] = r
    BY Zenon
  <2>. QED  BY <2>1, <2>2, <2>3, <2>4
<1>7. \A i \in 1..n - k - 1 : i \in 1..n - k /\ i + 1 \in 1..n - k /\ k + i \in 1..n /\ k + i + 1 \in 1..n
  BY <1>1
<1>8. k # n => n - k \in 1..n - k /\ k + (n - k) = n /\ n \in 1..n /\ 1 \in 1..n - k
  BY <1>1
<1>9. ASSUME NEW j \in 1..n
      PROVE  w[order[j]] = IF j = n THEN NoRaw ELSE order[j + 1]
  <2>0. order[j] \in Raw /\ j \in Nat
    BY <1>1
  <2>1. CASE j > k /\ j # n
    <3>1. j - k \in 1..n - k - 1 /\ k + (j - k) = j /\ (j - k) + 1 \in 1..n - k /\ k + ((j - k) + 1) = j + 1
      BY <1>1, <2>1
    <3>2. s[j - k] = order[j] /\ s[(j - k) + 1] = order[j + 1]
      BY <1>3, <1>7, <3>1
    <3>3. \A i \in 1..n - k - 1 : s[i] = order[j] => i = j - k
      BY <1>1, <1>3, <1>4, <1>7
    <3>4. \E i \in 1..n - k - 1 : s[i] = order[j] /\ w[order[j]] = s[i + 1]
      <4>. PICK o \in Raw : o = order[j]
        BY <2>0
      <4>1. \E i \in 1..n - k - 1 : s[i] = o
        BY <3>1, <3>2
      <4>2. \E i \in 1..n - k - 1 : s[i] = o /\ w[o] = s[i + 1]
        BY <1>6, <4>1
      <4>. QED  BY <4>2
    <3>. QED  BY <2>1, <3>2, <3>3, <3>4
  <2>2. \A i \in 1..n - k - 1 : s[i] = order[j] => j > k /\ j # n
    BY <1>1, <1>3, <1>4, <1>7
  <2>3. CASE j > k /\ j = n
    <3>1. s[n - k] = order[j]
      BY <1>1, <1>3, <1>8, <2>3
    <3>2. ~\E i \in 1..n - k - 1 : s[i] = order[j]
      BY <2>2, <2>3
    <3>3. k # n
      BY <1>1, <2>3
    <3>4. w[order[j]] = NoRaw
      BY <1>6, <2>0, <3>1, <3>2, <3>3
    <3>. QED  BY <2>3, <3>4
  <2>4. CASE ~(j > k)
    <3>1. k # n => s[n - k] = order[n] /\ s[1] = order[k + 1]
      BY <1>3, <1>8
    <3>2. k # n => order[j] # s[n - k]
      BY <1>1, <1>4, <1>8, <2>4, <3>1
    <3>3. j \in 1..k /\ k \in 1..n /\ k # 0
      BY <1>1, <2>4
    <3>4. order[j] = reader_tail <=> j = k
      BY <1>1, <1>4, <1>5, <3>3
    <3>5. next_[order[j]] = IF j = k THEN NoRaw ELSE order[j + 1]
      BY <1>5, <3>3
    <3>6. w[order[j]] = IF k # n /\ order[j] = reader_tail THEN s[1] ELSE next_[order[j]]
      <4>. PICK o \in Raw : o = order[j]
        BY <2>0
      <4>1. ~\E i \in 1..n - k - 1 : s[i] = o
        BY <2>2, <2>4
      <4>2. w[o] = IF k # n /\ o = s[n - k] THEN NoRaw
                   ELSE IF k # n /\ k # 0 /\ o = reader_tail THEN s[1]
                   ELSE next_[o]
        BY <1>6, <4>1
      <4>. QED  BY <3>2, <3>3, <4>2
    <3>. QED  BY <1>1, <3>1, <3>3, <3>4, <3>5, <3>6
  <2>. QED  BY <2>1, <2>3, <2>4
<1>10. ASSUME NEW q \in Raw, ~IsFree(q) PROVE w[q] = next_[q]
  <2>1. \A i \in 1..n : order[i] # q
    BY <1>1, <1>10 DEF IsFree
  <2>2. \A i \in 1..n - k - 1 : s[i] # q
    BY <1>3, <1>7, <2>1
  <2>3. k # n => s[n - k] # q
    BY <1>3, <1>8, <2>1
  <2>4. k # 0 => reader_tail # q
    <3>1. k # 0 => k \in 1..n /\ k > 0
      BY <1>1
    <3>. QED  BY <1>5, <2>1, <3>1
  <2>. QED  BY <1>6, <2>2, <2>3, <2>4, ZenonT(40)
<1>11. w \in [Raw -> Link_]
  <2>1. w = [r \in Raw |-> w[r]]
    BY DEF Linked
  <2>2. \A r \in Raw : w[r] \in Link_
    <3>. TAKE r \in Raw
    <3>1. CASE IsFree(r)
      <4>. PICK j \in 1..n : order[j] = r
        BY <1>1, <3>1 DEF IsFree
      <4>1. j # n => j + 1 \in 1..n
        BY <1>1
      <4>2. j # n => order[j + 1] \in Raw
        BY <1>1, <4>1, Zenon
      <4>. QED  BY <1>9, <4>2 DEF Link_
    <3>2. CASE ~IsFree(r)
      BY <1>10, <3>2 DEF PoolTypes
    <3>. QED  BY <3>1, <3>2
  <2>. QED  BY <2>1, <2>2
<1>12. next_' = w
  BY <1>2
<1>. QED  BY <1>2, <1>9, <1>10, <1>11, <1>12

\* alloc takes the object freed first, or one that was never used.
LEMMA AllocRawIs ==
  ASSUME PoolTypes, NEW k \in 0..Len(order), FreeInv(k), NEW u \in User, AllocRaw(u),
         NEW raw, raw = (IF Len(order) = 0 THEN allocated + 1 ELSE order[1])
  PROVE  /\ raw \in Raw /\ stands[u] = "idle" /\ allocs' = allocs + 1 /\ allocs < Allocs
         /\ next_' = Linked(Reversed(Chain(free_head)))
         /\ free_head' = NoRaw
         /\ Len(order) # 0 => reader_tail' = order[Len(order)]
         /\ reader_head' = (IF Len(order) \in {0, 1} THEN NoRaw ELSE order[2])
         /\ allocated' = (IF Len(order) = 0 THEN allocated + 1 ELSE allocated)
         /\ order' = (IF Len(order) = 0 THEN order ELSE Tail(order))
         /\ ref_cnt' = [ref_cnt EXCEPT ![raw] = @ + 1]
         /\ has' = [has EXCEPT ![u][raw] = @ + 1]
         /\ UNCHANGED <<stands, gives>>
<1>. PICK n : n = Len(order)
  OBVIOUS
<1>1. /\ order \in [1..n -> Raw] /\ n \in Nat /\ k \in Nat /\ k <= n /\ DOMAIN order = 1..n
      /\ NoRaw \notin Raw
  <2>1. NoRaw \notin Raw
    BY DEF Raw, NoRaw
  <2>. QED  BY <2>1 DEF PoolTypes
<1>. PICK s : s = Reversed(Chain(free_head))
  OBVIOUS
<1>. DEFINE First == IF reader_head # NoRaw THEN reader_head ELSE IF s # <<>> THEN s[1] ELSE NoRaw
            New == IF First # NoRaw THEN First ELSE allocated + 1
<1>2. /\ stands[u] = "idle" /\ allocs' = allocs + 1 /\ allocs < Allocs /\ UNCHANGED <<stands, gives>>
      /\ New \in Raw /\ next_' = Linked(s) /\ free_head' = NoRaw
      /\ reader_tail' = (IF s # <<>> THEN s[Len(s)] ELSE reader_tail)
      /\ reader_head' = (IF First # NoRaw THEN next_'[First] ELSE NoRaw)
      /\ allocated' = (IF First # NoRaw THEN allocated ELSE allocated + 1)
      /\ order' = (IF First # NoRaw /\ order # <<>> /\ First = order[1] THEN Tail(order) ELSE order)
      /\ ref_cnt' = [ref_cnt EXCEPT ![New] = @ + 1]
      /\ has' = [has EXCEPT ![u][New] = @ + 1]
  BY DEF AllocRaw
<1>3. /\ \A j \in 1..n : next_'[order[j]] = IF j = n THEN NoRaw ELSE order[j + 1]
      /\ s = [i \in 1..n - k |-> order[k + i]]
  BY <1>2, LinkedIs
<1>4. Len(s) = n - k /\ (s = <<>> <=> k = n) /\ \A i \in 1..n - k : s[i] = order[k + i]
  <2>1. s = [i \in 1..n - k |-> order[k + i]] /\ n - k \in Nat
    BY <1>1, <1>3
  <2>2. Len(s) = n - k /\ \A i \in 1..n - k : s[i] = order[k + i]
    BY <2>1
  <2>3. s \in Seq(Raw)
    BY <1>1, <2>1
  <2>4. s = <<>> <=> Len(s) = 0
    BY <2>3, EmptySeq, Zenon
  <2>5. n - k = 0 <=> k = n
    BY <1>1
  <2>. QED  BY <2>2, <2>4, <2>5, Zenon
<1>5. k # n => n - k \in 1..n - k /\ 1 \in 1..n - k /\ k + (n - k) = n
  BY <1>1
<1>6. /\ reader_head = (IF k = 0 THEN NoRaw ELSE order[1])
      /\ k > 0 => reader_tail = order[k]
  BY DEF FreeInv
<1>7. n # 0 => order[1] \in Raw /\ order # <<>> /\ 1 \in 1..n
  BY <1>1
<1>8. First = IF n = 0 THEN NoRaw ELSE order[1]
  <2>1. CASE k = 0 /\ n # 0
    <3>1. s # <<>> /\ s[1] = order[1]
      BY <1>1, <1>4, <1>5, <2>1
    <3>. QED  BY <1>6, <2>1, <3>1
  <2>2. CASE k = 0 /\ n = 0
    BY <1>4, <1>6, <2>2
  <2>3. CASE k # 0
    BY <1>1, <1>6, <1>7, <2>3
  <2>. QED  BY <2>1, <2>2, <2>3
<1>9. New = raw /\ (First # NoRaw <=> n # 0)
  BY <1>1, <1>7, <1>8
<1>. HIDE DEF First, New
<1>10. n # 0 => reader_tail' = order[n]
  <2>1. CASE k # n
    BY <1>2, <1>4, <1>5, <2>1
  <2>2. CASE k = n
    BY <1>1, <1>2, <1>4, <1>6, <2>2
  <2>. QED  BY <2>1, <2>2
<1>11. reader_head' = (IF n \in {0, 1} THEN NoRaw ELSE order[2])
  <2>1. CASE n = 0
    BY <1>2, <1>9, <2>1
  <2>2. CASE n # 0
    <3>1. reader_head' = next_'[order[1]]
      BY <1>2, <1>8, <1>9, <2>2
    <3>2. next_'[order[1]] = IF 1 = n THEN NoRaw ELSE order[1 + 1]
      BY <1>3, <1>7, <2>2
    <3>. QED  BY <2>2, <3>1, <3>2
  <2>. QED  BY <2>1, <2>2
<1>12. order' = (IF n = 0 THEN order ELSE Tail(order))
  BY <1>2, <1>7, <1>8, <1>9
<1>. QED  BY <1>2, <1>9, <1>10, <1>11, <1>12

\* SharedObjectPool::alloc keeps the invariant: it takes the object freed first, and moves
\* the whole list of the producers to the reader.
LEMMA AllocRawInv ==
  ASSUME PoolInv, NEW u \in User, AllocRaw(u)
  PROVE  PoolInv'
<1>0. PoolTypes /\ GiversInv /\ CountsInv
  BY DEF PoolInv
<1>. PICK k \in 0..Len(order) : FreeInv(k)
  BY DEF PoolInv
<1>. PICK n : n = Len(order)
  OBVIOUS
<1>. PICK raw : raw = IF n = 0 THEN allocated + 1 ELSE order[1]
  OBVIOUS
<1>1. /\ order \in [1..n -> Raw] /\ order \in Seq(Raw) /\ n \in Nat /\ DOMAIN order = 1..n
      /\ NoRaw \notin Raw /\ (\A r \in Raw : r # NoRaw)
      /\ \A i, j \in 1..n : order[i] = order[j] => i = j
  <2>1. NoRaw \notin Raw
    BY DEF Raw, NoRaw
  <2>2. order \in Seq(Raw) /\ DOMAIN order = 1..n
    BY <1>0 DEF PoolTypes
  <2>3. \A i, j \in DOMAIN order : order[i] = order[j] => i = j
    BY DEF FreeInv
  <2>4. n \in Nat /\ order \in [1..n -> Raw]
    BY <2>2
  <2>. QED  BY <2>1, <2>2, <2>3, <2>4
<1>2. /\ raw \in Raw /\ stands[u] = "idle" /\ allocs' = allocs + 1 /\ allocs < Allocs
      /\ next_' = Linked(Reversed(Chain(free_head)))
      /\ free_head' = NoRaw
      /\ n # 0 => reader_tail' = order[n]
      /\ reader_head' = (IF n \in {0, 1} THEN NoRaw ELSE order[2])
      /\ allocated' = (IF n = 0 THEN allocated + 1 ELSE allocated)
      /\ order' = (IF n = 0 THEN order ELSE Tail(order))
      /\ ref_cnt' = [ref_cnt EXCEPT ![raw] = @ + 1]
      /\ has' = [has EXCEPT ![u][raw] = @ + 1]
      /\ UNCHANGED <<stands, gives>>
  BY <1>0, AllocRawIs
<1>3. /\ next_' \in [Raw -> Link_]
      /\ \A j \in 1..n : next_'[order[j]] = IF j = n THEN NoRaw ELSE order[j + 1]
      /\ \A q \in Raw : ~IsFree(q) => next_'[q] = next_[q]
  BY <1>0, <1>2, LinkedIs
<1>4. ref_cnt[raw] = 0 /\ ~IsGiven(raw) /\ (IsFree(raw) <=> n # 0)
  <2>1. CASE n # 0
    <3>1. IsFree(raw)
      BY <1>1, <2>1 DEF IsFree
    <3>2. ~IsGiven(raw)
      BY <1>0, <3>1 DEF GiversInv, IsGiven
    <3>3. ~(ref_cnt[raw] > 0) /\ ref_cnt[raw] \in Nat
      BY <1>0, <1>2, <3>1 DEF GiversInv, PoolTypes
    <3>. QED  BY <2>1, <3>1, <3>2, <3>3
  <2>2. CASE n = 0
    <3>1. ~(raw <= allocated)
      BY <1>0, <2>2 DEF PoolTypes
    <3>2. ~IsGiven(raw) /\ ~IsFree(raw) /\ ~(ref_cnt[raw] > 0) /\ ref_cnt[raw] \in Nat
      BY <1>0, <1>2, <3>1 DEF CountsInv, PoolTypes
    <3>. QED  BY <2>2, <3>2
  <2>. QED  BY <2>1, <2>2
<1>5. has[u][raw] = 0
  <2>1. has[u][raw] \in {0, 1}
    BY <1>0, <1>2 DEF PoolTypes
  <2>. QED  BY <1>0, <1>2, <1>4, <2>1, ReferencesSome
<1>6. allocs' \in 1..Allocs
  BY <1>0, <1>2, PoolAssumption DEF PoolTypes
<1>7. /\ Cardinality(References(raw))' = Cardinality(References(raw)) + 1
      /\ \A q \in Raw : q # raw => References(q)' = References(q)
      /\ has' \in [User -> [Raw -> {0, 1}]]
  BY <1>0, <1>2, <1>5, <1>6, ReferencesMore
<1>8. /\ ref_cnt' \in [Raw -> Nat]
      /\ \A q \in Raw : ref_cnt'[q] = IF q = raw THEN ref_cnt[raw] + 1 ELSE ref_cnt[q]
  BY <1>0, <1>2 DEF PoolTypes
<1>9. /\ order' \in Seq(Raw) /\ Len(order') = (IF n = 0 THEN 0 ELSE n - 1)
      /\ DOMAIN order' = 1..Len(order')
      /\ n # 0 => \A i \in 1..n - 1 : order'[i] = order[i + 1]
  BY <1>1, <1>2
<1>10. \A r : IsFree(r)' <=> IsFree(r) /\ r # raw
  <2>1. CASE n = 0
    BY <1>1, <1>2, <2>1 DEF IsFree
  <2>2. CASE n # 0
    <3>. TAKE r
    <3>1. IsFree(r)' <=> \E i \in 1..n - 1 : order[i + 1] = r
      BY <1>9, <2>2 DEF IsFree
    <3>2. IsFree(r) <=> \E i \in 1..n : order[i] = r
      BY <1>1 DEF IsFree
    <3>3. \A i \in 1..n - 1 : i + 1 \in 1..n /\ i + 1 # 1
      BY <1>1
    <3>4. \A i \in 1..n : i # 1 => i - 1 \in 1..n - 1 /\ (i - 1) + 1 = i
      BY <1>1
    <3>5. 1 \in 1..n /\ raw = order[1]
      BY <1>1, <2>2
    <3>. QED  BY <1>1, <3>1, <3>2, <3>3, <3>4, <3>5
  <2>. QED  BY <2>1, <2>2
<1>11. \A r : IsGiven(r)' <=> IsGiven(r)
  BY <1>2 DEF IsGiven
<1>12. allocated' \in 0..Raws
  BY <1>0, <1>2 DEF PoolTypes, Raw
<1>13. PoolTypes'
  <2>1. free_head' \in Link_ /\ reader_head' \in Link_ /\ reader_tail' \in Link_
    <3>1. n # 0 => order[n] \in Raw
      BY <1>1
    <3>2. n \notin {0, 1} => order[2] \in Raw
      BY <1>1
    <3>3. n = 0 => reader_tail' = reader_tail
      <4>. SUFFICES ASSUME n = 0 PROVE reader_tail' = reader_tail
        OBVIOUS
      <4>1. Reversed(Chain(free_head)) = [i \in 1..Len(order) - k |-> order[k + i]]
        BY <1>0, <1>2, LinkedIs
      <4>2. Reversed(Chain(free_head)) = <<>>
        BY <1>1, <4>1
      <4>. QED  BY <4>2 DEF AllocRaw
    <3>. QED  BY <1>0, <1>2, <3>1, <3>2, <3>3 DEF PoolTypes, Link_
  <2>2. \A w \in User, q \in Raw : has'[w][q] > 0 => allocs' > 0
    BY <1>6
  <2>3. allocs' \in 0..Allocs
    BY <1>6
  <2>. QED  BY <1>0, <1>2, <1>3, <1>7, <1>8, <1>9, <1>12, <2>1, <2>2, <2>3 DEF PoolTypes, Link_, Giver
<1>14. GiversInv'
  <2>1. ASSUME NEW v \in User
        PROVE  /\ stands'[v] = "idle" <=> gives'[v].raw = NoRaw
               /\ stands'[v] = "push" => next_'[gives'[v].raw] = gives'[v].seen
               /\ ~IsFree(gives[v].raw)'
    <3>1. ~IsFree(gives[v].raw)
      BY <1>0 DEF GiversInv
    <3>2. stands[v] = "push" => gives[v].raw \in Raw
      BY <1>0 DEF GiversInv, PoolTypes, Giver, Link_
    <3>3. gives' = gives /\ stands' = stands
      BY <1>2
    <3>4. stands[v] = "push" => next_'[gives[v].raw] = next_[gives[v].raw]
      BY <1>3, <3>1, <3>2
    <3>5. \A i \in DOMAIN order' : order'[i] # gives'[v].raw
      <4>. PICK g : g = gives[v].raw
        OBVIOUS
      <4>1. ~IsFree(g)'
        BY <1>10, <3>1
      <4>. QED  BY <3>3, <4>1 DEF IsFree
    <3>6. stands[v] = "idle" <=> gives[v].raw = NoRaw
      BY <1>0 DEF GiversInv
    <3>7. stands[v] = "push" => next_[gives[v].raw] = gives[v].seen
      BY <1>0 DEF GiversInv
    <3>. QED  BY <3>3, <3>4, <3>5, <3>6, <3>7 DEF IsFree
  <2>2. \A v, w \in User : gives'[v].raw = gives'[w].raw /\ gives'[v].raw # NoRaw => v = w
    BY <1>0, <1>2 DEF GiversInv
  <2>3. \A r \in Raw : ref_cnt'[r] > 0 => ~IsFree(r)' /\ ~IsGiven(r)'
    <3>. TAKE r \in Raw
    <3>1. CASE r = raw
      BY <1>4, <1>10, <1>11, <3>1
    <3>2. CASE r # raw
      <4>1. ref_cnt[r] > 0 => ~IsFree(r) /\ ~IsGiven(r)
        BY <1>0 DEF GiversInv
      <4>. QED  BY <1>8, <1>10, <1>11, <3>2, <4>1
    <3>. QED  BY <3>1, <3>2
  <2>4. \A v \in User : \A i \in DOMAIN order' : order'[i] # gives'[v].raw
    BY <1>2, <2>1 DEF IsFree
  <2>. HIDE DEF IsGiven
  <2>. QED  BY <2>1, <2>2, <2>3, <2>4 DEF GiversInv, IsFree
<1>15. CountsInv'
  <2>. SUFFICES ASSUME NEW q \in Raw
                PROVE  /\ IsFree(q)' \/ IsGiven(q)' \/ ref_cnt'[q] > 0 <=> q <= allocated'
                       /\ ref_cnt'[q] = Cardinality(References(q))'
    BY DEF CountsInv
  <2>1. IsFree(q) \/ IsGiven(q) \/ ref_cnt[q] > 0 <=> q <= allocated
    BY <1>0 DEF CountsInv
  <2>2. ref_cnt[q] = Cardinality(References(q)) /\ ref_cnt[q] \in Nat
    BY <1>0 DEF CountsInv, PoolTypes
  <2>3. ref_cnt'[q] = Cardinality(References(q))'
    <3>1. CASE q = raw
      BY <1>7, <1>8, <2>2, <3>1
    <3>2. CASE q # raw
      BY <1>7, <1>8, <2>2, <3>2
    <3>. QED  BY <3>1, <3>2
  <2>4. q <= allocated' <=> q <= allocated \/ q = raw
    <3>1. allocated \in Nat /\ q \in Nat
      BY <1>0, PoolAssumption DEF PoolTypes, Raw
    <3>2. CASE n = 0
      BY <1>2, <3>1, <3>2
    <3>3. CASE n # 0
      <4>1. IsFree(raw)
        BY <1>4, <3>3
      <4>2. raw <= allocated
        BY <1>0, <1>2, <4>1 DEF CountsInv
      <4>. QED  BY <1>2, <3>3, <4>2
    <3>. QED  BY <3>2, <3>3
  <2>5. ref_cnt'[q] > 0 <=> ref_cnt[q] > 0 \/ q = raw
    BY <1>4, <1>8, <2>2
  <2>. QED  BY <1>10, <1>11, <2>1, <2>3, <2>4, <2>5
<1>16. \E l \in 0..Len(order)' : FreeInv(l)'
  <2>1. CASE n = 0
    <3>1. /\ Len(order') = 0 /\ DOMAIN order' = {} /\ reader_head' = NoRaw
          /\ free_head' = NoRaw
      BY <1>2, <1>9, <2>1
    <3>2. FreeInv(0)'
      BY <3>1 DEF FreeInv
    <3>. QED  BY <3>1, <3>2
  <2>2. CASE n # 0
    <3>. PICK m : m = n - 1
      OBVIOUS
    <3>0. m \in Nat /\ m + 1 = n /\ Len(order') = m /\ DOMAIN order' = 1..m
          /\ \A i \in 1..m : order'[i] = order[i + 1] /\ i + 1 \in 1..n
      BY <1>1, <1>9, <2>2
    <3>1. \A i, j \in 1..m : order'[i] = order'[j] => i = j
      BY <1>1, <3>0
    <3>2. reader_head' = (IF m = 0 THEN NoRaw ELSE order'[1])
      <4>1. m = 0 <=> n \in {0, 1}
        BY <1>1, <2>2, <3>0
      <4>2. m # 0 => 1 \in 1..m /\ order'[1] = order[2]
        BY <3>0
      <4>. QED  BY <1>2, <4>1, <4>2
    <3>3. m > 0 => reader_tail' = order'[m]
      <4>1. m > 0 => m \in 1..m
        BY <3>0
      <4>. QED  BY <1>2, <2>2, <3>0, <4>1
    <3>4. \A i \in 1..m : next_'[order'[i]] = IF i = m THEN NoRaw ELSE order'[i + 1]
      <4>. TAKE i \in 1..m
      <4>1. next_'[order[i + 1]] = IF i + 1 = n THEN NoRaw ELSE order[(i + 1) + 1]
        BY <1>3, <3>0
      <4>2. i # m => i + 1 \in 1..m
        BY <3>0
      <4>3. i + 1 = n <=> i = m
        BY <1>1, <3>0
      <4>. QED  BY <3>0, <4>1, <4>2, <4>3
    <3>5. m + 1..m = {}
      BY <3>0
    <3>6. FreeInv(m)'
      BY <1>2, <3>0, <3>1, <3>2, <3>3, <3>4, <3>5 DEF FreeInv
    <3>. QED  BY <3>0, <3>6
  <2>. QED  BY <2>1, <2>2
<1>. QED  BY <1>13, <1>14, <1>15, <1>16 DEF PoolInv

\* Every step of the pool keeps the invariant.
LEMMA PoolStepInv == PoolInv /\ [PoolNext]_poolVars => PoolInv'
<1>. SUFFICES ASSUME PoolInv, [PoolNext]_poolVars PROVE PoolInv'
  OBVIOUS
<1>1. CASE UNCHANGED poolVars
  <2>0. PoolTypes /\ GiversInv /\ CountsInv
    BY DEF PoolInv
  <2>. PICK k \in 0..Len(order) : FreeInv(k)
    BY DEF PoolInv
  <2>1. PoolTypes'
    BY <1>1, <2>0 DEF PoolTypes, Link_, Giver, poolVars, freeQueue
  <2>2. GiversInv'
    BY <1>1, <2>0 DEF GiversInv, IsFree, IsGiven, poolVars, freeQueue
  <2>3. CountsInv'
    BY <1>1, <2>0 DEF CountsInv, References, IsFree, IsGiven, poolVars, freeQueue
  <2>4. FreeInv(k)' /\ k \in 0..Len(order)'
    BY <1>1 DEF FreeInv, poolVars, freeQueue
  <2>. QED  BY <2>1, <2>2, <2>3, <2>4 DEF PoolInv
<1>2. ASSUME NEW u \in User, LoadFreeHead(u) PROVE PoolInv'
  BY <1>2, LoadFreeHeadInv DEF LoadFreeHead
<1>3. ASSUME NEW u \in User, PushRaw(u) PROVE PoolInv'
  <2>1. CASE free_head = gives[u].seen
    BY <1>3, <2>1, RawPushedInv DEF PushRaw
  <2>2. CASE free_head # gives[u].seen
    <3>1. stands' = [stands EXCEPT ![u] = "push"]
      <4>1. stands \in [User -> {"idle", "load", "push"}]
        BY DEF PoolInv, PoolTypes
      <4>. QED  BY <1>3, <2>2, <4>1 DEF PushRaw
    <3>. QED  BY <1>3, <2>2, <3>1, LoadFreeHeadInv DEF PushRaw
  <2>. QED  BY <2>1, <2>2
<1>. QED  BY <1>1, <1>2, <1>3, AllocRawInv, ShareInv, ReleaseInv DEF PoolNext

\* The inductive invariant holds in every state of the pool, for any number of objects,
\* users and allocations (SharedObjectPool::alloc, release; MpscLinkQueueImpl).
THEOREM PoolInvAlways == PoolSpec => []PoolInv
BY PoolInitInv, PoolStepInv, PTL DEF PoolSpec
-----------------------------------------------------------------------------
\* What is checked on the small instances of the containers is each container's own
\* specification: while one moves, the others stutter.
THEOREM ContainersAreEach == ContainersSpec => QueueSpec /\ PoolSpec /\ MapSpec
<1>1. ContainersInit => QueueInit /\ PoolInit /\ MapInit
  BY DEF ContainersInit
<1>2. [ContainersNext]_allVars =>
        [QueueNext]_queueVars /\ [PoolNext]_poolVars /\ [MapNext]_mapVars
  BY DEF ContainersNext, allVars, Rests
<1>. QED  BY <1>1, <1>2, PTL DEF ContainersSpec, QueueSpec, PoolSpec, MapSpec

\* In every state: nothing is popped twice or before what its producer pushed earlier; pop
\* says empty only if that was so; no block is freed in a reader's hands; and the pool's
\* objects come back in the order they were freed (MpmcQueue, MpmcQueueOld,
\* HazardPointers, SharedObjectPool).
THEOREM EachOnceInOrderAlways == ContainersSpec => []EachOnceInOrder
<1>1. QueueInv /\ PoolInv => EachOnceInOrder
  BY QueueInvImplies, PoolInvImplies DEF EachOnceInOrder
<1>. QED  BY <1>1, ContainersAreEach, QueueInvAlways, PoolInvAlways, PTL
=============================================================================

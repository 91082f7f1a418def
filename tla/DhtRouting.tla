----------------------------- MODULE DhtRouting -----------------------------
(***************************************************************************)
(* The walks of DhtMemberImpl over its routing table (dht/dht.cpp):        *)
(* get_nearest_nodes, which answers findNode and findValue and starts      *)
(* every lookup, and distance, which decides whether a value is kept.      *)
(*                                                                         *)
(* A key is the set of its one-bits, bit 0 being the most significant; the *)
(* distance of two keys is their symmetric difference.  Bucket b holds the *)
(* nodes whose keys first differ from this node's at bit b.  Neither walk  *)
(* computes a distance from this node to another: both go by the bits.     *)
(***************************************************************************)
EXTENDS RoutingKeys, FiniteSets

Bit == 0..Bits - 1
Key == SUBSET Bit

VARIABLES nodes,  \* the active nodes of all buckets
          id, k,  \* the arguments: the key and how many nodes, or max_value
          bit,    \* the bit the walk is at
          pc,     \* where the walk is
          list,   \* vec
          res     \* res

args == <<nodes, id, k>>
walkVars == <<args, bit, pc, list, res>>

Xor(a, b) == (a \ b) \cup (b \ a)

\* operator< of keys: at the first bit that differs, b has a one.
Less(a, b) == \E i \in b \ a : \A j \in 0..i - 1 : j \in a <=> j \in b
Nearer(m, n) == Less(Xor(m, id), Xor(n, id))

IdXor == Xor(id, Self)

\* add_full_node puts a node in the bucket of the leading zeroes of key ^ key_.
InBucket(n, b) == b \in Xor(n, Self) /\ \A j \in 0..b - 1 : j \in n <=> j \in Self
BucketAt(b) == {n \in nodes : InBucket(n, b)}

\* T is the s nearest nodes of S, or all of S if there are no s.
AreNearest(T, S, s) ==
  /\ T \subseteq S /\ Cardinality(T) = Least(Cardinality(S), s)
  /\ \A m \in T, n \in S \ T : Nearer(m, n)

WalkInit ==
  /\ nodes \in SUBSET (Key \ {Self})
  /\ \A b \in Bit : Cardinality(BucketAt(b)) =< Slots
  /\ id \in Key
  /\ k \in 0..MaxArg
  /\ bit = 0 /\ list = {} /\ res = 0
  /\ pc \in {"up", "count"}

\* Mutant: a bucket gives its nodes in slot order.
TakeAny(b) ==
  \E T \in SUBSET BucketAt(b) :
    /\ Cardinality(T) = Least(Cardinality(BucketAt(b)), k - Cardinality(list))
    /\ list' = list \cup T

\* DhtBucket::get_nearest_nodes: the bucket's nearest nodes while vec has room.
Take(b) ==
  \E T \in SUBSET BucketAt(b) :
    /\ AreNearest(T, BucketAt(b), k - Cardinality(list))
    /\ list' = list \cup T

\* The first loop: buckets of the bits where the key differs from this node's,
\* from the most significant one on, until the list is full.
Up ==
  /\ pc = "up"
  /\ IF bit \in IdXor THEN Take(bit) ELSE UNCHANGED list
  /\ IF (bit \in IdXor /\ Cardinality(list') >= k) \/ bit = Bits - 1
     THEN pc' = "check" /\ UNCHANGED bit
     ELSE bit' = bit + 1 /\ UNCHANGED pc
  /\ UNCHANGED <<args, res>>

\* Between the loops: the CHECK of what the first one found.
Turn ==
  /\ pc = "check"
  /\ IF Cardinality(list) < k
     THEN pc' = "down" /\ bit' = Bits - 1
     ELSE pc' = "found" /\ UNCHANGED bit
  /\ UNCHANGED <<args, list, res>>

\* The second loop: the other buckets, from the least significant bit back.
Down ==
  /\ pc = "down"
  /\ IF bit \notin IdXor THEN Take(bit) ELSE UNCHANGED list
  /\ IF (bit \notin IdXor /\ Cardinality(list') >= k) \/ bit = 0
     THEN pc' = "found" /\ UNCHANGED bit
     ELSE bit' = bit - 1 /\ UNCHANGED pc
  /\ UNCHANGED <<args, res>>

\* max_value is k, or twice the slots if it is not given.
MaxValue == IF k = 0 THEN 2 * Slots ELSE k

\* Mutant: a bucket counts only if it is not the first to reach the maximum.
CountBelow ==
  /\ pc = "count"
  /\ LET sum == res + Cardinality(BucketAt(bit)) IN
     IF bit \in IdXor /\ sum < MaxValue THEN res' = sum ELSE UNCHANGED res
  /\ IF bit = Bits - 1
     THEN pc' = "counted" /\ UNCHANGED bit
     ELSE bit' = bit + 1 /\ UNCHANGED pc
  /\ UNCHANGED <<args, list>>

\* The loop of distance.
Count ==
  /\ pc = "count"
  /\ LET sum == res + Cardinality(BucketAt(bit)) IN
     IF bit \in IdXor
     THEN res' = Least(sum, MaxValue)
     ELSE UNCHANGED res
  /\ IF (bit \in IdXor /\ res' = MaxValue) \/ bit = Bits - 1
     THEN pc' = "counted" /\ UNCHANGED bit
     ELSE bit' = bit + 1 /\ UNCHANGED pc
  /\ UNCHANGED <<args, list>>

WalkNext == Up \/ Turn \/ Down \/ Count
WalkSpec == WalkInit /\ [][WalkNext]_walkVars
-----------------------------------------------------------------------------
\* Types of the state: the arguments do not change, and the list holds no more
\* than k of the nodes, the second CHECK of get_nearest_nodes.
WalkTypes ==
  /\ nodes \subseteq Key \ {Self} /\ id \in Key /\ k \in Nat
  /\ bit \in Bit /\ res \in Nat
  /\ pc \in {"up", "check", "down", "found", "count", "counted"}
  /\ list \subseteq nodes /\ Cardinality(list) =< k

\* get_nearest_nodes returns the k nodes nearest to the key of all the active
\* nodes there are, though it orders by distance within a bucket only.
NearestFound == pc = "found" => AreNearest(list, nodes, k)

\* CHECK((el.get_key() ^ id) < id_xor): the first loop finds nodes nearer to the
\* key than this node.
FirstAreNearer == pc = "check" => \A n \in list : Nearer(n, Self)

\* distance returns how many active nodes are nearer to the key than this node,
\* up to max_value.
DistanceCounts ==
  pc = "counted" =>
    res = Least(Cardinality({n \in nodes : Nearer(n, Self)}), MaxValue)
=============================================================================

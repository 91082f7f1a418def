# Mirax-DHT in TLA+

TLA+ models of the distributed hash table in `src/dht` and of the concurrent
structures of its support library `src/mrxutils`, checked with TLC on small instances and, where
that could be done, proved with TLAPS for instances of any size.
Paths in this file are relative to the repository, `dht/dht.cpp` being
`src/dht/dht.cpp` of the tree beside this directory.

Contents: 1 the system; 2 the modules; 3 the runs; 4 fairness; 5 the proofs;
6 disagreements found; 7 what is not modelled; 8 what could come next; 9 how to run it.

## 1. The system

A DHT member keeps a routing table of other members, keeps values for keys that
are near its own key, and looks keys up by asking nodes that are ever nearer.
It is a Kademlia: the distance of two keys is their XOR.

Everything runs in actors. An actor handles one message at a time, to the end;
messages between actors, and the answers of ADNL (the network layer), arrive in
any order. There are no locks and no shared memory among DHT actors, so one
handler is one action of a model, and what is hard is the order of handlers. Below
the actors, `mrxutils` has what threads share: queues, waiters, reclamation of
memory, a hash map. There one access to shared memory is one action.

| component | state | operations | interacts with |
|---|---|---|---|
| `DhtQuery`, `DhtQueryFindNodes`, `DhtQueryFindValue` (`dht-query.*`) | `list_`, `pending_ids_`, `active_queries_`, `promise_` | `start_up`, `add_nodes`, `send_queries`, `finish_query`, `on_result`, `finish` | created by the member and by `DhtQueryStore`; sends queries through ADNL; sends nodes to `DhtMember::add_full_node` |
| `DhtQueryStore` (`dht-query.*`) | `value_`, `list_`, `remaining_`, `success_`, `fail_`, `promise_` | `start_up`, `send_stores`, `store_ready` | creates a `DhtQueryFindNodes`; sends `store_in` to the member and `dht.store` through ADNL |
| `DhtBucket` (`dht-bucket.*`) with `DhtRemoteNode` (`dht-remote-node.*`) | `active_nodes_`, `backup_nodes_`; per node `missed_pings_`, `last_ping_at_`, `ready_from_`, `failed_from_` | `add_full_node`, `check`, `send_ping`, `receive_ping`, `demote_node`, `promote_node` | called by the member; pings through ADNL, answered in `receive_ping` |
| routing table of `DhtMemberImpl` (`dht.cpp`) | 256 buckets | `get_nearest_nodes`, `distance` | read by requests, lookups, stores, the sweep |
| stored values of `DhtMemberImpl` | `values_`, `last_check_key_` | `store_in`, `dht.findValue`, the sweep of `check` | written by peers and by this member's own stores; the sweep starts stores |
| own values of `DhtMemberImpl` | `our_values_`, `last_republish_key_`, `republish_att_` | `set_value`, the republication of `check` | starts stores |
| requests of `DhtMemberImpl` | counters | `receive_query` and six `process_query` | all of the above |
| persistence of `DhtMemberImpl` | the RocksDb, `next_save_to_db_at_` | `start_up`, `save_to_db` | buckets |
| keys, values, update rules (`dht-types.*`), node descriptions (`dht-node.*`) | none | checks, `DhtValue::update` | stored values |
| waiters (`MpmcWaiter.h`) | `state_`, the parked workers | `wait`, `stop_wait`, `notify` | the workers and producers of a queue |
| pollable queue (`MpscPollableQueue.h`) | two vectors, a flag, an eventfd | `writer_put`, `reader_wait_nonblock`, `reader_get_unsafe` | threads that write to a scheduler, and its thread |
| MPMC queues (`MpmcQueue.h`) over `HazardPointers` | blocks in a list, positions, hazard pointers, retired blocks | `push`, `try_pop`, `protect`, `retire` | any threads |
| `EpochBasedMemoryReclamation` | an epoch, each thread's epoch and three bags | `lock`, `unlock`, `retire`, `retire_sync` | readers and writers of shared pointers |
| `StealingQueue` | a ring, its head and tail | `local_push`, `local_pop`, `steal` | its worker and thieves |
| `ConcurrentHashMap` (`ConcurrentHashTable.h`) | an array of slots, the state of a migration | `insert`, `find`, `migrate` | any threads |
| `SharedObjectPool` over `MpscLinkQueue` | reference counts, the free list, its reader | `alloc`, copy and release of a pointer | its owner and users |
| chain buffer (`buffer.h`) | a chain of nodes over raw buffers | `append`, `sync_with_writer`, `advance` | a writer and a reader |
| the rest of `mrxutils` | | strings, JSON, crypto, ports, sequential helpers | |

What makes each correct, and where it is hard:

* **Lookup.** Answers overlap and come in any order, nodes fall off `list_` while
  they are being asked, a value ends the lookup with queries in flight. It must
  end, ask nobody twice, keep at most `a_` queries in flight and never idle, and
  return the `k_` nearest of all it heard of, each of them asked.
* **Store.** Some of the `k_` stores fail and some time out. The result must be
  reported once, after all of them; the value must reach all of the nearest
  nodes, and stay here exactly if this node is among those.
* **Bucket.** Answers arrive after their node was demoted, replaced or entered
  anew; `missed_pings_` counts pings sent, not pings lost. Lookups may be given
  only nodes that have answered; a node that answers must not be dropped or
  fail; no slot stays empty with a ready candidate; peers that left must go.
* **Routing walks.** They never compare nodes of different buckets; that the
  result is in order of distance rests on the order in which buckets are visited.
* **Stored values.** Stores of older and newer values arrive in any order, around
  expiry and removal. Nobody may get an older value than one accepted before;
  the sweep must come round to each value though the map changes around it.
* **Own values.** Each must be stored again and again until it has nearly expired.
* **Overlay nodes.** A value of an overlay is merged with each update and cut to its
  size. No node's description may be replaced by an older one.
* **Persistence.** One bucket is saved at a time, and none that is empty; a record may
  hold twice as many nodes as a restart has slots for. A restart must bring back
  what was in use, and nothing that left long ago.
* **Requests.** A member answers from a table that knows few of the others, and
  confirms values it drops. A value that was reported stored must still be found.
* **Waiters, pollable queue.** A worker that found nothing goes to sleep while work is
  being added; who adds it looks at the state once. No wake-up may be lost.
* **Queues, pool, hash map.** Slots are claimed before they are filled; a block, an
  object or an array is left behind while others still work on it. What is put in
  must come out once and in order, a key must keep its value over migrations.
* **Reclamation.** Between the load of a pointer and its protection the object may be
  retired. Nothing may be freed that a reader may still use.
* **Chain buffer.** The reader follows the writer's counters from one node to the next,
  which the writer may be about to replace. It must read what was written.

The list of hazards, each at its line and with the properties that catch it, is
in `PROJECT.json`.

## 2. The modules

| module | models | state and actions, and what they stand for |
|---|---|---|
| `Minimum` | | the smaller of two numbers |
| `Closest` | the order of nodes | a node is its XOR distance to the one key at hand, a natural number (for one key, XOR is a bijection); `ClosestIn(S, c)` the c nearest of S |
| `DhtNodes` | | the constants of the lookup modules: nodes, `k_` and `a_` |
| `DhtLookup` | an abstract specification: what a lookup promises | nodes known, asked, answered, the outcome; no list, no pending set, no counter |
| `DhtQuery` | `DhtQueryFindNodes` and, with `FindValue`, `DhtQueryFindValue` | `StartUp`, and `OnNoAnswer`/`OnNodes`/`OnValue` for the branches of `on_result`, each with the `finish_query` and `send_queries` it ends in; `inflight` is what ADNL still has to answer |
| `DhtAddNodes` | the loop of `add_nodes`, node by node | `DhtQuery` takes the loop in one step, as `ClosestIn`; this module is the loop |
| `DhtQueryStore` | `DhtQueryStore` with the FindNodes actor it creates | extends `DhtQuery`, whose variables are the FindNodes actor's: `FindStep` (any step of it), `SendStores`, `StoreReady` |
| `DhtNetwork` | a network of members: `send_store`, then `get_value_in`, and the requests `dht.findNode`, `dht.findValue`, `dht.store` they send | composes `DhtQueryStore` and `DhtQuery`; peers answer from their tables (`FindNode`, `ValueNotFound`, `ValueFound`) and take values (`StoreArrives`, `StoreAnswer`); any query may be lost (`QueryLost`), a store may arrive after its sender has given up. Keys are numbers and a bucket is a common part of two keys above a bit, for which `Weight[b]` is 2^b |
| `BucketSize`, `RoutingKeys` | | the constants of one bucket, and of the table |
| `DhtSlots` | an abstract specification: a bucket for the rest of the member | two arrays of k slots: `Enter`, `Arrange`; no pings, no times |
| `DhtBucket` | a bucket, its records, peers and network | `AddFullNode`, `Check` (with `send_ping`, `demote_node`, `promote_node`), `ReceivePing`, `ReceiveBadPing`; external: `Lose`, `Leave`, `Tick` |
| `DhtPersistence` | `save_to_db` and `start_up` over any bucket that `DhtSlots` allows | `Work` (a step of `DhtSlots`), `SaveToDb`, `Restart` with the loop of `start_up`; external: `Write` |
| `DhtRouting` | `get_nearest_nodes` and `distance` | one action an iteration: `Up`, `Turn`, `Down`; `Count` |
| `Cyclic` | the way `check` steps through a `std::map` | `Successor`: lower bound, one on, back to the beginning |
| `DhtValues` | `values_`, `store_in`, the update rules, the sweep | `StoreIn`, `FindValue`, `Sweep`; external: `Tick`, `Move` |
| `OverlayNodes` | the update of a value that lists an overlay's nodes | `StoreNodes`, `UpdateNodes`, `TakeEntry` (an iteration of either loop), `CutNodes`, `RemoveNodes` |
| `DhtOwnValues` | `our_values_`, `set_value`, the republication | `SetValue`, `RepublishOwn`; external: `OwnTick` |
| `WaiterClient` | the threads of `test_waiter_stress` (`mrxutils/test/MpmcWaiter.cpp`) | producers add work, by `fetch_add` or by a relaxed store, and notify; workers look, wait, stop waiting, work |
| `MpmcWaiter`, `MpmcEagerWaiter` | `MpmcSleepyWaiter`, `MpmcEagerWaiter` | extend `WaiterClient`; a step is an access to `state_` or a critical section |
| `PollableQueue` | `MpscPollableQueue` with the eventfd of Linux | `Write`, `Read`, by the sections of `lock_` and the accesses to the eventfd |
| `MpmcQueue` | `MpmcQueue` and `MpmcQueueOld` with `HazardPointers` | `push` and `try_pop` of the design the plan names, `protect`, the scan of `retire` |
| `EpochReclamation` | `EpochBasedMemoryReclamation` and its stress test | `lock`, `unlock`, `retire`, `retire_sync`, load by load |
| `StealingQueue` | `StealingQueue` | `local_push`, `local_pop`, `steal`, slot by slot; `head_`, `tail_`, `buf_` as in the code, `place` and `local` where a worker is and its local variables |
| `ConcurrentHashMap` | `ConcurrentHashMap`, `AtomicHashArray` | `insert`, `find`, and the migration that all threads share, slot by slot |
| `SharedObjectPool` | `SharedObjectPool`, `SharedPtr`, `MpscLinkQueue` | `alloc`, copy, release; `push` and `pop_all`, link by link |
| `ChainBuffer` | `ChainBufferWriter`, `ChainBufferReader`, `BufferRaw` | `append`, `prepare_append` of a new node, `sync_with_writer`, `advance` |

`MC*` modules give instances for TLC, `*Proofs` modules hold theorems. `MCLookup`,
`MCStores`, `MCTable`, `MCPublished`, `MCWaiters` and `MCContainers` put parts that
share no state side by side: a behaviour shows one part, chosen in the initial
state, and the variables of the others rest. Definitions
introduced as mutants state what a slip in the code would do; they are used only
to see that a property fails when the code is wrong, by no specification.
Variables marked *history* record what happened and are read by no guard.

How the data was abstracted, and why nothing is lost by it:

* **Nodes as distances** (`Closest`, lookup, store). `list_` and `pending_ids_` are
  ordered by `id ^ key_`, and only that order is ever looked at. Lookups see no
  node's content: a node is offered to the member, listed or asked.
  Ids near this node's own are not special to the lookup: it does not exclude
  itself from what peers send, nor does the model.
* **Slots as sets** (`DhtBucket`). Loops take the first slot that qualifies; here
  any candidate may be first. That is more than the code does, so what holds here
  holds there.
* **Time in units.** Half a minute in `DhtBucket`: the code compares ages with 60
  seconds (`failed_from_`, and `ping_timeout_` for `last_ping_at_`); a ping ends
  after 10 to 20 seconds, within the unit it was sent in or the next. One minute in the value modules: the sweep and the republication
  leave a margin of 60 seconds. Ages stop growing when the code cannot tell them
  from greater ones.
* **Answers to a ping.** An accepted answer is a description of the node that was
  pinged; one that is stale or malformed is `ReceiveBadPing`. That an answer
  names the node it was asked of is what `CHECK` in `update_value`
  (`dht-remote-node.cpp:33`) relies on. The newer address `update_value` takes over
  is not kept.
* **Keys as sets of bits** (`DhtRouting`). XOR is the symmetric difference, and
  `Less` is `operator<`, the first differing bit; nothing else of a key matters.
* **Values as their ttl** (`DhtValues`, `DhtOwnValues`). Update rules, expiry and
  republication look at the ttl only. Invalid values change nothing (`check()`
  comes first), so they are left out. All values of one key share an update rule.
* **Entries of the same size** (`OverlayNodes`). The loop that cuts a value drops random
  entries until the rest fit; with one size that leaves a number of them.
* **A settled network** (`DhtNetwork`). Tables are chosen anew for each answer, from all
  that a full bucket of `k_` members of each distance allows, and do not forget.
* **Accesses as steps** (`mrxutils`). Threads interleave by accesses to what they share;
  an access to what only they can change joins the next step. That is sequential
  consistency, which the code asks for less often than it gets. The one reordering
  modelled is a store that is delayed past a later load (`relaxed` in `WaiterClient`),
  since the test of the waiters adds work that way.
* **Freed memory is not used again** in the models of reclamation, so that a use of it
  can be seen. Freed objects of `SharedObjectPool` are used again: that is its purpose.
* **One pointer for each user and object** (`SharedObjectPool`). Of a user that has
  several to one object only the last to go matters: the count is above zero till then.
* **Routing seen from the values** is what `distance(key, k_ + 10)` returns: 0, the
  maximum, or between. `Move` changes it at any time, as peers come and go.

## 3. The runs

Violated runs are in section 6. All bounds are in the `.cfg` files, and in the
`INSTANCE`s of `MCStores`, `MCWaiters` and `MCContainers`.

| run | asks | instance, and why it is enough |
|---|---|---|
| `lookup` (309,000 states) | does the lookup end, each node asked once, the nearest first, within `a_`, with the nearest known all asked? Does it implement `DhtLookup`? Does the loop of `add_nodes` compute what `DhtQuery` takes in one step? | 6 nodes, k = 3, a = 2, `FindValue` (the kind with more ways to end); each answer names any set of nodes. Nodes are evicted while pending, asked and answered, and evicted nodes are named again. The loop takes all lists of up to 3 nodes, repetitions included, one after the other |
| `network` (141,000) | does a value that was reported stored get found? Do lookups find the nearest of all members? Is a store's result reported once, after all answers? | 6 members with keys of 4 bits, k = a = 2: four share a bucket, which holds two, so tables differ, and the second nearest is found only by asking on; `Margin` 0 makes members drop values. And a store alone, with any answers from the same six nodes, while this one is at distance 6, so that it is nearer than, among, and farther than those found |
| `table` (235,000) | does the bucket keep, promote and drop the right nodes, implementing `DhtSlots`? Do gone peers leave? What comes back after a crash? Are the nodes returned the nearest, and is the distance right? | bucket: 2 peers, one slot of each kind, 2 missed pings: both arrays overflow, a late answer meets its node in the other array, gone, or back. Persistence: 3 peers, two slots of each kind, 2 writes under way, so a record has more nodes than slots. Walks: every table over 3-bit keys with up to 2 nodes a bucket, every key, 0 to 4 nodes asked for: both loops stop at both ends and inside a bucket |
| `values` (104,000) | who sees an older value? Does the sweep come round, remove what expired, republish what is nearest? Is a value of this member stored again and again, in turn? Does an overlay's value keep the latest? | 3 keys, one of each rule; a ttl that the first minute ends and one beyond the last minute. Overlay: 3 nodes, 2 versions, room for 2 |
| `waiters` | is a wake-up lost, or does a `CHECK` fail? | 1 producer and two pieces of work; 3 workers around the sleepy waiter, 2 around the eager one with 1 and 2 rounds: one parks, one searches and one works at a time. Pollable queue: 2 writers with two values each, so a write meets a reader that sleeps, wakes and reads |
| `containers` (1.55 million) | is what is put in taken out, once, in order (`EachOnceInOrder`, which for the MPMC queues also says that an empty queue is empty and no block is freed that a reader may use; `EachInOnePlace`; `ReadsWhatWasWritten`)? Does a key keep its value? Is anything retired deleted while it is held? | MPMC queues: 2 producers and a consumer, or one and two, blocks of 2 and of 1, two blocks. Epochs: 2 threads, 2 objects, global epochs 0 to 4. Hash map: 3 threads, 2 keys, 3 arrays: two migrations, one met by an insert and a find. Stealing queue: 2 workers, a ring of 4, 5 values: it wraps and overflows. Pool: 3 threads, 3 objects, 5 allocations: objects are used again while the list is read. Chain buffer: 4 bytes, buffers of 2 |

Properties worth a second look:

* `FailsOnlyIfSilent` and `DropsOnlyIfMissed` relate the bucket's bookkeeping to
  what really happened on the network (`unanswered`): `missed_pings_` is increased
  when a ping is *sent*, so it runs ahead of the pings lost, and the slack is
  exactly the ping in flight.
* `NoReadyNodeWaits` holds of both ways a slot and a candidate can meet: `check`
  frees slots and then fills them; `receive_ping` promotes on the answer.
* `NearestFound` says the walk by bits is a walk by distance.
* `StoredIsFound` says why a store may report success after one confirmation, which a
  peer that dropped the value gives as well: a copy remains with the nearest that
  was reached, and every complete lookup comes to it. It is the composition of lookup,
  store and the rule of `store_in`, and holds for no one of them.
* `EmptyWasNeverSaved` is what makes `save_to_db` right although it writes no empty
  list. `ActiveComeBack` rests on `export_nodes` listing the active nodes first.
* `ImplementsSlots` is the promise that `DhtPersistence` is built on.
* `NoLostWakeUp` needs the invariant of the comment on `MpmcSleepyWaiter`, here
  `WorkIsNoticed`: once nobody is in `notify` any more, and there is work, some worker
  is up and will look at the queue again.
* `NeverOlder` compares what is held with everything ever accepted, over removals
  by queries and by the sweep. It fails if a removal forgets a value that could
  still be superseded; it holds because what is removed has expired (a later
  store outlasts it) or is too far away (after which the key starts over).
* `EachInOnePlace` has a thief copy from slots that their owner pops and overwrites
  meanwhile: only the head that it read first, and validates last, tells whether
  what it copied is of use. It fails if that is not validated.
* `ValuesAreKept` includes `MigrationFits`, which this run cannot break: its arrays are
  searched whole (`Window` 4, the longest array 4). What becomes of it beyond the 300 slots
  `with_value` looks at is said by the theorem's hypothesis (section 5) and in section 6.
* `NothingHeldIsDeleted` is why there are three bags: with two it fails.
* `SweepIsFair` and `TurnsAreFair` hold although the map changes between two steps
  of the iteration, for the iteration remembers a key and not a position.

`CHECK_DEADLOCK FALSE` is set where everything may come to its end: `network` and
`store_reports` (an actor that stops), `waiters` (threads that are done). Elsewhere an
end is a stuttering step that says where it may be (`WalkEnded`, `Rests`), and any
other is an error. No symmetry is used, and no state constraint.

`MaxTime` and the ttls bound time in the value modules, and `MaxArg` the argument
of the walks; what the last minute cuts off is only that more values expire.
`Answers` bounds what a peer sends to `add_nodes` at a time, `MaxWriting` the writes the
database has still to carry out. `MaxEpoch`, `Arrays`, `Allocs`, `Values`, `Bytes` and
the plans of `MpmcQueue` end the behaviours of the containers.

## 4. Fairness

* *ADNL ends every query.* `send_one_query` and `send_stores` pass a timeout of 2
  to 4 seconds, `send_ping` 10 to 20; ADNL answers the promise with the answer or
  an error. Hence `WF` of every `OnResult(n)`, `StoreReady(n)`, `Settle(n)`. The
  disjuncts of one are not fair by themselves: all answers may be errors.
* *An actor that was created is started, and messages between actors arrive.* Hence
  `WF` of `StartUp`, `SendStores`.
* *The alarm rings* every second (`DhtMemberImpl::alarm` sets it again before
  `check`). Hence `WF` of `Check`, `Sweep`, `Republish`. In `DhtBucket` also
  `WF` of `Tick`: time passes.
* Nothing is assumed of the stores the sweep and the republication start: a value is
  handed to `send_store` again whether or not the stores before have ended
  (`NearestRepublished`, `FirstRepublished`), as one that knows no node never does
  (finding 2).
* *Every thread runs*: `WF` of each thread's step in `MCWaiters`, and a store becomes
  visible in the end (`BufferDrains`). A condition variable may wake a worker that
  nobody notified (`SpuriousWake`); that has no fairness and is not relied on.

`TableFairness`, `PublishedFairness` and `StoresFairness` state these for the parts of
the combined modules.

Nothing is assumed of peers: they may leave, answer nonsense or not answer.

## 5. The proofs

Every theorem holds for all values of the constants under the assumptions stated with
them where they are declared: finite sets of nodes, keys and workers, positive `k_`,
`a_`, ring sizes and numbers of threads, at least one missed ping, a `ping_timeout_` of
two units or more, at least two members in a network, and `Weight[b]` twice
`Weight[b - 1]`. A theorem that restricts them further says so. Each inductive
invariant was checked by TLC as an invariant of a small instance before it was proved.

* **`ClosestProofs`**: what `ClosestIn` returns: size, monotonicity, absorption
  (`ClosestIn(ClosestIn(S, c) \cup T, c) = ClosestIn(S \cup T, c)`), insertion
  (`InsertIsClosest`: inserting into a full list and dropping its last node keeps the c
  nearest), and that a non-empty set of naturals has a least element. The induction
  theorems of the library take an operator as argument, which the provers cannot
  instantiate, so inductions are done from the smallest counterexample.
* **`DhtQueryProofs`**: `QueryInv` joins all invariants of the lookup with
  `Bookkeeping`, which ties `asked`, `inflight` and `offered` together; none is
  inductive by itself (that `list_` is closest needs that pending nodes are listed,
  the count needs that nobody is asked twice). `SendQueriesInv` is the lemma all
  handlers end in. From it: `ListIsAlwaysClosest`, `NoNodeAskedTwice`,
  `ParallelismBounded`, `ResultIsExhausted`, `AnswerOnStopOnly`,
  `ClosestAskedFirst`, `ChecksHold` (if `a_ <= k_ + 1`: the exact converse of the
  first disagreement of section 6), and `QueryImplementsLookup`, the refinement.
* **`DhtNetworkProofs`**: three parts.
  `DhtNetwork`: `NetworkFindsNearest` and `NetworkFindsStored`. The first half
  is about tables alone: a member's table has, of each bucket of its own, `k_` nodes or all
  there are, hence a set of members that contains what each of its `k_` nearest would
  answer contains the `k_` nearest of all (`ClosedHoldsNearest`). The second half shows
  that a lookup all of whose queries were answered ends with such a set (`Taught`, with
  `QueryInv` of the lookup at work). So the value is sent to members near enough that
  `store_in` keeps it (`NearestKeep`), one of those that have it is among the nearest
  that any complete lookup asks, and that one does not answer that it lacks it
  (`KeeperAnswers`).
  `DhtQueryStore`: while the lookup runs, `QueryInv` carries the proof. Once
  it has answered it rests, and what it returned stays the `k_` nearest of all it
  heard of: `NodesCounted` says that each of them is awaited or counted. Hence
  `StoreReportsReplicated`, and, with `InsertIsClosest`, `StoreKeepsIfClose`.
  `DhtAddNodes`: the invariant of its loop and `InsertIsClosest` justify the one-step `add_nodes` of `DhtQuery` for lists of any length.
* **`DhtTableProofs`**: three parts.
  `DhtBucket`: the invariant adds `MissedWereLost` (the count exceeds the lost pings by
  the one in flight at most) and `NotReadyIsNew` (a node that is not ready and has lost
  no ping is so young that it is not replaceable yet). The first gives `OnlySilentFail`,
  the second `OnlyMissedDropped`. `BucketImplementsSlots` is the refinement of
  `DhtSlots`, action by action.
  `DhtPersistence`: `EmptyNeverSaved`, since records, in the database and on their way to
  it, stem from a bucket that was not empty, and `DhtSlots` never empties one;
  `ActiveAlwaysComeBack`, since the active nodes of a record are at most k and come first.
  `DhtRouting`: a walk's list is the nearest nodes of the buckets walked so far, because
  any node of a bucket the first loop visits is nearer than any of a later one, and all
  of the first loop are nearer than all of the second.
* **`DhtPublishedProofs`**: `Remembered`: a key not held was dropped when everything
  accepted for it had expired. `OnTheWay`: the keys the sweep has come to since it
  came to `k` lie on the cyclic way from `k` to where it is; the next key is
  beyond them, or `k` itself. `TurnsOnTheWay` is the same of the republication:
  `WayGrows` is about the way only, and serves both (`SweepStaysFair`,
  `OwnTurnsStayFair`). Of an overlay's value, the invariant is that what the loops have
  and what they have still to look at are *together* as the merged value is to be;
  `LatestAlwaysKept` is its case at the end, where nothing is left to look at.
* **`WaiterMapProofs`**: two parts.
  Sleepy waiter: the two counters packed in `state_` are the sizes of two sets
  (`CountersAgree`): `searching` of the workers that are up and have not stopped to search,
  or were told to wake and have not noticed; `parked` of those in `sleepers_`. With where
  a thread can be in each state of its slot that is enough for `ChecksHoldAlways`.
  `AtomicWorkIsNoticedAlways` is inductive together with it: a `notify` that returns
  early has seen a searching worker, all of which look again (`SearchersLook`), and
  the last worker that stops to search looks once more before it sleeps.
  Hash map: no slot ever changes its key once it has one, so a search that has passed a
  slot has passed it for good (`NoneBefore`), and a key has one slot of an array (`KeysInv`,
  with remainders that differ). During a migration a slot is open as long as its task
  is not taken or its helper has not come to it (`Pending`); tasks do not overlap (`TasksInv`),
  and when the last helper has left none is open. What was stored for a key is in an open slot
  of the old array, in the hands of the one helper that closed it, or in the new array,
  which nobody reads yet (`MovedInv`); so what was returned is still to be found (`Holds`,
  `ResultsInv`), and an insert or a find can come upon nothing else. The parts need each other:
  none is inductive alone. `ValuesAreKeptAlways` states, as a hypothesis, that `with_value`
  looks at every slot of each array (`Whole`). That is so when no array is longer than
  `Window` (`WindowSuffices`), 300 slots in the code; beyond, a migration
  can overflow, as the end of section 6 says.
* **`QueuePoolProofs`**: two parts.
  MPMC queues: that a value is popped once is no matter of one block or one step, so the
  invariant says of each value where it was put (`loc`, bound by an existential quantifier
  rather than by a variable of the model) and keeps that place when it is taken. A value
  placed is in its slot or has been popped (`SlotsInv`); of one producer, later values lie
  further on (`PushedInv`), and what a consumer has popped lies before what it is
  about to take (`PoppedInv`), so order is order of places. A slot claimed by readers is
  taken or has one reader (`ClaimsInv`); what a consumer that is to say "empty" has seen of
  the two counters is compared with the places of the values pushed before its call
  (`SeenInv`). `ConsumerInv`, `RetiredInv` and `FreedInv` are the hazard pointers: a consumer's block
  is protected since before it was last seen at `read_pos_`, and what is retired is
  behind that, so a scan that has asked a thread does not find it on that block later.
  For producers that argument fails, which is disagreement 5 of section 6; the proof shows
  that consumers are right nevertheless, in both designs.
  Object pool: the objects freed are one sequence, of which the first `k` are the reader's
  list, linked forwards, and the rest the queue's, linked backwards (`FreeInv`); a giver's
  object is on neither (`GiversInv`), and the count of an object is that of its references
  (`CountsInv`). A push asks no more than that what it has linked to is the head when it
  succeeds, which also an object that was taken and freed again in between may be.
  `ContainersAreEach` carries both, and what else is proved of a container, over to the
  specification that `containers` checks; with it, `EachOnceInOrderAlways`.
* **`ContainerProofs`**: three parts.
  Epochs: what a thread retires is deleted when its epoch has changed three times. Once
  the global epoch has moved on while somebody is locked it cannot move again before
  that one changes its own (`Stuck`), so two changes are possible while something
  is held and no third (`Young`). Hence `NothingHeldIsDeletedAlways`.
  Chain buffer: a node is final once the writer has left it, and the reader looks at its
  bytes once more after it has learnt that (`OperationInv`). Hence
  `ReadsWhatWasWrittenAlways`.
  Stealing queue: what a thief has copied is what the victim's slots hold for as long as
  the victim's head is the one it has read: those slots are in the ring then, and
  nobody writes to a slot in a ring, which is never longer than its N slots
  (`ThiefInv`, `RingInv`, `Apart`). So the `compare_exchange` that moves that head moves the values
  from one ring to the other, also when a worker steals from itself; `PlacesInv`, that
  each value is in one place, is kept by every step. Hence `EachInOnePlaceAlways`.

Every safety invariant of the passing runs is proved. Only model-checked: all liveness,
and `ENABLED` (both out of the prover's reach); that reports come if anybody was asked
and that sweeps come round are such, `NoLostWakeUp`, `Terminates`, `GoneLeaves` and
`RoomReturns` too; the fairness of the refinements (`DhtLookup` and `DhtSlots` have
none); the eager waiter and the pollable queue, of which only liveness is stated; and the
violated properties, which are false. No module uses a `RECURSIVE` operator.

## 6. Disagreements between the code and what it says

1. `query_check` (`NoAbort`). `finish_query` asserts `active_queries_ <= k_`, but `a_`
   bounds the number of active queries, and `create_global_config` admits any pair
   from 1 to 10. With `a_ >= k_ + 2` answers that name nearer nodes make the CHECK
   fail. With the defaults (k = 10, a = 3) it cannot: theorem `ChecksHold`.
2. `store_reports` (`Reports`). A store whose lookup finds no node sends no
   `dht.store`, so nothing calls `store_ready`: the promise is never answered and
   the actor stays, though a store without a successful query is to report
   "failed to make actual store query".
3. `values_lone` (`SignedRepublished`). The loop of the sweep is not entered when the
   next value is the one it came to last, which a value that is alone always is: it
   is not republished, though its rule asks for that. (Nor is it removed when it
   has expired, which `ExpiredLeaves` therefore excepts; a query for it does.)
4. `own_latest` (`LatestRepublished`). `our_values_.emplace` leaves the older value in
   place: a value set later for the same key is stored once, never republished.
5. `queue_freed` (`NoFreedBlockInUse`). In `MpmcQueue` a block is retired when `read_pos_`
   has left it, while `write_pos_` may still point to it: of two producers at the end
   of a block one has linked the next and not yet moved `write_pos_`. The other finds
   `write_pos_` unchanged after it has stored its hazard pointer, too late for the scan
   of `retire`, and works on a block that has been freed.
6. `hash_find` (`FindReturnsValues`). `find` of `ConcurrentHashMap` loads into its
   argument. A slot that was claimed by an insert without a value yet is closed by a
   migration and not moved; `find` reads the mark of the migration there, finds no
   slot in the next array, and returns the mark.

Seen while reading, without a run: `FloodControlStrict.h` (in `update`, where it sets
`without_update_`) goes without an update for as many events as still fit, the last of
which should set the time to wake up, so one event more than `count` is let through.
`LOG_CHECK(ok) << "Migration overflow"` (`ConcurrentHashTable.h`, `run_task`) says that all
that is moved finds a slot in the array of twice the size. But `with_value` looks at
300 slots from a key's position, and keys are moved in the order of their slots,
not in the one in which they came. Of an array of 1024, 300 keys of position 723 fill the
slots from 724 on; 249 of position 973 go round the end to slots 0 to 249, one of which
is taken by the key that made the array grow; the next key of position 723 finds no room
and starts a migration. Moved to 2048 slots, those 249 come first and take 974 to 1222, and
the last 50 of the others find nothing.
`MpmcSleepyWaiter::notify` has no fence before its load of `state_`, so where work is
added by a relaxed store, as in `test_waiter_stress_one_one`, a wake-up may be lost on
a processor that delays stores; what is checked of the sleepy waiter is restricted to
work added atomically (`~relaxed`), as the queues add it.

## 7. What is not modelled

* Values of one key under different rules: `DhtValue::update` (`dht-types.cpp:167`) goes
  by the rule of the value held; `DhtValues` gives each key one rule.
* The newer address a node's record takes over, which decides nothing here.
* `cached_values_`: declared in `dht-in.hpp`, used nowhere.
* Filling the table (`fill_att_`): a lookup of a random key near this node's, whose
  effect is that of any lookup, nodes offered to the buckets.
* Validation and signatures: a message is valid or is not, and an invalid one
  changes nothing. TL serialisation: layout without decisions.
* Actor framework, ADNL, keyring, RocksDb: not in the repository; modelled by how
  they are used.
* Of the structures modelled: `for_each` of the hash map and the retirement of its
  arrays; the unsafe variants of `MpscLinkQueue`, its `delay`, and the destruction of
  the pool; `cut_head`, prepending and the slice types of `buffer.h`; timeouts of the
  pollable queue; `closed_` of the waiters, which nothing sets.
* `SpinLock`, `TsList`, `ThreadLocalStorage`: a lock around each operation. `AtomicRead`: a
  sequence lock, right or wrong by the memory model rather than by interleaving.
* The sequential helpers of `mrxutils` (`OrderedEventsProcessor`, `ChangesProcessor`,
  `ObjectPool`, `FloodControl*`, `Heap`, `List`, ...): one thread uses them and a unit
  test reaches them.
* Strings, Unicode tables, JSON, crypto, compression, logging, wrappers of system calls,
  build artefacts: most of the repository's 35,000 lines, with no protocol in them.
  That is why the definitions, which stand for about 2,000 lines, cover little of the
  repository, though they cover most of `dht.cpp`, `dht-query.*`, `dht-bucket.*` and
  `dht-remote-node.*` that changes state.

## 8. What could come next

1. In `DhtValues`, rules that differ; in `DhtBucket`, addresses and versions.
2. The remaining parts of the structures of `mrxutils` listed in section 7, and a
   weaker memory model for them.

## 9. Running it

    tlc -workers 2 -config lookup.cfg MCLookup
    tlapm DhtQueryProofs.tla

Each run takes from a few seconds to about three minutes; `WaiterMapProofs` and
`QueuePoolProofs` take about ten minutes each, the other proof modules a few. `PROJECT.json` lists, for
each run, its module, its configuration and its properties; for each property a mutant
of a definition that breaks it; and for each definition the lines of code it stands for.

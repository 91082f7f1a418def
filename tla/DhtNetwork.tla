----------------------------- MODULE DhtNetwork -----------------------------
(***************************************************************************)
(* A settled network of members (dht/dht.cpp): one of them stores a value  *)
(* (DhtMemberImpl::send_store), and when the result is known another looks *)
(* it up (get_value_in).  The peers answer as receive_query and            *)
(* process_query do: from their routing tables, and from what store_in has *)
(* accepted.                                                               *)
(*                                                                         *)
(* Composes DhtQueryStore, which holds the lookup of the store, and        *)
(* DhtQuery, for the lookup of the value (instances Store and Get; the     *)
(* variables of both are those of these modules with an n before them).    *)
(* Keys are written relative to the value's key, so it is 0 and a member   *)
(* is its distance.  Only the members' tables are settled: queries are     *)
(* lost, and a dht.store may arrive after the store has given up waiting.  *)
(***************************************************************************)
EXTENDS DhtNodes, Minimum

\* The members are the nodes of DhtNodes.
CONSTANTS Bits,      \* the bits of a key, 256 in the code
          Weight,    \* what each bit of a key counts: Weight[b] is 2 ^ b
          Margin     \* the 10 of k_ + 10, store_in's limit of the distance

ASSUME WeightAssumption ==
  /\ Bits \in Nat /\ Weight \in [0..Bits -> Nat]
  /\ Weight[0] = 1
  /\ \A b \in 0..Bits - 1 : Weight[b + 1] = 2 * Weight[b]
\* A member knows some other one.
ASSUME MembersAssumption ==
  /\ \A n \in Node : n < Weight[Bits] /\ \E m \in Node : m # n
ASSUME MarginAssumption == Margin \in Nat

\* The lookup at work, the store, and what the members know of the value.
VARIABLES nlist, npending, nactive, nphase, npromise, ninflight, nasked, noffered,
          nstage, nstoring, nremaining, nsuccess, nfail, nkept, nresult,
          writer, reader,  \* the member that stores, the one that looks up
          getting,         \* the reader's lookup has begun
          onway,           \* members a dht.store is on the way to
          accepted,        \* members that answered a dht.store with dht.stored
          held,            \* members whose values_ has the value
          lacked,          \* members that answered dht.valueNotFound, on the way
          answeredAll      \* every query of both lookups was answered so far

findVars  == <<nlist, npending, nactive, nphase, npromise, ninflight, nasked, noffered>>
nstoreVars == <<nstage, nstoring, nremaining, nsuccess, nfail, nkept, nresult>>
peerVars  == <<onway, accepted, held, lacked>>
roles     == <<writer, reader>>
netVars   == <<findVars, nstoreVars, peerVars, roles, getting, answeredAll>>

Find == INSTANCE DhtQuery WITH FindValue <- FALSE,
  list <- nlist, pending <- npending, active <- nactive, phase <- nphase,
  promise <- npromise, inflight <- ninflight, asked <- nasked, offered <- noffered
Get == INSTANCE DhtQuery WITH FindValue <- TRUE,
  list <- nlist, pending <- npending, active <- nactive, phase <- nphase,
  promise <- npromise, inflight <- ninflight, asked <- nasked, offered <- noffered
Store(self) == INSTANCE DhtQueryStore WITH Self <- self, FindValue <- FALSE,
  list <- nlist, pending <- npending, active <- nactive, phase <- nphase,
  promise <- npromise, inflight <- ninflight, asked <- nasked, offered <- noffered,
  stage <- nstage, storing <- nstoring, remaining <- nremaining, success <- nsuccess,
  fail <- nfail, kept <- nkept, result <- nresult
-----------------------------------------------------------------------------
\* Bucket b of n, b counted from the least significant bit: the members whose
\* keys agree with n's above bit b, and differ in it.
Bucket(n, b) == {m \in Node : /\ m \div Weight[b + 1] = n \div Weight[b + 1]
                              /\ m \div Weight[b] # n \div Weight[b]}

\* What the active slots of n hold in a settled network: k_ members of every
\* bucket, or all there are.
Tables(n) ==
  LET Buckets == {Bucket(n, b) : b \in 0..Bits - 1} IN
  {T \in SUBSET (Node \ {n}) :
     \A B \in Buckets : Cardinality(T \cap B) = Least(K, Cardinality(B))}

\* get_nearest_nodes: the nearest of the table, as DhtRouting shows.
NearestTo(T) == ClosestIn(T, K)

\* Mutant: only a member that knows of none nearer keeps the value.
NearestOnly(n, T) == Cardinality(Before(T, n)) < 1

\* store_in: n keeps the value unless `distance` finds it too remote.
Near(n, T) == Cardinality(Before(T, n)) < K + Margin

NetInit ==
  /\ writer \in Node /\ reader \in Node
  /\ \E T \in Tables(writer) :
        nlist = NearestTo(T) /\ npending = NearestTo(T) /\ noffered = NearestTo(T)
  /\ nactive = 0 /\ nphase = "created" /\ npromise = Find!Unanswered
  /\ ninflight = {} /\ nasked = {}
  /\ nstage = "finding" /\ nstoring = {} /\ nremaining = 0 /\ nsuccess = 0 /\ nfail = 0
  /\ nkept = FALSE /\ nresult = "none"
  /\ getting = FALSE /\ answeredAll = TRUE
  /\ onway = {} /\ accepted = {} /\ held = {} /\ lacked = {}

\* Any query of a lookup may time out.
QueryLost(n) ==
  /\ IF getting THEN Get!OnNoAnswer(n) ELSE Find!OnNoAnswer(n)
  /\ answeredAll' = FALSE
  /\ lacked' = lacked \ {n}
  /\ UNCHANGED <<nstoreVars, onway, accepted, held, roles, getting>>

\* The lookup of the store: n answers dht.findNode from its table.
StartFind == /\ ~getting /\ Find!StartUp
             /\ UNCHANGED <<nstoreVars, peerVars, roles, getting, answeredAll>>
FindNode(n) ==
  /\ ~getting
  /\ \E T \in Tables(n) : Find!OnNodesFrom(n, NearestTo(T))
  /\ UNCHANGED <<nstoreVars, peerVars, roles, getting, answeredAll>>

\* The store sends dht.store to the nodes found.
StoreFound ==
  /\ \E self \in {writer} : Store(self)!SendStores
  /\ onway' = nstoring'
  /\ UNCHANGED <<accepted, held, lacked, roles, getting, answeredAll>>

\* process_query of dht.store: too remote a value is dropped, and confirmed.
StoreArrives(n) ==
  /\ n \in onway
  /\ onway' = onway \ {n}
  /\ accepted' = accepted \cup {n}
  /\ \E T \in Tables(n) : held' = IF Near(n, T) THEN held \cup {n} ELSE held
  /\ UNCHANGED <<findVars, nstoreVars, lacked, roles, getting, answeredAll>>

\* The writer's message store_in to itself; it is not lost.
StoreInOwn ==
  /\ nkept /\ writer \notin held
  /\ \E T \in Tables(writer) : Near(writer, T) /\ held' = held \cup {writer}
  /\ UNCHANGED <<findVars, nstoreVars, onway, accepted, lacked, roles, getting, answeredAll>>

\* A confirmation arrives, or the query times out, whatever became of it.
StoreAnswer(n) ==
  /\ \E self \in {writer}, ok \in BOOLEAN :
        /\ ok => n \in accepted
        /\ Store(self)!StoreAnswered(n, ok)
  /\ UNCHANGED <<peerVars, roles, getting, answeredAll>>

\* get_value_in: a new lookup, from the reader's table.
Begin ==
  /\ nstage = "stopped" /\ ~getting
  /\ getting' = TRUE
  /\ \E T \in Tables(reader) : nlist' = NearestTo(T)
  /\ npending' = nlist' /\ noffered' = nlist'
  /\ nactive' = 0 /\ nphase' = "created" /\ npromise' = Get!Unanswered
  /\ ninflight' = {} /\ nasked' = {}
  /\ UNCHANGED <<nstoreVars, peerVars, roles, answeredAll>>

StartGet == /\ getting /\ Get!StartUp
            /\ UNCHANGED <<nstoreVars, peerVars, roles, getting, answeredAll>>

\* n comes to the dht.findValue before any dht.store has brought the value.
Lacks(n) ==
  /\ getting /\ nphase = "running" /\ n \in ninflight
  /\ n \notin held \cup lacked
  /\ lacked' = lacked \cup {n}
  /\ UNCHANGED <<findVars, nstoreVars, onway, accepted, held, roles, getting, answeredAll>>
ValueNotFound(n) ==
  /\ getting /\ n \in lacked
  /\ \E T \in Tables(n) : Get!OnNodesFrom(n, NearestTo(T))
  /\ lacked' = lacked \ {n}
  /\ UNCHANGED <<nstoreVars, onway, accepted, held, roles, getting, answeredAll>>
ValueFound(n) ==
  /\ getting /\ n \in held \ lacked
  /\ Get!OnValue(n)
  /\ UNCHANGED <<nstoreVars, peerVars, roles, getting, answeredAll>>

AnswerFindValue(n) == Lacks(n) \/ ValueNotFound(n) \/ ValueFound(n)

NetNext == \/ StartFind \/ StoreFound \/ StoreInOwn \/ Begin \/ StartGet
        \/ \E n \in Node : \/ QueryLost(n) \/ FindNode(n) \/ StoreArrives(n)
                           \/ StoreAnswer(n) \/ AnswerFindValue(n)

NetSpec == NetInit /\ [][NetNext]_netVars
-----------------------------------------------------------------------------
\* A lookup all of whose queries were answered finds the nodes nearest to the key
\* of all members, although each answers from the few it knows.
FindsNearest ==
  answeredAll /\ npromise.kind \in {"nodes", "not found"} => nlist = ClosestIn(Node, K)

\* A value whose store was reported is found by every member, if the lookups'
\* queries were answered: whatever dht.store was lost, and with too remote values
\* confirmed but dropped.
StoredIsFound ==
  answeredAll /\ nresult = "ok" /\ getting => npromise.kind # "not found"
=============================================================================

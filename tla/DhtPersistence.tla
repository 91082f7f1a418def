--------------------------- MODULE DhtPersistence ---------------------------
(***************************************************************************)
(* A bucket of the routing table over crashes: start_up and save_to_db of  *)
(* DhtMemberImpl (dht/dht.cpp) and export_nodes of DhtBucket.              *)
(*                                                                         *)
(* While the member runs, its bucket changes as DhtSlots allows, which     *)
(* DhtBucket implements.  Every ten seconds one bucket in 256, chosen at   *)
(* random, is written to the database; the buckets share nothing else, so  *)
(* this is the life of one of them.  The member may stop at any time, and  *)
(* what the database has not carried out by then is lost.                  *)
(***************************************************************************)
EXTENDS Minimum, Sequences, FiniteSets

CONSTANTS Peer,       \* the peers whose keys fall into this bucket
          Room,       \* k_, slots of each kind
          MaxWriting  \* bound: writes of this bucket under way at a time

ASSUME PeerAssumption == IsFiniteSet(Peer)
ASSUME RoomAssumption == Room \in Nat \ {0}

VARIABLES activeNodes, backupNodes,  \* the nodes in the two arrays
          record,   \* dht.db.bucket of this bucket in the database
          writing   \* what db_ was told to set it to since, in order

nodeArrays == <<activeNodes, backupNodes>>
lifeVars   == <<nodeArrays, record, writing>>

Bucket == INSTANCE DhtSlots WITH
  Node <- Peer, K <- Room, active <- activeNodes, backup <- backupNodes

\* Mutant: the backups are written first.
ExportBackupsFirst ==
  [first |-> backupNodes, rest |-> activeNodes, wereActive |-> activeNodes]

\* export_nodes: a list of the active nodes and then the backups.  wereActive is
\* history.
Export ==
  [first |-> activeNodes, rest |-> backupNodes, wereActive |-> activeNodes]
Listed(r) == r.first \cup r.rest

LifeInit ==
  /\ Bucket!Init
  /\ record = Export
  /\ writing = <<>>

\* The member at work.
Work == Bucket!Next /\ UNCHANGED <<record, writing>>

\* save_to_db, which writes no empty list.
SaveToDb ==
  /\ Listed(Export) # {}
  /\ Len(writing) < MaxWriting
  /\ writing' = Append(writing, Export)
  /\ UNCHANGED <<nodeArrays, record>>

\* External: the database carries out a write.
Write ==
  /\ writing # <<>>
  /\ record' = Head(writing) /\ writing' = Tail(writing)
  /\ UNCHANGED nodeArrays

\* Mutant: a list that does not fit the backup slots is not taken at all.
ReloadIfFits(r) ==
  backupNodes' = IF Cardinality(Listed(r)) =< Room THEN Listed(r) ELSE {}

\* The loop of start_up: add_full_node in the order of the list.  Each node takes
\* a backup slot while there is one; a record entered just before is too new to
\* be replaced, so the rest is ignored.
Reload(r) ==
  \E fit \in SUBSET r.rest :
    /\ Cardinality(fit) = Least(Cardinality(r.rest), Room - Cardinality(r.first))
    /\ backupNodes' = r.first \cup fit

\* The member stops, by a crash or in order, and starts again.
Restart ==
  /\ activeNodes' = {}
  /\ Reload(record)
  /\ writing' = <<>>
  /\ UNCHANGED record

LifeNext == Work \/ SaveToDb \/ Write \/ Restart

LifeSpec == LifeInit /\ [][LifeNext]_lifeVars
-----------------------------------------------------------------------------
\* Types of the state.
Lists  == [first : SUBSET Peer, rest : SUBSET Peer, wereActive : SUBSET Peer]
LifeTypes ==
  /\ activeNodes \in SUBSET Peer /\ backupNodes \in SUBSET Peer
  /\ record \in Lists /\ writing \in Seq(Lists)

\* save_to_db skips an empty bucket and so never clears the record of one: that
\* is sound because a bucket that holds no node never held one, not even before
\* a restart.  No node of a record can have been dropped on purpose and come
\* back to an empty bucket.
EmptyWasNeverSaved ==
  activeNodes \cup backupNodes = {} =>
    Listed(record) = {} /\ \A i \in DOMAIN writing : Listed(writing[i]) = {}

\* A restart brings back every node that was active when the record was made,
\* though the record may list up to 2k nodes and all compete for k slots, and
\* fills the slots as far as the record goes.
ActiveComeBack ==
  [][Restart =>
        /\ record.wereActive \subseteq backupNodes'
        /\ Cardinality(backupNodes') >= Least(Room, Cardinality(Listed(record)))]_lifeVars
=============================================================================

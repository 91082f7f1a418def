------------------------- MODULE ConcurrentHashMap -------------------------
(***************************************************************************)
(* ConcurrentHashMap over AtomicHashArray                                  *)
(* (mrxutils/mrx/utils/ConcurrentHashTable.h): threads insert and find     *)
(* without a lock; when a slot array is full, all threads that notice move *)
(* its values to an array of twice the size.                               *)
(*                                                                         *)
(* Every atomic operation is a step; what is done under migrate_mutex_ is  *)
(* one.  Keys are numbers, hashed to themselves; what an insert brings is  *)
(* named by its thread.  Freed arrays are the business of HazardPointers.  *)
(***************************************************************************)
EXTENDS Minimum, FiniteSets

CONSTANTS Caller, Key,
          Chunk,   \* the 100 slots of a migration task
          Window,  \* with_value looks at this many slots, 300, or at a sixteenth of them
          Arrays,  \* bound: how many arrays there may be
          Length   \* the size of each

NoKey == 0           \* empty_key()
NoValue == "empty"     \* empty_value()
Migrated == "migrated"  \* migrate_value()
Default == "default" \* what the caller of find gives

ASSUME MapAssumption ==
  /\ IsFiniteSet(Caller) /\ {NoValue, Migrated, Default} \cap Caller = {}
  /\ Key \subseteq Nat \ {NoKey}
  /\ Chunk \in Nat \ {0} /\ Window \in Nat \ {0} /\ Arrays \in Nat \ {0}
  /\ Length \in [1..Arrays -> Nat \ {0}]
  /\ \A a \in 1..Arrays - 1 : Length[a + 1] = Length[a] * 2

VARIABLES arrays,       \* the slots of every array
          current,      \* hash_map_, 0 for nullptr
          from,         \* migrate_from_hash_map_; migrate_to_ is the one after it
          position,     \* task_creator.pos
          helpers,      \* migrate_cnt_
          generation,   \* migrate_generation_
          call,         \* what each thread does, to which key
          where, cursor, \* where it is, and its local variables
          result,       \* what it returned
          known         \* what had been returned for its key when it began

table == <<arrays, current, from, position, helpers, generation>>
mapVars == <<table, call, where, cursor, result, known>>

Slots(a) == 0..Length[a] - 1
\* How many slots with_value looks at.
Probes(a) == Least(LET part == Length[a] \div 16 + 2 IN IF part > Window THEN part ELSE Window,
                   Length[a])
MapInit ==
  /\ arrays = [a \in 1..Arrays |-> [s \in Slots(a) |-> [key |-> NoKey, value |-> NoValue]]]
  /\ current = 1 /\ from = 0 /\ position = 0 /\ helpers = 0 /\ generation = 0
  /\ call \in [Caller -> [kind : {"insert", "find"}, key : Key]]
  /\ where = [t \in Caller |-> "idle"]
  /\ cursor = [t \in Caller |-> [array |-> 0, i |-> 0, end |-> 0, moving |-> NoValue,
                             generation |-> 0, value |-> Default]]
  /\ result = [t \in Caller |-> NoValue]
  /\ known = [t \in Caller |-> {}]

GoOn(t, l) == where' = [where EXCEPT ![t] = l]
Returned(t, v) == GoOn(t, "done") /\ result' = [result EXCEPT ![t] = v]
Private == <<call, result, known>>

\* A key's slots in the order with_value probes them.
Probed(a, key, i) == (key + 1 + i) % Length[a]
AtSlot(t) == arrays[cursor[t].array][Probed(cursor[t].array, call[t].key, cursor[t].i)]
PutIn(t, field, v) ==
  arrays' = [arrays EXCEPT
               ![cursor[t].array][Probed(cursor[t].array, call[t].key, cursor[t].i)][field] = v]

BeginCall(t) ==
  /\ where[t] = "idle" /\ GoOn(t, "protect")
  /\ known' = [known EXCEPT ![t] =
       {result[u] : u \in {v \in Caller : where[v] = "done" /\ call[v].key = call[t].key}}
         \cap Caller]
  /\ UNCHANGED <<table, cursor, call, result>>

Protect(t) ==
  /\ where[t] = "protect"
  /\ cursor' = [cursor EXCEPT ![t].array = current, ![t].i = 0]
  /\ GoOn(t, IF current = 0 THEN "migrate" ELSE "probe")
  /\ UNCHANGED <<table, Private>>

\* with_value: the first slot that has the key, or, for an insert, can take it.
Probe(t) ==
  /\ where[t] = "probe"
  /\ UNCHANGED <<current, from, position, helpers, generation, call, known>>
  /\ \/ /\ AtSlot(t).key = call[t].key
        /\ GoOn(t, "value") /\ UNCHANGED <<arrays, cursor, result>>
     \/ /\ AtSlot(t).key = NoKey /\ call[t].kind = "insert"
        /\ PutIn(t, "key", call[t].key)
        /\ GoOn(t, "value") /\ UNCHANGED <<cursor, result>>
     \/ /\ AtSlot(t).key = NoKey /\ call[t].kind = "find"
        /\ Returned(t, cursor[t].value) /\ UNCHANGED <<arrays, cursor>>
     \/ /\ AtSlot(t).key \notin {NoKey, call[t].key}
        /\ UNCHANGED arrays
        /\ IF cursor[t].i + 1 < Probes(cursor[t].array)
           THEN cursor' = [cursor EXCEPT ![t].i = @ + 1] /\ UNCHANGED <<where, result>>
           ELSE /\ UNCHANGED cursor
                /\ IF call[t].kind = "insert"
                   THEN GoOn(t, "migrate") /\ UNCHANGED result
                   ELSE Returned(t, cursor[t].value)

\* The insert's compare_exchange of the value, and the find's load.
InsertValue(t) ==
  /\ where[t] = "value" /\ call[t].kind = "insert"
  /\ CASE AtSlot(t).value = NoValue  -> PutIn(t, "value", t) /\ Returned(t, t)
       [] AtSlot(t).value = Migrated -> GoOn(t, "migrate") /\ UNCHANGED <<arrays, result>>
       [] OTHER -> Returned(t, AtSlot(t).value) /\ UNCHANGED arrays
  /\ UNCHANGED <<current, from, position, helpers, generation, cursor, call, known>>
FindValue(t) ==
  /\ where[t] = "value" /\ call[t].kind = "find"
  /\ cursor' = [cursor EXCEPT ![t].value = AtSlot(t).value]
  /\ IF AtSlot(t).value = Migrated
     THEN GoOn(t, "migrate") /\ UNCHANGED result
     ELSE Returned(t, AtSlot(t).value)
  /\ UNCHANGED <<table, call, known>>

\* do_migrate up to the unlock: the first to come starts the migration.
EnterMigration(t) ==
  /\ where[t] = "migrate"
  /\ IF current # cursor[t].array
     THEN GoOn(t, "protect") /\ UNCHANGED <<table, cursor>>
     ELSE /\ IF from = 0
             THEN /\ current < Arrays
                  /\ from' = current /\ current' = 0 /\ position' = 0
                  /\ generation' = generation + 1
             ELSE UNCHANGED <<from, current, position, generation>>
          /\ helpers' = helpers + 1
          /\ cursor' = [cursor EXCEPT ![t].generation = generation']
          /\ GoOn(t, "take") /\ UNCHANGED arrays
  /\ UNCHANGED Private

\* task_creator.create
TakeTask(t) ==
  /\ where[t] = "take"
  /\ position' = position + 1
  /\ LET begin == position * Chunk IN
     IF begin < Length[from]
     THEN /\ cursor' = [cursor EXCEPT ![t].i = begin,
                                      ![t].end = Least(begin + Chunk, Length[from])]
          /\ GoOn(t, "exchange")
     ELSE GoOn(t, "leave") /\ UNCHANGED cursor
  /\ UNCHANGED <<arrays, current, from, helpers, generation, Private>>

NextSlot(t) ==
  /\ cursor' = [cursor EXCEPT ![t].i = @ + 1]
  /\ GoOn(t, IF cursor[t].i + 1 < cursor[t].end THEN "exchange" ELSE "take")

\* Mutant: the value is only read, so the slot can still be filled.
ReadOnly(t) == UNCHANGED arrays

\* The slot is closed to inserts.
CloseSlot(t) == arrays' = [arrays EXCEPT ![from][cursor[t].i].value = Migrated]

\* run_task: the exchange, and what was there goes to the new array, which nobody
\* reads yet.
Exchange(t) ==
  /\ where[t] = "exchange"
  /\ CloseSlot(t)
  /\ LET old == arrays[from][cursor[t].i].value IN
     IF old = NoValue
     THEN NextSlot(t)
     ELSE cursor' = [cursor EXCEPT ![t].moving = old] /\ GoOn(t, "move")
  /\ UNCHANGED <<current, from, position, helpers, generation, Private>>
Takes(a, key, i) == arrays[a][Probed(a, key, i)].key \in {NoKey, key}
Move(t) ==
  /\ where[t] = "move"
  /\ LET key == arrays[from][cursor[t].i].key
         to  == from + 1
     IN \/ \E i \in 0..Probes(to) - 1 :
             /\ Takes(to, key, i) /\ \A h \in 0..i - 1 : ~Takes(to, key, h)
             /\ arrays' = [arrays EXCEPT ![to][Probed(to, key, i)] =
                              [key |-> key, value |-> cursor[t].moving]]
             /\ NextSlot(t)
        \/ /\ \A i \in 0..Probes(to) - 1 : ~Takes(to, key, i)
           /\ GoOn(t, "overflow") /\ UNCHANGED <<arrays, cursor>>
  /\ UNCHANGED <<current, from, position, helpers, generation, Private>>

\* The last helper publishes the new array.
Leave(t) ==
  /\ where[t] = "leave"
  /\ helpers' = helpers - 1
  /\ IF helpers' = 0
     THEN current' = from + 1 /\ from' = 0 /\ generation' = generation + 1
     ELSE UNCHANGED <<current, from, generation>>
  /\ GoOn(t, "wait")
  /\ UNCHANGED <<arrays, position, cursor, Private>>

\* migrate_cv_.wait
Wait(t) ==
  /\ where[t] = "wait" /\ generation # cursor[t].generation
  /\ GoOn(t, "protect")
  /\ UNCHANGED <<table, cursor, Private>>

MapStep(t) == \/ BeginCall(t) \/ Protect(t) \/ Probe(t) \/ InsertValue(t) \/ FindValue(t)
           \/ EnterMigration(t) \/ TakeTask(t) \/ Exchange(t) \/ Move(t) \/ Leave(t) \/ Wait(t)

MapEnded == \A t \in Caller : where[t] = "done"
MapFinished == MapEnded /\ UNCHANGED mapVars
MapNext == MapFinished \/ \E t \in Caller : MapStep(t)
MapSpec == MapInit /\ [][MapNext]_mapVars
-----------------------------------------------------------------------------
\* run_task: LOG_CHECK(ok) << "Migration overflow".  A helper finds a slot for every key
\* that it moves.
MigrationFits == \A t \in Caller : where[t] # "overflow"

\* A key keeps the value it got first, across migrations: every insert of the key
\* returns that one, and so does a find that begins after one has returned it.
ValuesAreKept ==
  /\ MigrationFits
  /\ \A t, u \in Caller :
       call[t].key = call[u].key /\ {result[t], result[u]} \subseteq Caller => result[t] = result[u]
  /\ \A t \in Caller : where[t] = "done" =>
       /\ known[t] # {} => result[t] \in known[t]
       /\ call[t].kind = "insert" => result[t] \in Caller

\* A find returns the caller's default or a value that was inserted.
FindReturnsValues ==
  \A t \in Caller : call[t].kind = "find" => result[t] \in Caller \cup {NoValue, Default}
=============================================================================

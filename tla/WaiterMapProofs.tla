-------------------------- MODULE WaiterMapProofs --------------------------
(***************************************************************************)
(* That the CHECKs of MpmcSleepyWaiter hold and that work added by an      *)
(* atomic operation is noticed, for any number of workers, producers and   *)
(* pieces of work; that ConcurrentHashMap keeps the value a key got first, *)
(* for any number of threads, keys, arrays and slots in a task.            *)
(*                                                                         *)
(* The waiter's rest on what state_ counts: searching is the number of the *)
(* workers that are up and have not stopped to search, or were told to     *)
(* wake and have not noticed yet; parked is the length of sleepers_.       *)
(*                                                                         *)
(* The map's rest on where a key's value can be: in the key's one slot of  *)
(* the array in use; while values are moved, in a slot not yet closed, in  *)
(* the hands of the one helper that closed it, or in the key's slot of the *)
(* new array (Holds).  The helpers' tasks never overlap, and when all have *)
(* left no slot is open.  A search that passed a slot passed it for good,  *)
(* because a slot never changes its key.                                   *)
(***************************************************************************)
EXTENDS MpmcWaiter, ConcurrentHashMap, FiniteSetTheorems, TLAPS

Notifying == {"notify", "lock", "wake"}
Label == {"post", "look", "wait", "stop", "take", "done"} \cup Notifying

TypeOK ==
  /\ searching \in Nat /\ parked \in Nat
  /\ sleepers \in Seq(Worker)
  /\ owner \in Thread \cup {NoThread}
  /\ slot \in [Worker -> {"Work", "Search", "Sleep"}]
  /\ unpark_flag \in [Worker -> BOOLEAN]
  /\ relaxed \in BOOLEAN
  /\ written \in Nat /\ read \in Nat /\ buffered \in Nat
  /\ seen \in [Worker -> Nat]
  /\ pc \in [Thread -> Label]

\* The workers searching stands for.
Searching == {w \in Worker : \/ slot[w] = "Search" /\ pc[w] \notin Notifying
                             \/ slot[w] = "Sleep" /\ unpark_flag[w]}
IsSleeper(w) == \E i \in DOMAIN sleepers : sleepers[i] = w

CountersAgree == searching = Cardinality(Searching) /\ parked = Len(sleepers)

\* A worker is among the sleepers, once, until it is told to wake.
SleepersSleep ==
  /\ \A i, j \in DOMAIN sleepers : sleepers[i] = sleepers[j] => i = j
  /\ \A w \in Worker : IsSleeper(w) <=> slot[w] = "Sleep" /\ ~unpark_flag[w]
  /\ \A w \in Worker : unpark_flag[w] => slot[w] = "Sleep"

\* Where a thread can be, and in which state its slot is there.
Places ==
  /\ \A p \in Producer : pc[p] \in {"post", "done"} \cup Notifying
  /\ \A w \in Worker : /\ pc[w] # "post"
                       /\ pc[w] \in {"take", "done"} => slot[w] = "Work"
                       /\ pc[w] \in Notifying => slot[w] = "Search"

\* Who is about to wake a sleeper holds sleepers_mutex_, and there is one to wake.
OwnerWakes ==
  /\ \A t \in Thread : pc[t] = "wake" <=> owner = t
  /\ owner # NoThread => Len(sleepers) > 0

\* No worker ends before all the work is taken.
WorkBounds ==
  /\ written + buffered <= End
  /\ ~relaxed => buffered = 0
  /\ \A w \in Worker : seen[w] <= read
  /\ read < End => \E w \in Worker : pc[w] # "done"

IInv == /\ TypeOK /\ CountersAgree /\ SleepersSleep /\ Places
        /\ OwnerWakes /\ WorkBounds /\ AtomicWorkIsNoticed
-----------------------------------------------------------------------------
\* What the counter says of the workers it stands for.
LEMMA SearchingIsFinite ==
  ASSUME TypeOK, CountersAgree
  PROVE  /\ IsFiniteSet(Searching)
         /\ \A w \in Searching : searching > 0
         /\ searching > 0 => Searching # {}
         /\ \A w \in Searching : searching = 1 => Searching = {w}
         /\ \A w \in Searching : searching > 1 => \E v \in Searching : v # w
<1>1. IsFiniteSet(Searching)
  BY FS_Subset, ThreadAssumption DEF Searching
<1>2. searching = 0 <=> Searching = {}
  BY <1>1, FS_EmptySet DEF CountersAgree
<1>3. \A w \in Searching : /\ searching = 1 => Searching \ {w} = {}
                           /\ searching > 1 => Searching \ {w} # {}
  <2> TAKE w \in Searching
  <2>1. /\ IsFiniteSet(Searching \ {w})
        /\ Cardinality(Searching \ {w}) = searching - 1
    BY <1>1, FS_RemoveElement DEF CountersAgree
  <2>2. Cardinality(Searching \ {w}) = 0 <=> Searching \ {w} = {}
    BY <2>1, FS_EmptySet
  <2>3. searching = 1 => searching - 1 = 0
    OBVIOUS
  <2>4. searching > 1 => searching - 1 # 0
    BY DEF TypeOK
  <2> QED BY <2>1, <2>2, <2>3, <2>4, Zenon
<1>4. searching \in Nat
  BY DEF TypeOK
<1>5. \A w \in Searching : searching > 0
  BY <1>2, <1>4
<1>6. searching > 0 => Searching # {}
  BY <1>2, <1>4
<1>7. \A w \in Searching : searching = 1 => Searching = {w}
  <2> SUFFICES ASSUME NEW w \in Searching, Searching \ {w} = {}
               PROVE  Searching = {w}
    BY <1>3
  <2> QED OBVIOUS
<1>8. \A w \in Searching : searching > 1 => \E v \in Searching : v # w
  BY <1>3, Zenon
<1> QED BY <1>1, <1>5, <1>6, <1>7, <1>8

\* The counter follows the set by one worker that comes or goes.
LEMMA CounterFollows ==
  ASSUME TypeOK, CountersAgree, NEW w
  PROVE  /\ w \in Searching /\ Searching' = Searching \ {w} /\ searching' = searching - 1
              => searching' = Cardinality(Searching')
         /\ w \notin Searching /\ Searching' = Searching \cup {w} /\ searching' = searching + 1
              => searching' = Cardinality(Searching')
         /\ Searching' = Searching /\ searching' = searching
              => searching' = Cardinality(Searching')
<1>1. IsFiniteSet(Searching) /\ searching = Cardinality(Searching)
  BY SearchingIsFinite DEF CountersAgree
<1>2. w \in Searching => Cardinality(Searching \ {w}) = searching - 1
  BY <1>1, FS_RemoveElement
<1>3. w \notin Searching => Cardinality(Searching \cup {w}) = searching + 1
  BY <1>1, FS_AddElement
<1> QED BY <1>1, <1>2, <1>3

\* Who searching stands for will look at the queue.
LEMMA SearchersLook ==
  ASSUME TypeOK, SleepersSleep, Places
  PROVE  \A w \in Searching : WillLook(w)
BY DEF TypeOK, SleepersSleep, Places, Searching, WillLook, Label, Notifying, Thread

LEMMA StartSearchStep ==
  ASSUME IInv, NEW w \in Worker, StartSearch(w)
  PROVE  IInv'
<1> USE DEF IInv, Thread
<1>1. TypeOK'
  BY DEF TypeOK, StartSearch, Enters, Goto, counters, work, Label, Notifying
<1>2. w \notin Searching /\ Searching' = Searching \cup {w}
  BY DEF TypeOK, SleepersSleep, Places, StartSearch, Enters, Goto, counters, work, Label, Notifying, Searching
<1>3. CountersAgree'
  BY <1>2, CounterFollows DEF CountersAgree, TypeOK, StartSearch, Enters, Goto, counters, work
<1>4. SleepersSleep'
  BY DEF TypeOK, SleepersSleep, IsSleeper, StartSearch, Enters, Goto, counters, work
<1>5. Places'
  BY DEF TypeOK, Places, StartSearch, Enters, Goto, counters, work, Label, Notifying
<1>6. OwnerWakes'
  BY ThreadAssumption DEF TypeOK, OwnerWakes, StartSearch, Enters, Goto, counters, work
<1>7. WorkBounds'
  BY DEF TypeOK, WorkBounds, StartSearch, Enters, Goto, counters, work, Places
<1>8. AtomicWorkIsNoticed'
  BY DEF TypeOK, AtomicWorkIsNoticed, WorkIsNoticed, WillLook, Notifying, Places, StartSearch, Enters, Goto, counters, work
<1> QED BY <1>1, <1>3, <1>4, <1>5, <1>6, <1>7, <1>8

LEMMA FallAsleepStep ==
  ASSUME IInv, NEW w \in Worker, FallAsleep(w)
  PROVE  IInv'
<1> USE DEF IInv, Thread
<1>1. w \in Searching /\ searching > 0 /\ ~unpark_flag[w]
  BY SearchingIsFinite DEF Searching, FallAsleep, SleepersSleep, Places, Notifying
<1>2. sleepers' = Append(sleepers, w) /\ slot' = [slot EXCEPT ![w] = "Sleep"]
  BY DEF FallAsleep, Enters
<1>3. pc' = [pc EXCEPT ![w] = IF searching = 1 THEN "look" ELSE "wait"]
  <2>1. ~(searching = 0 \/ unpark_flag[w])
    BY <1>1 DEF TypeOK
  <2> QED BY <2>1 DEF FallAsleep, Goto, SearchAgain
<1>4. TypeOK'
  <2>1. searching' \in Nat /\ parked' \in Nat
    BY <1>1 DEF FallAsleep, TypeOK
  <2>2. sleepers' \in Seq(Worker)
    BY <1>2 DEF TypeOK
  <2> QED BY <1>2, <1>3, <2>1, <2>2 DEF TypeOK, FallAsleep, work, Label
<1>5. Searching' = Searching \ {w}
  BY <1>1, <1>2, <1>3 DEF TypeOK, FallAsleep, Searching, Notifying
<1>6. CountersAgree'
  <2>1. searching' = Cardinality(Searching')
    BY <1>1, <1>5, CounterFollows DEF FallAsleep
  <2>2. parked' = Len(sleepers')
    BY <1>2 DEF TypeOK, CountersAgree, FallAsleep
  <2> QED BY <2>1, <2>2 DEF CountersAgree
<1>7. SleepersSleep'
  <2>1. ~IsSleeper(w)
    BY DEF SleepersSleep, FallAsleep
  <2>2. /\ Len(sleepers') = Len(sleepers) + 1
        /\ \A i \in 1..Len(sleepers) : sleepers'[i] = sleepers[i]
        /\ sleepers'[Len(sleepers) + 1] = w
    BY <1>2 DEF TypeOK
  <2>3. DOMAIN sleepers = 1..Len(sleepers) /\ DOMAIN sleepers' = 1..Len(sleepers) + 1
        /\ Len(sleepers) \in Nat
    BY <1>2, <1>4, <2>2 DEF TypeOK
  <2>4. \A i, j \in DOMAIN sleepers' : sleepers'[i] = sleepers'[j] => i = j
    BY <2>1, <2>2, <2>3 DEF SleepersSleep, IsSleeper
  <2>5. \A v \in Worker : IsSleeper(v)' <=> IsSleeper(v) \/ v = w
    BY <2>2, <2>3 DEF IsSleeper
  <2> QED BY <1>1, <1>2, <2>4, <2>5 DEF TypeOK, SleepersSleep, FallAsleep
<1>8. Places'
  BY <1>2, <1>3 DEF TypeOK, Places, FallAsleep, Label, Notifying
<1>9. OwnerWakes'
  BY <1>2, <1>3, ThreadAssumption DEF TypeOK, OwnerWakes, FallAsleep
<1>10. WorkBounds'
  BY <1>3 DEF TypeOK, WorkBounds, FallAsleep, work
<1>11. AtomicWorkIsNoticed'
  <2>1. CASE searching = 1
    BY <1>3, <2>1 DEF AtomicWorkIsNoticed, WorkIsNoticed, WillLook, TypeOK
  <2>2. CASE searching > 1
    <3>1. PICK v \in Searching : v # w
      BY <1>1, <2>2, SearchingIsFinite
    <3>2. v \in Worker /\ WillLook(v)
      BY <3>1, SearchersLook DEF Searching
    <3>3. WillLook(v)'
      BY <3>1, <3>2, <1>2, <1>3 DEF WillLook, FallAsleep, TypeOK
    <3> QED BY <3>2, <3>3 DEF AtomicWorkIsNoticed, WorkIsNoticed
  <2> QED BY <1>1, <2>1, <2>2 DEF TypeOK
<1> QED BY <1>4, <1>6, <1>7, <1>8, <1>9, <1>10, <1>11

LEMMA ParkStep ==
  ASSUME IInv, NEW w \in Worker, Park(w)
  PROVE  IInv'
<1> USE DEF IInv, Thread
<1>1. TypeOK'
  BY DEF TypeOK, Park, Enters, Goto, counters, work, Label, Notifying
<1>2. Searching' = Searching
  BY DEF TypeOK, SleepersSleep, Places, Park, Enters, Goto, counters, work, Label, Notifying, Searching
<1>3. CountersAgree'
  BY <1>2, CounterFollows DEF CountersAgree, TypeOK, Park, Enters, Goto, counters, work
<1>4. SleepersSleep'
  BY DEF TypeOK, SleepersSleep, IsSleeper, Park, Enters, Goto, counters, work
<1>5. Places'
  BY DEF TypeOK, Places, Park, Enters, Goto, counters, work, Label, Notifying
<1>6. OwnerWakes'
  BY ThreadAssumption DEF TypeOK, OwnerWakes, Park, Enters, Goto, counters, work
<1>7. WorkBounds'
  BY DEF TypeOK, WorkBounds, Park, Enters, Goto, counters, work, Places
<1>8. AtomicWorkIsNoticed'
  BY DEF TypeOK, AtomicWorkIsNoticed, WorkIsNoticed, WillLook, Notifying, Places, Park, Enters, Goto, counters, work
<1> QED BY <1>1, <1>3, <1>4, <1>5, <1>6, <1>7, <1>8

LEMMA StopSearchStep ==
  ASSUME IInv, NEW w \in Worker, StopSearch(w)
  PROVE  IInv'
<1> USE DEF IInv, Thread
<1>1. w \in Searching /\ searching > 0
  BY SearchingIsFinite DEF Searching, StopSearch, Notifying
<1>2. CASE searching = 1
  <2>1. pc' = [pc EXCEPT ![w] = "notify"] /\ slot' = slot
    BY <1>2 DEF StopSearch, Goto, PassOn
  <2>2. TypeOK'
    BY <2>1, <1>2 DEF TypeOK, StopSearch, work, Label, Notifying
  <2>3. Searching' = Searching \ {w}
    BY <2>1 DEF TypeOK, StopSearch, Searching, Notifying
  <2>4. CountersAgree'
    BY <1>1, <2>3, CounterFollows DEF CountersAgree, TypeOK, StopSearch
  <2>5. SleepersSleep'
    BY <2>1 DEF SleepersSleep, IsSleeper, StopSearch
  <2>6. Places' /\ OwnerWakes' /\ WorkBounds'
    BY <2>1, ThreadAssumption
    DEF TypeOK, Places, OwnerWakes, WorkBounds, StopSearch, work, Label, Notifying
  <2>7. AtomicWorkIsNoticed'
    BY <2>1 DEF TypeOK, AtomicWorkIsNoticed, WorkIsNoticed
  <2> QED BY <2>2, <2>4, <2>5, <2>6, <2>7
<1>3. CASE searching > 1
  <2>1. /\ pc' = [pc EXCEPT ![w] = IF seen[w] = End THEN "done" ELSE "take"]
        /\ slot' = [slot EXCEPT ![w] = "Work"]
    BY <1>3, ThreadAssumption DEF TypeOK, StopSearch, Goto, PassOn, AfterNotify, Enters
  <2>2. TypeOK'
    BY <2>1, <1>3 DEF TypeOK, StopSearch, work, Label
  <2>3. Searching' = Searching \ {w}
    BY <2>1 DEF TypeOK, StopSearch, Searching, Notifying
  <2>4. CountersAgree'
    BY <1>1, <2>3, CounterFollows DEF CountersAgree, TypeOK, StopSearch
  <2>5. SleepersSleep'
    BY <2>1 DEF TypeOK, SleepersSleep, IsSleeper, StopSearch
  <2>6. Places' /\ OwnerWakes'
    BY <2>1, ThreadAssumption DEF TypeOK, Places, OwnerWakes, StopSearch, Label, Notifying
  <2>7. PICK v \in Searching : v # w
    BY <1>1, <1>3, SearchingIsFinite
  <2>8. v \in Worker /\ WillLook(v)
    BY <2>7, SearchersLook DEF Searching
  <2>9. WillLook(v)' /\ pc'[v] # "done"
    BY <2>1, <2>7, <2>8 DEF WillLook, StopSearch, TypeOK
  <2>10. WorkBounds'
    BY <2>1, <2>8, <2>9 DEF TypeOK, WorkBounds, StopSearch, work
  <2>11. AtomicWorkIsNoticed'
    BY <2>8, <2>9 DEF AtomicWorkIsNoticed, WorkIsNoticed
  <2> QED BY <2>2, <2>4, <2>5, <2>6, <2>10, <2>11
<1> QED BY <1>1, <1>2, <1>3 DEF TypeOK

LEMMA StopWorkStep ==
  ASSUME IInv, NEW w \in Worker, StopWork(w)
  PROVE  IInv'
<1> USE DEF IInv, Thread
<1>1. TypeOK'
  BY DEF TypeOK, StopWork, Goto, counters, work, AfterNotify, Label, Notifying
<1>2. Searching' = Searching
  BY DEF TypeOK, SleepersSleep, Places, StopWork, Goto, counters, work, AfterNotify, Label, Notifying, Searching
<1>3. CountersAgree'
  BY <1>2, CounterFollows DEF CountersAgree, TypeOK, StopWork, Goto, counters, work, AfterNotify
<1>4. SleepersSleep'
  BY DEF TypeOK, SleepersSleep, IsSleeper, StopWork, Goto, counters, work, AfterNotify
<1>5. Places'
  BY DEF TypeOK, Places, StopWork, Goto, counters, work, AfterNotify, Label, Notifying
<1>6. OwnerWakes'
  BY ThreadAssumption DEF TypeOK, OwnerWakes, StopWork, Goto, counters, work, AfterNotify
<1>7. WorkBounds'
  BY DEF TypeOK, WorkBounds, StopWork, Goto, counters, work, AfterNotify, Places
<1>8. AtomicWorkIsNoticed'
  BY WorkAssumption, ThreadAssumption DEF TypeOK, AtomicWorkIsNoticed, WorkIsNoticed, WillLook, Notifying, Places, WorkBounds, StopWork, Goto, counters, work, AfterNotify
<1> QED BY <1>1, <1>3, <1>4, <1>5, <1>6, <1>7, <1>8

\* notify returns because somebody searches, or because nobody sleeps.
\* Each other sleeper has a new place, and one has none.
LEMMA WithoutSleeperProperties ==
  ASSUME TypeOK, SleepersSleep, NEW w \in Worker, IsSleeper(w), sleepers' = WithoutSleeper(w)
  PROVE  /\ sleepers' \in Seq(Worker)
         /\ Len(sleepers) > 0 /\ Len(sleepers') = Len(sleepers) - 1
         /\ \A i, j \in DOMAIN sleepers' : sleepers'[i] = sleepers'[j] => i = j
         /\ \A v \in Worker : IsSleeper(v)' <=> IsSleeper(v) /\ v # w
<1> DEFINE place == CHOOSE i \in DOMAIN sleepers : sleepers[i] = w
           Old(i) == IF i < place THEN i ELSE i + 1
           n == Len(sleepers)
<1>1. n \in Nat /\ DOMAIN sleepers = 1..n /\ \A i \in 1..n : sleepers[i] \in Worker
  BY DEF TypeOK
<1>2. place \in 1..n /\ sleepers[place] = w
  BY <1>1 DEF IsSleeper
<1>3. sleepers' = [i \in 1..n - 1 |-> sleepers[Old(i)]]
  BY DEF WithoutSleeper
<1> HIDE DEF place
<1>4. \A i \in 1..n - 1 : Old(i) \in 1..n /\ Old(i) # place
  BY <1>1, <1>2
<1>5. \A i, j \in 1..n - 1 : Old(i) = Old(j) => i = j
  BY <1>1, <1>2
<1>6. \A k \in 1..n : k # place => \E i \in 1..n - 1 : Old(i) = k
  <2> SUFFICES ASSUME NEW k \in 1..n, k # place
               PROVE  \E i \in 1..n - 1 : Old(i) = k
    OBVIOUS
  <2>1. CASE k < place
    <3>1. k \in 1..n - 1 /\ Old(k) = k
      BY <1>1, <1>2, <2>1
    <3> QED BY <3>1
  <2>2. CASE k > place
    <3>1. k - 1 \in 1..n - 1 /\ Old(k - 1) = k
      BY <1>1, <1>2, <2>2
    <3> QED BY <3>1
  <2> QED BY <1>1, <1>2, <2>1, <2>2
<1> HIDE DEF Old, n
<1>7. n > 0 /\ n - 1 \in Nat
  BY <1>1, <1>2
<1>8. sleepers' \in Seq(Worker) /\ Len(sleepers') = n - 1 /\ DOMAIN sleepers' = 1..n - 1
  BY <1>1, <1>3, <1>4, <1>7
<1>9. \A i \in 1..n - 1 : sleepers'[i] = sleepers[Old(i)]
  BY <1>3
<1>10. \A i, j \in DOMAIN sleepers' : sleepers'[i] = sleepers'[j] => i = j
  BY <1>1, <1>4, <1>5, <1>8, <1>9 DEF SleepersSleep
<1>11. ASSUME NEW v \in Worker PROVE IsSleeper(v)' <=> IsSleeper(v) /\ v # w
  <2>1. IsSleeper(v)' => IsSleeper(v) /\ v # w
    <3> SUFFICES ASSUME IsSleeper(v)' PROVE IsSleeper(v) /\ v # w
      OBVIOUS
    <3>1. PICK i \in 1..n - 1 : sleepers'[i] = v
      BY <1>8, Zenon DEF IsSleeper
    <3>2. Old(i) \in 1..n /\ Old(i) # place /\ sleepers[Old(i)] = v
      BY <1>4, <1>9, <3>1, Zenon
    <3>3. IsSleeper(v)
      BY <1>1, <3>2, Zenon DEF IsSleeper
    <3>4. v # w
      BY <1>1, <1>2, <3>2, Zenon DEF SleepersSleep
    <3> QED BY <3>3, <3>4
  <2>2. IsSleeper(v) /\ v # w => IsSleeper(v)'
    <3> SUFFICES ASSUME IsSleeper(v), v # w PROVE IsSleeper(v)'
      OBVIOUS
    <3>1. PICK k \in 1..n : sleepers[k] = v
      BY <1>1 DEF IsSleeper
    <3>2. PICK i \in 1..n - 1 : Old(i) = k
      BY <1>2, <1>6, <3>1
    <3> QED BY <1>8, <1>9, <3>1, <3>2 DEF IsSleeper
  <2> QED BY <2>1, <2>2
<1> QED BY <1>7, <1>8, <1>10, <1>11 DEF n

LEMMA StopSleepStep ==
  ASSUME IInv, NEW w \in Worker, StopSleep(w)
  PROVE  IInv'
<1> USE DEF IInv, Thread
<1>1. slot[w] = "Sleep" /\ slot' = [slot EXCEPT ![w] = "Search"]
  BY DEF StopSleep, Enters
<1>2. CASE IsSleeper(w)
  <2>1. /\ sleepers' = WithoutSleeper(w)
        /\ searching' = searching + 1 /\ parked' = parked - 1
        /\ UNCHANGED <<unpark_flag, pc, owner, work>>
    BY <1>2 DEF StopSleep, IsSleeper
  <2>2. /\ sleepers' \in Seq(Worker)
        /\ Len(sleepers) > 0 /\ Len(sleepers') = Len(sleepers) - 1
        /\ \A i, j \in DOMAIN sleepers' : sleepers'[i] = sleepers'[j] => i = j
        /\ \A v \in Worker : IsSleeper(v)' <=> IsSleeper(v) /\ v # w
    BY <1>2, <2>1, WithoutSleeperProperties
  <2>3. TypeOK'
    <3>1. searching' \in Nat /\ parked' \in Nat
      BY <2>1, <2>2 DEF TypeOK, CountersAgree
    <3> QED BY <1>1, <2>1, <2>2, <3>1 DEF TypeOK, work
  <2>4. w \notin Searching /\ Searching' = Searching \cup {w}
    BY <1>1, <1>2, <2>1 DEF TypeOK, SleepersSleep, Places, Searching, Notifying, StopSleep
  <2>5. CountersAgree'
    <3>1. searching' = Cardinality(Searching')
      BY <2>1, <2>4, CounterFollows
    <3> QED BY <2>1, <2>2, <3>1 DEF CountersAgree
  <2>6. SleepersSleep'
    BY <1>1, <1>2, <2>1, <2>2 DEF TypeOK, SleepersSleep
  <2>7. Places' /\ OwnerWakes' /\ WorkBounds'
    BY <1>1, <2>1, ThreadAssumption
    DEF TypeOK, Places, OwnerWakes, WorkBounds, work, Notifying, StopSleep
  <2>8. AtomicWorkIsNoticed'
    BY <2>1 DEF AtomicWorkIsNoticed, WorkIsNoticed, WillLook, StopSleep
  <2> QED BY <2>3, <2>5, <2>6, <2>7, <2>8
<1>3. CASE ~IsSleeper(w)
  <2>1. unpark_flag[w]
    BY <1>1, <1>3 DEF SleepersSleep, TypeOK
  <2>2. /\ unpark_flag' = [unpark_flag EXCEPT ![w] = FALSE]
        /\ UNCHANGED <<counters, sleepers, pc, owner, work>>
    BY <1>3, <2>1 DEF StopSleep, IsSleeper
  <2>3. TypeOK'
    BY <1>1, <2>2 DEF TypeOK, counters, work
  <2>4. Searching' = Searching
    BY <1>1, <2>1, <2>2 DEF TypeOK, Searching, Notifying, StopSleep
  <2>5. CountersAgree'
    BY <2>2, <2>4 DEF CountersAgree, counters
  <2>6. SleepersSleep'
    BY <1>1, <1>3, <2>2 DEF TypeOK, SleepersSleep, IsSleeper
  <2>7. Places' /\ OwnerWakes' /\ WorkBounds'
    BY <1>1, <2>2, ThreadAssumption
    DEF TypeOK, Places, OwnerWakes, WorkBounds, work, Notifying, StopSleep
  <2>8. AtomicWorkIsNoticed'
    BY <2>2 DEF AtomicWorkIsNoticed, WorkIsNoticed, WillLook, StopSleep
  <2> QED BY <2>3, <2>5, <2>6, <2>7, <2>8
<1> QED BY <1>2, <1>3

LEMMA ReturnStep ==
  ASSUME IInv, NEW t \in Thread, pc[t] \in {"notify", "lock"}, Return(t),
         UNCHANGED <<counters, sleepers, owner, unpark_flag, work>>,
         searching > 0 \/ Len(sleepers) = 0
  PROVE  IInv'
<1> USE DEF IInv, counters, work
<1>1. /\ pc' = [pc EXCEPT ![t] = AfterNotify(t)]
      /\ slot' = IF t \in Worker THEN [slot EXCEPT ![t] = "Work"] ELSE slot
      /\ t \in Worker => slot[t] = "Search"
      /\ t \in Worker => AfterNotify(t) = IF seen[t] = End THEN "done" ELSE "take"
      /\ t \notin Worker => AfterNotify(t) = "post"
  BY ThreadAssumption DEF Return, Goto, Enters, AfterNotify, Places, Notifying, Thread
<1>2. TypeOK'
  BY <1>1 DEF TypeOK, Label
<1>3. Searching' = Searching
  BY <1>1 DEF TypeOK, Searching, Notifying, Thread
<1>4. CountersAgree'
  BY <1>3 DEF CountersAgree
<1>5. SleepersSleep'
  BY <1>1 DEF TypeOK, SleepersSleep, IsSleeper
<1>6. Places' /\ OwnerWakes'
  BY <1>1, ThreadAssumption DEF TypeOK, Places, OwnerWakes, Label, Notifying, Thread
<1>7. WorkBounds'
  <2>1. read < End => \E w \in Worker : pc'[w] # "done"
    BY <1>1, WorkAssumption DEF TypeOK, WorkBounds, Thread
  <2> QED BY <2>1 DEF TypeOK, WorkBounds
<1>8. AtomicWorkIsNoticed'
  <2>1. CASE searching > 0
    <3>1. PICK v \in Searching : WillLook(v)
      BY <2>1, SearchingIsFinite, SearchersLook
    <3>2. v \in Worker /\ v # t
      BY DEF Searching, Places, Notifying, Thread
    <3>3. WillLook(v)'
      BY <1>1, <3>1, <3>2 DEF TypeOK, WillLook, Thread
    <3> QED BY <3>2, <3>3 DEF AtomicWorkIsNoticed, WorkIsNoticed
  <2>2. CASE Len(sleepers) = 0
    <3> SUFFICES ASSUME read < written, \A u \in Thread : pc'[u] \notin Notifying
                 PROVE  \E w \in Worker : WillLook(w)'
      BY DEF AtomicWorkIsNoticed, WorkIsNoticed, Notifying
    <3>1. PICK w \in Worker : pc'[w] # "done"
      BY <1>7, WorkAssumption DEF WorkBounds, TypeOK
    <3>2. pc'[w] \in {"look", "wait", "stop", "take"}
      BY <1>2, <1>6, <3>1 DEF TypeOK, Places, Label, Thread
    <3>3. ~IsSleeper(w)
      BY <2>2 DEF IsSleeper, TypeOK
    <3>4. slot'[w] # "Sleep" \/ unpark_flag'[w]
      BY <1>1, <3>3 DEF SleepersSleep, TypeOK
    <3> QED BY <3>2, <3>4 DEF WillLook
  <2> QED BY <2>1, <2>2
<1> QED BY <1>2, <1>4, <1>5, <1>6, <1>7, <1>8

\* notify goes on to the next of its steps.
LEMMA NotifyGoesOn ==
  ASSUME IInv, NEW t \in Thread, pc[t] \in {"notify", "lock"},
         UNCHANGED <<counters, sleepers, slot, unpark_flag, work>>,
         \/ pc' = [pc EXCEPT ![t] = "lock"] /\ owner' = owner
         \/ /\ owner = NoThread /\ Len(sleepers) > 0
            /\ pc' = [pc EXCEPT ![t] = "wake"] /\ owner' = t
  PROVE  IInv'
<1> USE DEF IInv, counters, work, Thread
<1>1. TypeOK'
  BY DEF TypeOK, Label, Notifying
<1>2. Searching' = Searching
  BY DEF TypeOK, Searching, Notifying
<1>3. CountersAgree' /\ SleepersSleep'
  BY <1>2 DEF CountersAgree, SleepersSleep, IsSleeper
<1>4. Places'
  BY ThreadAssumption DEF TypeOK, Places, Label, Notifying
<1>5. OwnerWakes'
  BY ThreadAssumption DEF TypeOK, OwnerWakes
<1>6. WorkBounds'
  BY DEF TypeOK, WorkBounds
<1>7. AtomicWorkIsNoticed'
  BY DEF TypeOK, AtomicWorkIsNoticed, WorkIsNoticed
<1> QED BY <1>1, <1>3, <1>4, <1>5, <1>6, <1>7

LEMMA NotifyStep ==
  ASSUME IInv, NEW t \in Thread, Notify(t)
  PROVE  IInv'
<1>1. CASE searching > 0 \/ parked = 0
  <2>1. Return(t) /\ (searching > 0 \/ Len(sleepers) = 0)
    BY <1>1 DEF Notify, IInv, CountersAgree
  <2> QED BY <2>1, ReturnStep DEF Notify
<1>2. CASE ~(searching > 0 \/ parked = 0)
  BY <1>2, NotifyGoesOn DEF Notify, Goto
<1> QED BY <1>1, <1>2

LEMMA LockSleepersStep ==
  ASSUME IInv, NEW t \in Thread, LockSleepers(t)
  PROVE  IInv'
<1>1. parked = Len(sleepers) /\ Len(sleepers) \in Nat /\ (sleepers = <<>> <=> Len(sleepers) = 0)
  BY DEF IInv, CountersAgree, TypeOK
<1>2. CASE searching > 0 \/ Len(sleepers) = 0
  <2>1. Return(t) /\ UNCHANGED owner
    BY <1>1, <1>2 DEF LockSleepers
  <2> QED BY <1>2, <2>1, ReturnStep DEF LockSleepers
<1>3. CASE ~(searching > 0 \/ Len(sleepers) = 0)
  <2>1. Goto(t, "wake") /\ owner' = t /\ UNCHANGED slot /\ Len(sleepers) > 0
    BY <1>1, <1>3 DEF LockSleepers
  <2> QED BY <2>1, NotifyGoesOn DEF LockSleepers, Goto
<1> QED BY <1>2, <1>3

LEMMA WakeStep ==
  ASSUME IInv, NEW t \in Thread, Wake(t)
  PROVE  IInv'
<1> USE DEF IInv, Thread
<1> DEFINE n == Len(sleepers)
           sleeper == sleepers[n]
<1>1. n \in Nat /\ n > 0 /\ DOMAIN sleepers = 1..n /\ sleeper \in Worker
  BY ThreadAssumption DEF Wake, OwnerWakes, TypeOK
<1>2. /\ unpark_flag' = [unpark_flag EXCEPT ![sleeper] = TRUE]
      /\ sleepers' = SubSeq(sleepers, 1, n - 1)
      /\ searching' = searching + 1 /\ parked' = parked - 1
      /\ owner' = NoThread /\ UNCHANGED work
  BY DEF Wake
<1>3. /\ sleepers' \in Seq(Worker) /\ Len(sleepers') = n - 1 /\ DOMAIN sleepers' = 1..n - 1
      /\ \A i \in 1..n - 1 : sleepers'[i] = sleepers[i]
  BY <1>1, <1>2 DEF TypeOK
<1>4. slot[sleeper] = "Sleep" /\ ~unpark_flag[sleeper]
  BY <1>1 DEF SleepersSleep, IsSleeper
<1>5. /\ pc' = [pc EXCEPT ![t] = AfterNotify(t)]
      /\ slot' = IF t \in Worker THEN [slot EXCEPT ![t] = "Work"] ELSE slot
      /\ t \in Worker => slot[t] = "Search"
      /\ t \in Worker => AfterNotify(t) = IF seen[t] = End THEN "done" ELSE "take"
      /\ t \notin Worker => AfterNotify(t) = "post"
  BY ThreadAssumption DEF Wake, Return, Goto, Enters, AfterNotify, Places, Notifying
<1>6. sleeper # t /\ slot'[sleeper] = "Sleep" /\ pc'[sleeper] \in {"look", "wait", "stop"}
  BY <1>1, <1>4, <1>5 DEF TypeOK, Places, Label, Notifying
<1> HIDE DEF sleeper
<1>7. TypeOK'
  <2>1. searching' \in Nat /\ parked' \in Nat
    BY <1>1, <1>2 DEF TypeOK, CountersAgree
  <2> QED BY <1>1, <1>2, <1>3, <1>5, <2>1 DEF TypeOK, work, Label
<1>8. sleeper \notin Searching /\ Searching' = Searching \cup {sleeper}
  BY <1>1, <1>2, <1>4, <1>5, <1>6 DEF TypeOK, Searching, Notifying, Wake
<1>9. CountersAgree'
  <2>1. searching' = Cardinality(Searching')
    BY <1>2, <1>8, CounterFollows
  <2> QED BY <1>2, <1>3, <2>1 DEF CountersAgree
<1>10. SleepersSleep'
  <2>1. \A i, j \in DOMAIN sleepers' : sleepers'[i] = sleepers'[j] => i = j
    BY <1>1, <1>3 DEF SleepersSleep
  <2>2. \A v \in Worker : IsSleeper(v)' <=> IsSleeper(v) /\ v # sleeper
    <3> TAKE v \in Worker
    <3> HIDE DEF n
    <3>1. \A i \in 1..n : i = n \/ i \in 1..n - 1
      BY <1>1
    <3>2. \A i \in 1..n - 1 : i \in 1..n /\ i # n
      BY <1>1
    <3>3. n \in 1..n
      BY <1>1
    <3>4. \A i \in 1..n - 1 : sleepers[i] # sleeper
      BY <1>1, <3>2, <3>3 DEF SleepersSleep, sleeper
    <3> QED BY <1>1, <1>3, <3>1, <3>2, <3>3, <3>4 DEF IsSleeper, sleeper
  <2> QED BY <1>1, <1>2, <1>4, <1>5, <1>6, <2>1, <2>2 DEF TypeOK, SleepersSleep
<1>11. Places'
  BY <1>5, ThreadAssumption DEF TypeOK, Places, Label, Notifying
<1>12. OwnerWakes'
  BY <1>2, <1>5, ThreadAssumption DEF TypeOK, OwnerWakes, Wake
<1>13. WorkBounds'
  BY <1>1, <1>2, <1>5, <1>6 DEF TypeOK, WorkBounds, work
<1>14. AtomicWorkIsNoticed'
  BY <1>1, <1>2, <1>6 DEF TypeOK, AtomicWorkIsNoticed, WorkIsNoticed, WillLook
<1> QED BY <1>7, <1>9, <1>10, <1>11, <1>12, <1>13, <1>14

LEMMA PostStep ==
  ASSUME IInv, NEW t \in Producer, Post(t), Idle
  PROVE  IInv'
<1> USE DEF IInv, Thread
<1>1. TypeOK'
  <2>1. written' \in Nat /\ buffered' \in Nat
    BY DEF TypeOK, Post
  <2>2. pc' \in [Thread -> Label]
    BY DEF TypeOK, Post, Goto, Label, Notifying
  <2> QED BY <2>1, <2>2 DEF TypeOK, Post, Idle, counters
<1>2. Searching' = Searching
  BY DEF TypeOK, SleepersSleep, Places, Post, Idle, Goto, counters, Label, Notifying, Searching
<1>3. CountersAgree'
  BY <1>2, CounterFollows DEF CountersAgree, TypeOK, Post, Idle, Goto, counters
<1>4. SleepersSleep'
  BY DEF TypeOK, SleepersSleep, IsSleeper, Post, Idle, Goto, counters
<1>5. Places'
  BY Zenon DEF TypeOK, Places, Post, Idle, Goto, counters, Label, Notifying
<1>6. OwnerWakes'
  BY ThreadAssumption DEF TypeOK, OwnerWakes, Post, Idle, Goto, counters
<1>7. WorkBounds'
  BY WorkAssumption, ThreadAssumption DEF TypeOK, WorkBounds, Post, Idle, Goto, counters, Places
<1>8. AtomicWorkIsNoticed'
  BY DEF TypeOK, AtomicWorkIsNoticed, WorkIsNoticed, WillLook, Notifying, Places, Post, Idle, Goto, counters
<1> QED BY <1>1, <1>3, <1>4, <1>5, <1>6, <1>7, <1>8

LEMMA LookStep ==
  ASSUME IInv, NEW w \in Worker, Look(w), Idle
  PROVE  IInv'
<1> USE DEF IInv, Thread
<1>1. TypeOK'
  BY DEF TypeOK, Look, Idle, Goto, counters, Label, Notifying
<1>2. Searching' = Searching
  BY DEF TypeOK, SleepersSleep, Places, Look, Idle, Goto, counters, Label, Notifying, Searching
<1>3. CountersAgree'
  BY <1>2, CounterFollows DEF CountersAgree, TypeOK, Look, Idle, Goto, counters
<1>4. SleepersSleep'
  BY DEF TypeOK, SleepersSleep, IsSleeper, Look, Idle, Goto, counters
<1>5. Places'
  BY DEF TypeOK, Places, Look, Idle, Goto, counters, Label, Notifying
<1>6. OwnerWakes'
  BY ThreadAssumption DEF TypeOK, OwnerWakes, Look, Idle, Goto, counters
<1>7. WorkBounds'
  BY DEF TypeOK, WorkBounds, Look, Idle, Goto, counters, Places
<1>8. AtomicWorkIsNoticed'
  BY DEF TypeOK, AtomicWorkIsNoticed, WorkIsNoticed, WillLook, Notifying, Places, Look, Idle, Goto, counters
<1> QED BY <1>1, <1>3, <1>4, <1>5, <1>6, <1>7, <1>8

LEMMA TakeStep ==
  ASSUME IInv, NEW w \in Worker, Take(w), Idle
  PROVE  IInv'
<1> USE DEF IInv, Thread
<1>1. TypeOK'
  BY DEF TypeOK, Take, Idle, Goto, counters, Label, Notifying
<1>2. Searching' = Searching
  BY DEF TypeOK, SleepersSleep, Places, Take, Idle, Goto, counters, Label, Notifying, Searching
<1>3. CountersAgree'
  BY <1>2, CounterFollows DEF CountersAgree, TypeOK, Take, Idle, Goto, counters
<1>4. SleepersSleep'
  BY DEF TypeOK, SleepersSleep, IsSleeper, Take, Idle, Goto, counters
<1>5. Places'
  BY DEF TypeOK, Places, Take, Idle, Goto, counters, Label, Notifying
<1>6. OwnerWakes'
  BY ThreadAssumption DEF TypeOK, OwnerWakes, Take, Idle, Goto, counters
<1>7. WorkBounds'
  BY DEF TypeOK, WorkBounds, Take, Idle, Goto, counters, Places
<1>8. AtomicWorkIsNoticed'
  BY DEF TypeOK, AtomicWorkIsNoticed, WorkIsNoticed, WillLook, Notifying, Places, Take, Idle, Goto, counters
<1> QED BY <1>1, <1>3, <1>4, <1>5, <1>6, <1>7, <1>8

LEMMA DrainStep ==
  ASSUME IInv, Drains
  PROVE  IInv'
<1> USE DEF IInv, Drains, Drain, Idle, counters
<1>1. TypeOK'
  BY DEF TypeOK
<1>2. CountersAgree' /\ SleepersSleep' /\ Places' /\ OwnerWakes'
  BY DEF CountersAgree, Searching, SleepersSleep, IsSleeper, Places, OwnerWakes
<1>3. WorkBounds' /\ relaxed'
  BY DEF TypeOK, WorkBounds
<1>4. AtomicWorkIsNoticed'
  BY <1>3 DEF AtomicWorkIsNoticed
<1> QED BY <1>1, <1>2, <1>3, <1>4
-----------------------------------------------------------------------------
\* The initial states.
LEMMA InitIInv == Init => IInv
<1> SUFFICES ASSUME Init PROVE IInv
  OBVIOUS
<1> USE DEF Init, ClientInit
<1>1. TypeOK
  BY DEF TypeOK, Label, Thread
<1>2. CountersAgree
  <2>1. Searching = {}
    BY DEF Searching
  <2> QED BY <2>1, FS_EmptySet DEF CountersAgree
<1>3. SleepersSleep
  BY DEF SleepersSleep, IsSleeper
<1>4. Places
  BY ThreadAssumption DEF Places, Thread, Notifying
<1>5. OwnerWakes
  BY ThreadAssumption DEF OwnerWakes, Thread
<1>6. WorkBounds
  <2>1. \E w \in Worker : pc[w] # "done"
    <3>1. PICK readers \in (SUBSET Worker) \ {{}} :
            pc = [t \in Thread |-> IF t \in Producer THEN "post"
                                   ELSE IF t \in readers THEN "look" ELSE "done"]
      OBVIOUS
    <3>2. readers # {} /\ readers \subseteq Worker
      OBVIOUS
    <3>3. PICK w \in Worker : w \in readers
      BY <3>2, Zenon
    <3>4. pc[w] = "look"
      BY <3>1, <3>3, ThreadAssumption DEF Thread
    <3> QED BY <3>4
  <2>2. /\ written + buffered <= End /\ (~relaxed => buffered = 0)
        /\ \A w \in Worker : seen[w] <= read
    BY WorkAssumption
  <2> QED BY <2>1, <2>2 DEF WorkBounds
<1>7. AtomicWorkIsNoticed
  BY DEF AtomicWorkIsNoticed, WorkIsNoticed
<1> QED BY <1>1, <1>2, <1>3, <1>4, <1>5, <1>6, <1>7 DEF IInv

\* Every step keeps the invariant.
LEMMA StepIInv == IInv /\ [Next]_vars => IInv'
<1> SUFFICES ASSUME IInv, [Next]_vars PROVE IInv'
  OBVIOUS
<1>1. ASSUME NEW t \in Thread, WaiterStep(t) PROVE IInv'
  BY <1>1, StartSearchStep, FallAsleepStep, ParkStep, StopSleepStep, StopSearchStep,
     StopWorkStep, NotifyStep, LockSleepersStep, WakeStep DEF WaiterStep
<1>2. ASSUME NEW t \in Thread, ClientStep(t), Idle PROVE IInv'
  BY <1>2, PostStep, LookStep, TakeStep DEF ClientStep
<1>3. CASE UNCHANGED vars
  <2> USE <1>3 DEF vars, counters, work, IInv
  <2>1. TypeOK' /\ CountersAgree' /\ SleepersSleep'
    BY DEF TypeOK, CountersAgree, Searching, SleepersSleep, IsSleeper
  <2>2. Places' /\ OwnerWakes' /\ WorkBounds' /\ AtomicWorkIsNoticed'
    BY DEF Places, OwnerWakes, WorkBounds, AtomicWorkIsNoticed, WorkIsNoticed, WillLook
  <2> QED BY <2>1, <2>2
<1> QED BY <1>1, <1>2, <1>3, DrainStep DEF Next, Step

\* The CHECKs hold where the invariant does.
LEMMA ChecksFollow == IInv => ChecksHold
<1> SUFFICES ASSUME IInv PROVE ChecksHold
  OBVIOUS
<1>1. \A t \in Thread : pc[t] # "aborted"
  BY DEF IInv, TypeOK, Label, Notifying
<1>2. ASSUME Finished PROVE searching = 0 /\ parked = 0
  <2>1. \A w \in Worker : slot[w] = "Work"
    BY <1>2 DEF IInv, Places, Finished, Thread
  <2>2. Searching = {}
    BY <2>1 DEF Searching
  <2>3. \A w \in Worker : ~IsSleeper(w)
    BY <2>1 DEF IInv, SleepersSleep
  <2>4. Len(sleepers) = 0
    <3>1. /\ Len(sleepers) \in Nat /\ DOMAIN sleepers = 1..Len(sleepers)
          /\ Len(sleepers) > 0 => 1 \in DOMAIN sleepers /\ sleepers[1] \in Worker
      BY DEF IInv, TypeOK
    <3> QED BY <2>3, <3>1 DEF IsSleeper
  <2> QED BY <2>2, <2>4, FS_EmptySet DEF IInv, CountersAgree
<1> QED BY <1>1, <1>2 DEF ChecksHold

\* In every state the counters of state_, the list of sleepers and what each worker
\* was told agree, so that no CHECK of wait, stop_wait, notify and close fails.
THEOREM ChecksHoldAlways == Spec => []ChecksHold
<1>1. Spec => []IInv
  BY InitIInv, StepIInv, PTL DEF Spec
<1> QED BY <1>1, ChecksFollow, PTL

\* No work added by an atomic operation is left behind: once every notify has
\* returned, some worker that is up will look at the queue again.
THEOREM AtomicWorkIsNoticedAlways == Spec => []AtomicWorkIsNoticed
<1>1. IInv => AtomicWorkIsNoticed
  BY DEF IInv
<1> QED BY <1>1, InitIInv, StepIInv, PTL DEF Spec
-----------------------------------------------------------------------------
\* Every array is searched whole.
Whole == \A a \in 1..Arrays : Probes(a) = Length[a]

Entry == [key : Key \cup {NoKey}, value : Caller \cup {NoValue, Migrated}]
Stops == {"idle", "protect", "probe", "value", "migrate", "take", "exchange", "move", "leave",
           "wait", "done"}
Seen == Caller \cup {NoValue, Migrated, Default}
Cursor == [array : 0..Arrays, i : Nat, end : Nat, moving : Caller \cup {NoValue},
           generation : Nat, value : Seen]
MapTypes ==
  /\ arrays = [a \in 1..Arrays |-> arrays[a]]
  /\ \A a \in 1..Arrays : arrays[a] \in [Slots(a) -> Entry]
  /\ current \in 0..Arrays /\ from \in 0..Arrays - 1
  /\ position \in Nat /\ helpers \in Nat /\ generation \in Nat
  /\ call \in [Caller -> [kind : {"insert", "find"}, key : Key]]
  /\ where \in [Caller -> Stops] /\ cursor \in [Caller -> Cursor]
  /\ result \in [Caller -> Seen] /\ known \in [Caller -> SUBSET Caller]

\* The array that the callers use, or leave.
Top == IF from = 0 THEN current ELSE from
Helping(t) == where[t] \in {"take", "exchange", "move", "leave"}
PhaseInv ==
  /\ from = 0 <=> current # 0
  /\ helpers = Cardinality({t \in Caller : Helping(t)})
  /\ from = 0 => \A t \in Caller : ~Helping(t)

\* The slots that a helper has still to close, and those that are open.
Mine(t, s) ==
  /\ s < cursor[t].end
  /\ \/ where[t] = "exchange" /\ cursor[t].i <= s
     \/ where[t] = "move" /\ cursor[t].i < s
Pending(s) == s >= position * Chunk \/ \E t \in Caller : Mine(t, s)
Open(s) == from = 0 \/ Pending(s)
Working(t) == where[t] \in {"exchange", "move"}
TasksInv ==
  \A t \in Caller :
    /\ Working(t) => /\ cursor[t].i < cursor[t].end /\ cursor[t].end <= Length[from]
                     /\ cursor[t].end <= position * Chunk
    /\ where[t] = "leave" => position * Chunk >= Length[from]
    /\ \A u \in Caller : Working(t) /\ Working(u) /\ t # u =>
         cursor[t].end <= cursor[u].i \/ cursor[u].end <= cursor[t].i

EntriesInv ==
  /\ \A a \in 1..Arrays : \A s \in Slots(a) :
       /\ arrays[a][s].key = NoKey => arrays[a][s].value \in {NoValue, Migrated}
       /\ a < Top => arrays[a][s].value = Migrated
       /\ a = Top => (arrays[a][s].value = Migrated <=> ~Open(s))
       /\ a > Top => arrays[a][s].value # Migrated
       /\ a > Top /\ (from = 0 \/ a # from + 1) => arrays[a][s].key = NoKey
NoneBefore(a, key, i) == \A h \in 0..i - 1 : ~Takes(a, key, h)
KeysInv ==
  \A a \in 1..Arrays : \A s \in Slots(a) : arrays[a][s].key # NoKey =>
    \E i \in 0..Length[a] - 1 : s = Probed(a, arrays[a][s].key, i) /\ NoneBefore(a, arrays[a][s].key, i)
\* What is in the new array has left the old one.
MovedInv ==
  from # 0 =>
    /\ \A s \in Slots(from + 1) : arrays[from + 1][s].key # NoKey =>
         /\ arrays[from + 1][s].value \in Caller
         /\ \E r \in Slots(from) : /\ arrays[from][r].key = arrays[from + 1][s].key
                                   /\ arrays[from][r].value = Migrated
    /\ \A t \in Caller : where[t] = "move" =>
         /\ cursor[t].moving \in Caller /\ arrays[from][cursor[t].i].key # NoKey
         /\ arrays[from][cursor[t].i].value = Migrated
         /\ \A s \in Slots(from + 1) : arrays[from + 1][s].key # arrays[from][cursor[t].i].key
CursorOk(t) ==
  where[t] \in {"probe", "value"} =>
    /\ cursor[t].array \in 1..Top /\ cursor[t].i < Length[cursor[t].array]
    /\ NoneBefore(cursor[t].array, call[t].key, cursor[t].i)
    /\ where[t] = "value" => AtSlot(t).key = call[t].key
CursorsInv == \A t \in Caller : CursorOk(t)

Holds(key, v) ==
  \/ \E a \in 1..Arrays : \E s \in Slots(a) : arrays[a][s].key = key /\ arrays[a][s].value = v
  \/ \E t \in Caller : /\ where[t] = "move" /\ arrays[from][cursor[t].i].key = key
                       /\ cursor[t].moving = v
ResultOk(t) ==
  /\ result[t] \in Caller => Holds(call[t].key, result[t])
  /\ \A v \in known[t] : Holds(call[t].key, v)
  /\ where[t] # "done" => cursor[t].value \notin Caller
  /\ where[t] = "done" => /\ known[t] # {} => result[t] \in known[t]
                          /\ call[t].kind = "insert" => result[t] \in Caller
  /\ where[t] \in {"probe", "value"} /\ known[t] # {} =>
       \E s \in Slots(cursor[t].array) : arrays[cursor[t].array][s].key = call[t].key
ResultsInv == \A t \in Caller : ResultOk(t)
MapInv == /\ MapTypes /\ PhaseInv /\ TasksInv /\ EntriesInv /\ KeysInv /\ MovedInv /\ CursorsInv
          /\ ResultsInv

\* The arrays double in length.
LEMMA LengthsAre ==
  /\ \A a \in 1..Arrays : Length[a] \in Nat /\ Length[a] > 0
  /\ \A a \in 1..Arrays - 1 : Length[a + 1] = Length[a] + Length[a] /\ a + 1 \in 1..Arrays /\ a \in 1..Arrays
  /\ Arrays \in Nat /\ Arrays > 0 /\ Chunk \in Nat /\ Chunk > 0
BY MapAssumption

\* A caller's value, no value, the mark of a moved slot and the default are different things.
LEMMA ValuesDiffer ==
  /\ NoValue \notin Caller /\ Migrated \notin Caller /\ Default \notin Caller
  /\ NoValue # Migrated /\ NoValue # Default /\ Migrated # Default
  /\ NoKey \notin Key /\ Key \subseteq Nat /\ NoKey \in Nat /\ IsFiniteSet(Caller)
BY MapAssumption DEF NoValue, Migrated, Default, NoKey

\* A number is a multiple of n and a remainder below n.
LEMMA Remainders ==
  ASSUME NEW n \in Int, n > 0, NEW x \in Int
  PROVE  x % n \in 0..n - 1 /\ \E q \in Int : x = n * q + (x % n)
<1>1. x = n * (x \div n) + (x % n)
  BY Z3
<1>2. x \div n \in Int /\ x % n \in 0..n - 1
  OBVIOUS
<1>. QED  BY <1>1, <1>2, Zenon

\* Numbers less than n apart leave different remainders.
LEMMA RemaindersDiffer ==
  ASSUME NEW n \in Int, n > 0, NEW x \in Int, NEW y \in Int, x <= y, y - x < n, x % n = y % n
  PROVE  x = y
<1>1. \E q \in Int : x = n * q + (x % n)
  BY Remainders
<1>2. \E q \in Int : y = n * q + (y % n)
  BY Remainders
<1>. PICK p \in Int : x = n * p + (x % n)
  BY <1>1
<1>. PICK q \in Int : y = n * q + (y % n)
  BY <1>2
<1>3. n * (q - p) = y - x
  BY Z3
<1>4. q - p \in Int
  OBVIOUS
<1>5. \A e \in Int : n * e = y - x => y - x = 0
  <2>. SUFFICES ASSUME NEW e \in Int, n * e = y - x PROVE y - x = 0
    OBVIOUS
  <2>1. CASE e >= 1
    <3>1. n * e >= n
      BY <2>1, Z3
    <3>. QED  BY <3>1
  <2>2. CASE e <= 0
    <3>1. n * e <= 0
      BY <2>2, Z3
    <3>. QED  BY <3>1
  <2>. QED  BY <2>1, <2>2
<1>6. y - x = 0
  BY <1>3, <1>4, <1>5
<1>. QED  BY <1>6

\* The slots probed for a key are slots of the array, and no slot is probed twice.
LEMMA ProbedIs ==
  ASSUME NEW a \in 1..Arrays, NEW key \in Nat
  PROVE  /\ \A i \in Nat : Probed(a, key, i) \in Slots(a)
         /\ \A i, j \in 0..Length[a] - 1 : Probed(a, key, i) = Probed(a, key, j) => i = j
<1>. PICK n \in Nat : n = Length[a] /\ n > 0
  BY LengthsAre
<1>1. \A i \in Nat : Probed(a, key, i) \in Slots(a)
  BY Remainders DEF Probed, Slots
<1>2. ASSUME NEW i \in 0..n - 1, NEW j \in 0..n - 1, i <= j, (key + 1 + i) % n = (key + 1 + j) % n
      PROVE  i = j
  <2>. PICK x \in Int : x = key + 1 + i
    OBVIOUS
  <2>. PICK y \in Int : y = key + 1 + j
    OBVIOUS
  <2>1. n \in Int /\ n > 0 /\ x <= y /\ y - x < n
    BY <1>2
  <2>2. x % n = y % n
    BY <1>2
  <2>3. x \in Int /\ y \in Int
    OBVIOUS
  <2>4. x = y
    BY <2>1, <2>2, <2>3, RemaindersDiffer, Zenon
  <2>. QED  BY <2>4
<1>. QED  BY <1>1, <1>2 DEF Probed

\* A key has one slot in an array.
LEMMA KeyOnce ==
  ASSUME MapTypes, KeysInv, NEW a \in 1..Arrays, NEW s \in Slots(a), NEW r \in Slots(a),
         arrays[a][s].key = arrays[a][r].key, arrays[a][s].key # NoKey
  PROVE  s = r
<1>. PICK k : k = arrays[a][s].key
  OBVIOUS
<1>. PICK i \in 0..Length[a] - 1 : s = Probed(a, k, i) /\ NoneBefore(a, k, i)
  BY DEF KeysInv
<1>. PICK j \in 0..Length[a] - 1 : r = Probed(a, k, j) /\ NoneBefore(a, k, j)
  BY DEF KeysInv
<1>1. ~(i < j)
  <2>. SUFFICES ASSUME i < j PROVE FALSE
    BY Zenon
  <2>1. i \in 0..j - 1
    BY LengthsAre
  <2>. QED  BY <2>1, Zenon DEF NoneBefore, Takes
<1>2. ~(j < i)
  <2>. SUFFICES ASSUME j < i PROVE FALSE
    BY Zenon
  <2>1. j \in 0..i - 1
    BY LengthsAre
  <2>. QED  BY <2>1, Zenon DEF NoneBefore, Takes
<1>3. i \in Int /\ j \in Int
  OBVIOUS
<1>4. i = j
  BY <1>1, <1>2, <1>3
<1>. QED  BY <1>4

\* Where the value of a key can be: in the array in use, in the next, or on its way.
LEMMA WhereHeld ==
  ASSUME MapTypes, PhaseInv, TasksInv, EntriesInv, MovedInv, NEW k \in Key, NEW v \in Caller, Holds(k, v)
  PROVE  /\ Top \in 1..Arrays
         /\ \E r \in Slots(Top) : arrays[Top][r].key = k /\
              \/ arrays[Top][r].value = v
              \/ /\ arrays[Top][r].value = Migrated /\ from # 0
                 /\ \/ \E s \in Slots(from + 1) : /\ arrays[from + 1][s].key = k
                                                  /\ arrays[from + 1][s].value = v
                    \/ \E t \in Caller : /\ where[t] = "move" /\ cursor[t].moving = v
                                         /\ arrays[from][cursor[t].i].key = k
                                         /\ r = cursor[t].i
<1>1. Top \in 1..Arrays /\ (from # 0 => from \in 1..Arrays - 1 /\ Top = from)
  BY LengthsAre DEF MapTypes, PhaseInv, Top
<1>2. CASE \E a \in 1..Arrays : \E s \in Slots(a) : arrays[a][s].key = k /\ arrays[a][s].value = v
  <2>. PICK a \in 1..Arrays : \E s \in Slots(a) : arrays[a][s].key = k /\ arrays[a][s].value = v
    BY <1>2
  <2>. PICK s \in Slots(a) : arrays[a][s].key = k /\ arrays[a][s].value = v
    OBVIOUS
  <2>1. ~(a < Top)
    BY ValuesDiffer DEF EntriesInv
  <2>2. a = Top \/ (from # 0 /\ a = from + 1)
    <3>1. a > Top /\ (from = 0 \/ a # from + 1) => arrays[a][s].key = NoKey
      BY DEF EntriesInv
    <3>2. a = Top \/ a > Top
      BY <1>1, <2>1, LengthsAre
    <3>3. arrays[a][s].key # NoKey
      BY ValuesDiffer
    <3>. QED  BY <3>1, <3>2, <3>3
  <2>3. CASE a = Top
    BY <1>1, <2>3
  <2>4. CASE from # 0 /\ a = from + 1
    <3>1. \E r \in Slots(from) : arrays[from][r].key = k /\ arrays[from][r].value = Migrated
      BY <2>4, ValuesDiffer DEF MovedInv
    <3>. QED  BY <1>1, <2>4, <3>1
  <2>. QED  BY <2>2, <2>3, <2>4
<1>3. CASE \E t \in Caller : /\ where[t] = "move" /\ arrays[from][cursor[t].i].key = k
                             /\ cursor[t].moving = v
  <2>. PICK t \in Caller : where[t] = "move" /\ arrays[from][cursor[t].i].key = k /\ cursor[t].moving = v
    BY <1>3
  <2>1. from # 0
    BY DEF PhaseInv, Helping
  <2>2. arrays[from][cursor[t].i].value = Migrated
    BY <2>1 DEF MovedInv
  <2>3. cursor[t].i \in Slots(from)
    <3>1. cursor[t].i \in Nat
      BY DEF MapTypes, Cursor
    <3>2. cursor[t].i < cursor[t].end /\ cursor[t].end <= Length[from] /\ cursor[t].end \in Nat
      BY DEF TasksInv, Working, MapTypes, Cursor
    <3>. QED  BY <1>1, <2>1, <3>1, <3>2, LengthsAre DEF Slots
  <2>. QED  BY <1>1, <2>1, <2>2, <2>3
<1>. QED  BY <1>1, <1>2, <1>3 DEF Holds

\* At most one value is held for a key, in the old array or in the new one.
LEMMA HeldOnce ==
  ASSUME MapInv, NEW k \in Key, NEW v \in Caller, NEW w \in Caller, Holds(k, v), Holds(k, w)
  PROVE  v = w
<1>0. /\ MapTypes /\ PhaseInv /\ TasksInv /\ EntriesInv /\ KeysInv /\ MovedInv
      /\ k # NoKey /\ v # Migrated /\ w # Migrated
  BY ValuesDiffer DEF MapInv
<1>1. Top \in 1..Arrays /\ (from # 0 => from + 1 \in 1..Arrays)
  <2>1. Top \in 1..Arrays
    BY <1>0, WhereHeld
  <2>. QED  BY <1>0, <2>1, LengthsAre DEF MapTypes
<1>. PICK r \in Slots(Top) : arrays[Top][r].key = k /\
       \/ arrays[Top][r].value = v
       \/ /\ arrays[Top][r].value = Migrated /\ from # 0
          /\ \/ \E s \in Slots(from + 1) : /\ arrays[from + 1][s].key = k
                                           /\ arrays[from + 1][s].value = v
             \/ \E t \in Caller : /\ where[t] = "move" /\ cursor[t].moving = v
                                  /\ arrays[from][cursor[t].i].key = k
                                  /\ r = cursor[t].i
  BY <1>0, WhereHeld
<1>. PICK q \in Slots(Top) : arrays[Top][q].key = k /\
       \/ arrays[Top][q].value = w
       \/ /\ arrays[Top][q].value = Migrated /\ from # 0
          /\ \/ \E s \in Slots(from + 1) : /\ arrays[from + 1][s].key = k
                                           /\ arrays[from + 1][s].value = w
             \/ \E t \in Caller : /\ where[t] = "move" /\ cursor[t].moving = w
                                  /\ arrays[from][cursor[t].i].key = k
                                  /\ q = cursor[t].i
  BY <1>0, WhereHeld
<1>2. q = r
  BY <1>0, <1>1, KeyOnce
<1>3. CASE arrays[Top][r].value # Migrated
  BY <1>2, <1>3
<1>4. CASE arrays[Top][r].value = Migrated
  <2>0. from # 0
    BY <1>0, <1>4
  <2>1. \/ \E s \in Slots(from + 1) : arrays[from + 1][s].key = k /\ arrays[from + 1][s].value = v
        \/ \E t \in Caller : /\ where[t] = "move" /\ cursor[t].moving = v
                             /\ arrays[from][cursor[t].i].key = k /\ r = cursor[t].i
    BY <1>0, <1>4
  <2>2. \/ \E s \in Slots(from + 1) : arrays[from + 1][s].key = k /\ arrays[from + 1][s].value = w
        \/ \E t \in Caller : /\ where[t] = "move" /\ cursor[t].moving = w
                             /\ arrays[from][cursor[t].i].key = k /\ r = cursor[t].i
    BY <1>0, <1>2, <1>4, Zenon
  <2>3. \A t \in Caller : where[t] = "move" /\ arrays[from][cursor[t].i].key = k =>
          \A s \in Slots(from + 1) : arrays[from + 1][s].key # k
    BY <1>0, <2>0 DEF MovedInv
  <2>4. \A t, u \in Caller : where[t] = "move" /\ where[u] = "move" /\ cursor[t].i = cursor[u].i => t = u
    <3>. SUFFICES ASSUME NEW t \in Caller, NEW u \in Caller, where[t] = "move", where[u] = "move",
                         cursor[t].i = cursor[u].i, t # u
                  PROVE  FALSE
      OBVIOUS
    <3>1. /\ cursor[t].i < cursor[t].end /\ cursor[u].i < cursor[u].end
          /\ cursor[t].end <= cursor[u].i \/ cursor[u].end <= cursor[t].i
      BY <1>0 DEF TasksInv, Working
    <3>2. cursor[t].i \in Nat /\ cursor[t].end \in Nat /\ cursor[u].end \in Nat
      BY <1>0, Zenon DEF MapTypes, Cursor
    <3>. QED  BY <3>1, <3>2
  <2>5. \A s, t \in Slots(from + 1) :
          arrays[from + 1][s].key = k /\ arrays[from + 1][t].key = k => s = t
    BY <1>0, <1>1, <2>0, KeyOnce
  <2>. QED  BY <2>1, <2>2, <2>3, <2>4, <2>5
<1>. QED  BY <1>3, <1>4

\* A slot with the key and no value: no value is held for the key.
LEMMA NotHeld ==
  ASSUME MapInv, NEW a \in 1..Top, NEW s \in Slots(a), NEW k \in Key, NEW v \in Caller,
         arrays[a][s].key = k, arrays[a][s].value = NoValue
  PROVE  ~Holds(k, v)
<1>0. /\ MapTypes /\ PhaseInv /\ TasksInv /\ EntriesInv /\ KeysInv /\ MovedInv /\ k # NoKey
  BY ValuesDiffer DEF MapInv
<1>. SUFFICES ASSUME Holds(k, v) PROVE FALSE
  OBVIOUS
<1>1. Top \in 1..Arrays
  BY <1>0, WhereHeld
<1>2. a = Top
  <2>1. a \in 1..Arrays
    BY <1>1, LengthsAre
  <2>2. ~(a < Top)
    BY <1>0, <2>1, ValuesDiffer DEF EntriesInv
  <2>. QED  BY <1>1, <2>2
<1>3. \E r \in Slots(Top) : arrays[Top][r].key = k /\ arrays[Top][r].value \in {v, Migrated}
  BY <1>0, WhereHeld
<1>4. \A r \in Slots(Top) : arrays[Top][r].key = k => r = s
  BY <1>0, <1>1, <1>2, KeyOnce
<1>. QED  BY <1>2, <1>3, <1>4, ValuesDiffer

\* The invariant says that a call that returns gives the value its key has for all, that an
\* insert never loses the value it found and that no helper runs out of slots.
LEMMA MapInvImplies == MapInv => ValuesAreKept
<1>. SUFFICES ASSUME MapInv PROVE ValuesAreKept
  OBVIOUS
<1>0. MapTypes /\ ResultsInv
  BY DEF MapInv
<1>1. \A t \in Caller : where[t] # "overflow"
  BY <1>0 DEF MapTypes, Stops
<1>2. ASSUME NEW t \in Caller, NEW u \in Caller, call[t].key = call[u].key,
             {result[t], result[u]} \subseteq Caller
      PROVE  result[t] = result[u]
  <2>1. Holds(call[t].key, result[t]) /\ Holds(call[t].key, result[u])
    BY <1>0, <1>2 DEF ResultsInv, ResultOk
  <2>2. call[t].key \in Key /\ result[t] \in Caller /\ result[u] \in Caller
    BY <1>0, <1>2 DEF MapTypes
  <2>. QED  BY <2>1, <2>2, HeldOnce
<1>3. \A t \in Caller : where[t] = "done" =>
        /\ known[t] # {} => result[t] \in known[t]
        /\ call[t].kind = "insert" => result[t] \in Caller
  BY <1>0 DEF ResultsInv, ResultOk
<1>. QED  BY <1>1, <1>2, <1>3 DEF ValuesAreKept, MigrationFits

\* The empty map satisfies the invariant.
LEMMA MapInitInv == MapInit => MapInv
<1>. SUFFICES ASSUME MapInit PROVE MapInv
  OBVIOUS
<1>0. \A a \in 1..Arrays : \A s \in Slots(a) : arrays[a][s].key = NoKey /\ arrays[a][s].value = NoValue
  BY DEF MapInit
<1>1. MapTypes
  BY LengthsAre DEF MapInit, MapTypes, Entry, Stops, Cursor, Seen, Slots
<1>2. Top = 1 /\ from = 0 /\ \A t \in Caller : where[t] = "idle"
  BY DEF MapInit, Top
<1>3. PhaseInv
  <2>1. {t \in Caller : Helping(t)} = {}
    BY <1>2 DEF Helping
  <2>2. Cardinality({t \in Caller : Helping(t)}) = 0
    BY <2>1, FS_EmptySet
  <2>3. \A t \in Caller : ~Helping(t)
    BY <2>1
  <2>. QED  BY <1>2, <2>2, <2>3 DEF PhaseInv, MapInit
<1>4. TasksInv
  BY <1>2 DEF TasksInv, Working
<1>5. EntriesInv
  BY <1>0, <1>2, ValuesDiffer DEF EntriesInv, Open
<1>6. KeysInv /\ MovedInv
  BY <1>0, <1>2 DEF KeysInv, MovedInv
<1>7. CursorsInv
  BY <1>2 DEF CursorsInv, CursorOk
<1>8. ResultsInv
  <2>1. \A t \in Caller : result[t] \notin Caller /\ known[t] = {}
    BY ValuesDiffer DEF MapInit
  <2>2. \A t \in Caller : cursor[t].value \notin Caller
    BY ValuesDiffer DEF MapInit
  <2>. QED  BY <1>2, <2>1, <2>2 DEF ResultsInv, ResultOk
<1>. QED  BY <1>1, <1>3, <1>4, <1>5, <1>6, <1>7, <1>8 DEF MapInv

\* One slot gets this key and this value.
OnlyAt(a, s, k, v) ==
  /\ arrays' = [b \in 1..Arrays |-> arrays'[b]]
  /\ \A b \in 1..Arrays : arrays'[b] \in [Slots(b) -> Entry]
  /\ \A b \in 1..Arrays : \A q \in Slots(b) :
       /\ arrays'[b][q].key = IF b = a /\ q = s THEN k ELSE arrays[b][q].key
       /\ arrays'[b][q].value = IF b = a /\ q = s THEN v ELSE arrays[b][q].value

\* Storing a key changes one slot.
LEMMA PutKey ==
  ASSUME MapTypes, NEW a \in 1..Arrays, NEW s \in Slots(a), NEW k \in Key,
         arrays' = [arrays EXCEPT ![a][s].key = k]
  PROVE  OnlyAt(a, s, k, arrays[a][s].value)
<1>. PICK e : e = [arrays[a][s] EXCEPT !.key = k]
  OBVIOUS
<1>1. e \in Entry /\ e.key = k /\ e.value = arrays[a][s].value
  BY DEF MapTypes, Entry
<1>2. arrays' = [arrays EXCEPT ![a] = [arrays[a] EXCEPT ![s] = e]]
  OBVIOUS
<1>3. \A b \in 1..Arrays : arrays'[b] = IF b = a THEN [arrays[a] EXCEPT ![s] = e] ELSE arrays[b]
  BY <1>2 DEF MapTypes
<1>5. arrays' = [b \in 1..Arrays |-> arrays'[b]]
  BY <1>2 DEF MapTypes
<1>6. \A b \in 1..Arrays : arrays'[b] \in [Slots(b) -> Entry]
  BY <1>1, <1>3 DEF MapTypes
<1>7. \A b \in 1..Arrays : \A q \in Slots(b) :
        arrays'[b][q] = IF b = a /\ q = s THEN e ELSE arrays[b][q]
  BY <1>3 DEF MapTypes
<1>. QED  BY <1>1, <1>5, <1>6, <1>7 DEF OnlyAt

\* Storing a value changes one slot.
LEMMA PutValue ==
  ASSUME MapTypes, NEW a \in 1..Arrays, NEW s \in Slots(a), NEW v \in Caller \cup {Migrated},
         arrays' = [arrays EXCEPT ![a][s].value = v]
  PROVE  OnlyAt(a, s, arrays[a][s].key, v)
<1>. PICK e : e = [arrays[a][s] EXCEPT !.value = v]
  OBVIOUS
<1>1. e \in Entry /\ e.value = v /\ e.key = arrays[a][s].key
  BY DEF MapTypes, Entry
<1>2. arrays' = [arrays EXCEPT ![a] = [arrays[a] EXCEPT ![s] = e]]
  OBVIOUS
<1>3. \A b \in 1..Arrays : arrays'[b] = IF b = a THEN [arrays[a] EXCEPT ![s] = e] ELSE arrays[b]
  BY <1>2 DEF MapTypes
<1>5. arrays' = [b \in 1..Arrays |-> arrays'[b]]
  BY <1>2 DEF MapTypes
<1>6. \A b \in 1..Arrays : arrays'[b] \in [Slots(b) -> Entry]
  BY <1>1, <1>3 DEF MapTypes
<1>7. \A b \in 1..Arrays : \A q \in Slots(b) :
        arrays'[b][q] = IF b = a /\ q = s THEN e ELSE arrays[b][q]
  BY <1>3 DEF MapTypes
<1>. QED  BY <1>1, <1>5, <1>6, <1>7 DEF OnlyAt

\* Storing a key and its value changes one slot.
LEMMA PutBoth ==
  ASSUME MapTypes, NEW a \in 1..Arrays, NEW s \in Slots(a), NEW k \in Key, NEW v \in Caller,
         arrays' = [arrays EXCEPT ![a][s] = [key |-> k, value |-> v]]
  PROVE  OnlyAt(a, s, k, v)
<1>. PICK e : e = [key |-> k, value |-> v]
  OBVIOUS
<1>1. e \in Entry /\ e.key = k /\ e.value = v
  BY DEF Entry
<1>2. arrays' = [arrays EXCEPT ![a] = [arrays[a] EXCEPT ![s] = e]]
  OBVIOUS
<1>3. \A b \in 1..Arrays : arrays'[b] = IF b = a THEN [arrays[a] EXCEPT ![s] = e] ELSE arrays[b]
  BY <1>2 DEF MapTypes
<1>5. arrays' = [b \in 1..Arrays |-> arrays'[b]]
  BY <1>2 DEF MapTypes
<1>6. \A b \in 1..Arrays : arrays'[b] \in [Slots(b) -> Entry]
  BY <1>1, <1>3 DEF MapTypes
<1>7. \A b \in 1..Arrays : \A q \in Slots(b) :
        arrays'[b][q] = IF b = a /\ q = s THEN e ELSE arrays[b][q]
  BY <1>3 DEF MapTypes
<1>. QED  BY <1>1, <1>5, <1>6, <1>7 DEF OnlyAt

\* A key that a slot has is never replaced; a value that is held stays held.
KeysGrow ==
  \A a \in 1..Arrays : \A s \in Slots(a) :
    arrays[a][s].key # NoKey => arrays'[a][s].key = arrays[a][s].key
HeldGrow == \A k \in Key, v \in Caller : Holds(k, v) => Holds(k, v)'

\* Keys are never erased, so a slot that a search passed over is never the key's.
LEMMA NoneBeforeKeeps ==
  ASSUME KeysGrow, NEW a \in 1..Arrays, NEW k \in Key, NEW i \in Nat, NoneBefore(a, k, i)
  PROVE  NoneBefore(a, k, i)'
<1>1. \A h \in 0..i - 1 : Probed(a, k, h) \in Slots(a)
  <2>1. k \in Nat
    BY ValuesDiffer
  <2>. QED  BY <2>1, ProbedIs
<1>2. \A h \in 0..i - 1 : arrays[a][Probed(a, k, h)].key \notin {NoKey, k}
  BY DEF NoneBefore, Takes
<1>3. \A h \in 0..i - 1 : arrays'[a][Probed(a, k, h)].key = arrays[a][Probed(a, k, h)].key
  BY <1>1, <1>2 DEF KeysGrow
<1>. QED  BY <1>2, <1>3 DEF NoneBefore, Takes

\* A key stays in the first slot free for it if it is put there.
LEMMA KeysKeep ==
  ASSUME MapTypes, KeysInv, KeysGrow,
         \A a \in 1..Arrays : \A s \in Slots(a) : arrays'[a][s].key \in Key \cup {NoKey},
         \A a \in 1..Arrays : \A s \in Slots(a) :
           arrays[a][s].key = NoKey /\ arrays'[a][s].key # NoKey =>
             \E i \in 0..Length[a] - 1 : /\ s = Probed(a, arrays'[a][s].key, i)
                                         /\ NoneBefore(a, arrays'[a][s].key, i)
  PROVE  KeysInv'
<1>. SUFFICES ASSUME NEW a \in 1..Arrays, NEW s \in Slots(a), arrays'[a][s].key # NoKey
              PROVE  \E i \in 0..Length[a] - 1 :
                       /\ s = Probed(a, arrays'[a][s].key, i)
                       /\ \A h \in 0..i - 1 : arrays'[a][Probed(a, arrays'[a][s].key, h)].key
                                                \notin {NoKey, arrays'[a][s].key}
  BY DEF KeysInv, NoneBefore, Takes
<1>. PICK k \in Key : k = arrays'[a][s].key
  OBVIOUS
<1>1. \E i \in 0..Length[a] - 1 : s = Probed(a, k, i) /\ NoneBefore(a, k, i)
  <2>1. CASE arrays[a][s].key = NoKey
    BY <2>1
  <2>2. CASE arrays[a][s].key # NoKey
    BY <2>2 DEF KeysInv, KeysGrow
  <2>. QED  BY <2>1, <2>2
<1>. PICK i \in 0..Length[a] - 1 : s = Probed(a, k, i) /\ NoneBefore(a, k, i)
  BY <1>1
<1>2. i \in Nat
  BY LengthsAre
<1>3. NoneBefore(a, k, i)'
  BY <1>2, NoneBeforeKeeps, Zenon
<1>4. \A h \in 0..i - 1 : arrays'[a][Probed(a, k, h)].key \notin {NoKey, k}
  BY <1>3, Zenon DEF NoneBefore, Takes
<1>. QED  BY <1>4, Zenon

\* A thread that did nothing, or has left what it was doing.
LEMMA OtherKeeps ==
  ASSUME MapInv, MapTypes', KeysGrow, HeldGrow, Top \in 1..Top', Top' \in 1..Arrays, UNCHANGED call,
         NEW u \in Caller, result'[u] = result[u], known'[u] = known[u],
         cursor'[u].value = cursor[u].value, where[u] = "done" => where'[u] = "done",
         \/ where'[u] \notin {"probe", "value", "done"}
         \/ where'[u] = where[u] /\ cursor'[u].array = cursor[u].array /\ cursor'[u].i = cursor[u].i
  PROVE  CursorOk(u)' /\ ResultOk(u)'
<1>0. MapTypes /\ CursorOk(u) /\ ResultOk(u) /\ call[u].key \in Key
  BY DEF MapInv, CursorsInv, ResultsInv, MapTypes
<1>. PICK k \in Key : k = call[u].key
  BY <1>0
<1>1. (result'[u] \in Caller => Holds(k, result[u])') /\ \A v \in known[u] : Holds(k, v)'
  <2>. PICK r : r = result[u]
    OBVIOUS
  <2>1. known[u] \in SUBSET Caller
    BY <1>0 DEF MapTypes
  <2>2. r \in Caller => Holds(k, r)'
    BY <1>0 DEF ResultOk, HeldGrow
  <2>3. \A v \in known[u] : Holds(k, v)'
    BY <1>0, <2>1 DEF ResultOk, HeldGrow
  <2>. QED  BY <2>2, <2>3 DEF Holds
<1>5. where'[u] # "done" => cursor'[u].value \notin Caller
  BY <1>0 DEF ResultOk
<1>2. CASE where'[u] \notin {"probe", "value", "done"}
  BY <1>1, <1>2, <1>5 DEF CursorOk, ResultOk, Holds
<1>3. CASE where'[u] = "done" /\ where[u] = "done"
  BY <1>0, <1>1, <1>3 DEF CursorOk, ResultOk, Holds
<1>4. CASE /\ where'[u] = where[u] /\ where[u] \in {"probe", "value"}
           /\ cursor'[u].array = cursor[u].array /\ cursor'[u].i = cursor[u].i
  <2>. PICK a : a = cursor[u].array
    OBVIOUS
  <2>. PICK i \in Nat : i = cursor[u].i
    BY <1>0 DEF MapTypes, Cursor
  <2>1. /\ a \in 1..Top /\ i < Length[a] /\ NoneBefore(a, k, i)
        /\ where[u] = "value" => arrays[a][Probed(a, k, i)].key = k
    BY <1>0, <1>4 DEF CursorOk, AtSlot
  <2>2. a \in 1..Arrays /\ a \in 1..Top'
    BY <2>1, LengthsAre
  <2>3. NoneBefore(a, k, i)'
    BY <2>1, <2>2, NoneBeforeKeeps
  <2>4. k \in Nat /\ k # NoKey /\ Probed(a, k, i) \in Slots(a)
    BY <2>2, ValuesDiffer, ProbedIs
  <2>5. where[u] = "value" => arrays'[a][Probed(a, k, i)].key = k
    BY <2>1, <2>2, <2>4 DEF KeysGrow
  <2>6. CursorOk(u)'
    BY <1>4, <2>1, <2>2, <2>3, <2>5 DEF CursorOk, AtSlot
  <2>7. known[u] # {} => \E s \in Slots(a) : arrays'[a][s].key = k
    BY <1>0, <1>4, <2>2, <2>4 DEF ResultOk, KeysGrow
  <2>8. ResultOk(u)'
    BY <1>1, <1>4, <1>5, <2>7 DEF ResultOk, Holds
  <2>. QED  BY <2>6, <2>8
<1>. QED  BY <1>2, <1>3, <1>4

\* A step of a thread that does not help.
LEMMA QuietKeeps ==
  ASSUME MapInv, NEW t \in Caller, ~Helping(t), NEW l \in Stops,
         l \notin {"take", "exchange", "move", "leave"},
         where' = [where EXCEPT ![t] = l], \A u \in Caller : u # t => cursor'[u] = cursor[u],
         UNCHANGED <<current, from, position, helpers>>
  PROVE  /\ PhaseInv' /\ TasksInv' /\ Top' = Top
         /\ \A s : Open(s)' = Open(s)
         /\ \A u \in Caller : /\ where'[u] = "move" <=> where[u] = "move"
                              /\ where[u] = "move" => cursor'[u] = cursor[u]
<1>0. MapTypes /\ PhaseInv /\ TasksInv
  BY DEF MapInv
<1>1. /\ where' \in [Caller -> Stops]
      /\ \A u \in Caller : where'[u] = IF u = t THEN l ELSE where[u]
  BY <1>0 DEF MapTypes
<1>2. \A u \in Caller : Helping(u)' = Helping(u) /\ (Helping(u) => u # t /\ where'[u] = where[u])
  BY <1>1 DEF Helping
<1>3. PhaseInv'
  <2>1. {u \in Caller : Helping(u)}' = {u \in Caller : Helping(u)}
    BY <1>2
  <2>2. helpers' = Cardinality({u \in Caller : Helping(u)}')
    BY <1>0, <2>1 DEF PhaseInv
  <2>. QED  BY <1>0, <1>2, <2>2 DEF PhaseInv
<1>4. \A u \in Caller : /\ Working(u)' = Working(u)
                        /\ (Working(u) => Helping(u) /\ cursor'[u] = cursor[u] /\ where'[u] = where[u])
                        /\ (where'[u] = "leave" <=> where[u] = "leave")
                        /\ (where'[u] = "move" <=> where[u] = "move")
                        /\ (where'[u] = "exchange" <=> where[u] = "exchange")
  BY <1>1, <1>2 DEF Helping, Working
<1>5. TasksInv'
  BY <1>0, <1>4 DEF TasksInv
<1>6. \A s : \A u \in Caller : Mine(u, s)' = Mine(u, s)
  BY <1>4 DEF Mine, Working
<1>7. \A s : Open(s)' = Open(s)
  BY <1>6 DEF Open, Pending
<1>. QED  BY <1>3, <1>4, <1>5, <1>7 DEF Top, Working

\* The slots stay as they are.
LEMMA EntriesKeep ==
  ASSUME MapInv, UNCHANGED <<arrays, from>>, Top' = Top, \A s \in Slots(Top) : Open(s)' = Open(s),
         \A u \in Caller : /\ where'[u] = "move" <=> where[u] = "move"
                           /\ where[u] = "move" => cursor'[u] = cursor[u]
  PROVE  EntriesInv' /\ KeysInv' /\ MovedInv' /\ KeysGrow /\ HeldGrow
<1>0. EntriesInv /\ KeysInv /\ MovedInv
  BY DEF MapInv
<1>1. EntriesInv'
  BY <1>0 DEF EntriesInv
<1>2. KeysInv'
  BY <1>0 DEF KeysInv, NoneBefore, Takes
<1>3. MovedInv'
  BY <1>0 DEF MovedInv
<1>4. KeysGrow
  BY DEF KeysGrow
<1>5. HeldGrow
  BY DEF HeldGrow, Holds
<1>. QED  BY <1>1, <1>2, <1>3, <1>4, <1>5

\* A helper at work is inside the array that is being moved.
LEMMA WorkerIs ==
  ASSUME MapInv, NEW u \in Caller, Working(u)
  PROVE  /\ from # 0 /\ from \in 1..Arrays - 1 /\ from \in 1..Arrays /\ from + 1 \in 1..Arrays
         /\ Top = from /\ cursor[u].i \in Slots(from) /\ cursor[u].i \in Nat
<1>0. MapTypes /\ PhaseInv /\ TasksInv
  BY DEF MapInv
<1>1. from # 0
  BY <1>0 DEF PhaseInv, Helping, Working
<1>2. from \in 1..Arrays - 1 /\ from + 1 \in 1..Arrays /\ from \in 1..Arrays
  BY <1>0, <1>1, LengthsAre DEF MapTypes
<1>3. cursor[u].i < cursor[u].end /\ cursor[u].end <= Length[from]
  BY <1>0 DEF TasksInv
<1>4. cursor[u].i \in Nat /\ cursor[u].end \in Nat
  BY <1>0 DEF MapTypes, Cursor
<1>5. cursor[u].i \in Slots(from)
  BY <1>2, <1>3, <1>4, LengthsAre DEF Slots
<1>. QED  BY <1>1, <1>2, <1>4, <1>5 DEF Top

\* What has left the old array stays gone.
LEMMA MovedKeeps ==
  ASSUME MapInv, KeysGrow, UNCHANGED from,
         from # 0 => /\ \A s \in Slots(from) : arrays[from][s].value = Migrated => arrays'[from][s].value = Migrated
                     /\ \A s \in Slots(from + 1) : /\ arrays'[from + 1][s].key = arrays[from + 1][s].key
                                                   /\ arrays'[from + 1][s].value = arrays[from + 1][s].value,
         \A u \in Caller : where'[u] = "move" => where[u] = "move" /\ cursor'[u] = cursor[u]
  PROVE  MovedInv'
<1>. SUFFICES ASSUME from # 0 PROVE MovedInv'
  BY DEF MovedInv
<1>0. MapTypes /\ MovedInv
  BY DEF MapInv
<1>1. from \in 1..Arrays
  BY <1>0, LengthsAre DEF MapTypes
<1>2. ASSUME NEW q \in Slots(from + 1), arrays'[from + 1][q].key # NoKey
      PROVE  /\ arrays'[from + 1][q].value \in Caller
             /\ \E r \in Slots(from) : /\ arrays'[from][r].key = arrays'[from + 1][q].key
                                       /\ arrays'[from][r].value = Migrated
  <2>1. arrays[from + 1][q].key # NoKey
    BY <1>2
  <2>. PICK r \in Slots(from) : arrays[from][r].key = arrays[from + 1][q].key /\ arrays[from][r].value = Migrated
    BY <1>0, <2>1 DEF MovedInv
  <2>2. arrays'[from][r].key = arrays[from][r].key
    BY <1>1, <2>1 DEF KeysGrow
  <2>3. arrays[from + 1][q].value \in Caller
    BY <1>0, <2>1 DEF MovedInv
  <2>. QED  BY <2>2, <2>3
<1>3. ASSUME NEW u \in Caller, where'[u] = "move"
      PROVE  /\ cursor'[u].moving \in Caller /\ arrays'[from][cursor'[u].i].key # NoKey
             /\ arrays'[from][cursor'[u].i].value = Migrated
             /\ \A q \in Slots(from + 1) : arrays'[from + 1][q].key # arrays'[from][cursor'[u].i].key
  <2>. PICK i : i = cursor[u].i
    OBVIOUS
  <2>1. where[u] = "move" /\ cursor'[u] = cursor[u]
    BY <1>3
  <2>2. i \in Slots(from)
    BY <2>1, WorkerIs DEF Working
  <2>3. /\ cursor[u].moving \in Caller /\ arrays[from][i].key # NoKey /\ arrays[from][i].value = Migrated
        /\ \A q \in Slots(from + 1) : arrays[from + 1][q].key # arrays[from][i].key
    BY <1>0, <2>1 DEF MovedInv
  <2>4. arrays'[from][i].key = arrays[from][i].key
    BY <1>1, <2>2, <2>3 DEF KeysGrow
  <2>. QED  BY <2>1, <2>2, <2>3, <2>4
<1>. QED  BY <1>2, <1>3 DEF MovedInv

\* A value once held stays held if no slot loses a value but to a helper.
LEMMA HeldGrows ==
  ASSUME MapInv, KeysGrow, UNCHANGED from,
         \A a \in 1..Arrays : \A s \in Slots(a) :
           arrays[a][s].value \in Caller => arrays'[a][s].value = arrays[a][s].value,
         \A u \in Caller : where[u] = "move" => where'[u] = "move" /\ cursor'[u] = cursor[u]
  PROVE  HeldGrow
<1>. SUFFICES ASSUME NEW g \in Key, NEW v \in Caller, Holds(g, v) PROVE Holds(g, v)'
  BY DEF HeldGrow
<1>0. g # NoKey
  BY ValuesDiffer
<1>1. CASE \E b \in 1..Arrays : \E q \in Slots(b) : arrays[b][q].key = g /\ arrays[b][q].value = v
  <2>. PICK b \in 1..Arrays : \E q \in Slots(b) : arrays[b][q].key = g /\ arrays[b][q].value = v
    BY <1>1
  <2>. PICK q \in Slots(b) : arrays[b][q].key = g /\ arrays[b][q].value = v
    OBVIOUS
  <2>1. arrays'[b][q].key = g /\ arrays'[b][q].value = v
    BY <1>0 DEF KeysGrow
  <2>. QED  BY <2>1 DEF Holds
<1>2. CASE \E u \in Caller : /\ where[u] = "move" /\ arrays[from][cursor[u].i].key = g
                             /\ cursor[u].moving = v
  <2>. PICK u \in Caller : where[u] = "move" /\ arrays[from][cursor[u].i].key = g /\ cursor[u].moving = v
    BY <1>2
  <2>1. from \in 1..Arrays /\ cursor[u].i \in Slots(from)
    BY WorkerIs DEF Working
  <2>2. arrays'[from][cursor[u].i].key = g
    BY <1>0, <2>1 DEF KeysGrow
  <2>. QED  BY <2>2 DEF Holds
<1>. QED  BY <1>1, <1>2 DEF Holds

\* A step of one thread that is not a helper.
LEMMA OwnStep ==
  ASSUME MapInv, MapTypes', NEW t \in Caller, ~Helping(t), NEW l \in Stops,
         l \notin {"take", "exchange", "move", "leave"},
         where' = [where EXCEPT ![t] = l], \A u \in Caller : u # t => cursor'[u] = cursor[u],
         UNCHANGED <<current, from, position, helpers, call>>,
         \A u \in Caller : u # t => result'[u] = result[u] /\ known'[u] = known[u],
         EntriesInv', KeysInv', MovedInv', KeysGrow, HeldGrow,
         CursorOk(t)' /\ ResultOk(t)'
  PROVE  MapInv'
<1>1. PhaseInv' /\ TasksInv' /\ Top' = Top
  BY QuietKeeps
<1>3. Top \in 1..Top' /\ Top' \in 1..Arrays
  BY <1>1, LengthsAre DEF MapInv, MapTypes, PhaseInv, Top
<1>4. \A u \in Caller : CursorOk(u)' /\ ResultOk(u)'
  <2>. SUFFICES ASSUME NEW u \in Caller, u # t PROVE CursorOk(u)' /\ ResultOk(u)'
    OBVIOUS
  <2>1. where'[u] = where[u] /\ cursor'[u] = cursor[u] /\ result'[u] = result[u] /\ known'[u] = known[u]
    BY DEF MapInv, MapTypes
  <2>. QED  BY <1>3, <2>1, OtherKeeps
<1>. QED  BY <1>1, <1>4 DEF MapInv, CursorsInv, ResultsInv

\* One that leaves the slots as they are.
LEMMA QuietStep ==
  ASSUME MapInv, MapTypes', NEW t \in Caller, ~Helping(t), NEW l \in Stops,
         l \notin {"take", "exchange", "move", "leave"},
         where' = [where EXCEPT ![t] = l], \A u \in Caller : u # t => cursor'[u] = cursor[u],
         UNCHANGED <<arrays, current, from, position, helpers, call>>,
         \A u \in Caller : u # t => result'[u] = result[u] /\ known'[u] = known[u],
         CursorOk(t)' /\ ResultOk(t)'
  PROVE  MapInv'
<1>1. /\ Top' = Top /\ \A s : Open(s)' = Open(s)
      /\ \A u \in Caller : /\ where'[u] = "move" <=> where[u] = "move"
                           /\ where[u] = "move" => cursor'[u] = cursor[u]
  BY QuietKeeps
<1>2. EntriesInv' /\ KeysInv' /\ MovedInv' /\ KeysGrow /\ HeldGrow
  BY <1>1, EntriesKeep
<1>. QED  BY <1>2, OwnStep

\* A step of one call outside the search that changes nothing shared keeps the invariant.
LEMMA QuietMove ==
  ASSUME MapInv, MapTypes', NEW t \in Caller, ~Helping(t), NEW l \in Stops, where[t] # "done",
         l \notin {"take", "exchange", "move", "leave", "probe", "value", "done"},
         where' = [where EXCEPT ![t] = l], \A u \in Caller : u # t => cursor'[u] = cursor[u],
         cursor'[t].value = cursor[t].value,
         UNCHANGED <<arrays, current, from, position, helpers, call, result, known>>
  PROVE  MapInv'
<1>1. /\ PhaseInv' /\ TasksInv' /\ Top' = Top
      /\ \A s : Open(s)' = Open(s)
      /\ \A u \in Caller : /\ where'[u] = "move" <=> where[u] = "move"
                           /\ where[u] = "move" => cursor'[u] = cursor[u]
  BY QuietKeeps
<1>2. KeysGrow /\ HeldGrow
  BY <1>1, EntriesKeep
<1>3. Top \in 1..Top' /\ Top' \in 1..Arrays
  BY <1>1, LengthsAre DEF MapInv, MapTypes, PhaseInv, Top
<1>4. where'[t] = l
  BY DEF MapInv, MapTypes
<1>5. CursorOk(t)' /\ ResultOk(t)'
  BY <1>2, <1>3, <1>4, OtherKeeps
<1>. QED  BY <1>5, QuietStep

\* Starting a call keeps the invariant; an earlier result for the key is known to it.
LEMMA BeginCallKeeps == ASSUME MapInv, NEW t \in Caller, BeginCall(t) PROVE MapInv'
<1>0. MapTypes /\ ResultsInv /\ CursorsInv
  BY DEF MapInv
<1>. DEFINE returned == {result[u] : u \in {v \in Caller : where[v] = "done" /\ call[v].key = call[t].key}}
                      \cap Caller
<1>1. /\ where[t] = "idle" /\ where' = [where EXCEPT ![t] = "protect"]
      /\ known' = [known EXCEPT ![t] = returned]
      /\ UNCHANGED <<arrays, current, from, position, helpers, generation, cursor, call, result>>
  BY DEF BeginCall, GoOn, table
<1>2. returned \in SUBSET Caller
  OBVIOUS
<1>3. \A v \in returned : Holds(call[t].key, v)
  BY <1>0 DEF ResultsInv, ResultOk
<1>. HIDE DEF returned
<1>4. MapTypes'
  BY <1>0, <1>1, <1>2 DEF MapTypes, Stops
<1>5. ~Helping(t) /\ "protect" \in Stops
  BY <1>1 DEF Helping, Stops
<1>6. where'[t] = "protect" /\ known'[t] = returned /\ \A u \in Caller : u # t => known'[u] = known[u]
  BY <1>0, <1>1 DEF MapTypes
<1>7. /\ Top' = Top /\ \A s : Open(s)' = Open(s)
      /\ \A u \in Caller : /\ where'[u] = "move" <=> where[u] = "move"
                           /\ where[u] = "move" => cursor'[u] = cursor[u]
  BY <1>1, <1>5, QuietKeeps
<1>8. HeldGrow
  BY <1>1, <1>7, EntriesKeep
<1>9. CursorOk(t)'
  BY <1>6 DEF CursorOk
<1>10. ResultOk(t)'
  <2>. PICK k \in Key : k = call[t].key
    BY <1>0 DEF MapTypes
  <2>. PICK r : r = result[t]
    OBVIOUS
  <2>1. r \in Caller => Holds(k, r)'
    BY <1>0, <1>8 DEF ResultsInv, ResultOk, HeldGrow
  <2>2. \A v \in returned : Holds(k, v)'
    BY <1>2, <1>3, <1>8 DEF HeldGrow
  <2>3. cursor[t].value \notin Caller
    BY <1>0, <1>1 DEF ResultsInv, ResultOk
  <2>. QED  BY <1>1, <1>6, <2>1, <2>2, <2>3 DEF ResultOk, Holds
<1>. QED  BY <1>1, <1>4, <1>5, <1>6, <1>9, <1>10, QuietStep

\* Waiting for the migration in ConcurrentHashMap::migrate keeps the invariant.
LEMMA WaitKeeps == ASSUME MapInv, NEW t \in Caller, Wait(t) PROVE MapInv'
<1>1. /\ where[t] = "wait" /\ where' = [where EXCEPT ![t] = "protect"]
      /\ UNCHANGED <<arrays, current, from, position, helpers, generation, cursor, call, result, known>>
  BY DEF Wait, GoOn, table, Private
<1>2. MapTypes'
  BY <1>1 DEF MapInv, MapTypes, Stops
<1>3. ~Helping(t) /\ "protect" \in Stops
  BY <1>1 DEF Helping, Stops
<1>. QED  BY <1>1, <1>2, <1>3, QuietMove

\* HashTableHolder's protected load of the current array keeps the invariant.
LEMMA ProtectKeeps == ASSUME MapInv, NEW t \in Caller, Protect(t) PROVE MapInv'
<1>0. MapTypes /\ PhaseInv /\ ResultsInv /\ TasksInv /\ EntriesInv /\ MovedInv
  BY DEF MapInv
<1>. DEFINE l == IF current = 0 THEN "migrate" ELSE "probe"
<1>1. /\ where[t] = "protect" /\ where' = [where EXCEPT ![t] = l]
      /\ cursor' = [cursor EXCEPT ![t].array = current, ![t].i = 0]
      /\ UNCHANGED <<arrays, current, from, position, helpers, generation, call, result, known>>
  BY DEF Protect, GoOn, table, Private
<1>2. /\ cursor' \in [Caller -> Cursor] /\ cursor'[t].array = current /\ cursor'[t].i = 0
      /\ cursor'[t].value = cursor[t].value
      /\ \A u \in Caller : u # t => cursor'[u] = cursor[u]
  <2>1. cursor[t] \in Cursor /\ current \in 0..Arrays
    BY <1>0 DEF MapTypes
  <2>. QED  BY <1>0, <1>1, <2>1 DEF MapTypes, Cursor
<1>3. MapTypes'
  BY <1>0, <1>1, <1>2 DEF MapTypes, Stops
<1>4. ~Helping(t) /\ l \in Stops /\ l \notin {"take", "exchange", "move", "leave"}
  BY <1>1 DEF Helping, Stops
<1>5. CASE current = 0
  <2>1. l = "migrate"
    BY <1>5
  <2>. QED  BY <1>1, <1>2, <1>3, <1>4, <2>1, QuietMove
<1>6. CASE current # 0
  <2>1. l = "probe"
    BY <1>6
  <2>2. from = 0 /\ Top = current /\ current \in 1..Arrays
    BY <1>0, <1>6, LengthsAre DEF PhaseInv, Top, MapTypes
  <2>3. where'[t] = "probe"
    BY <1>0, <1>1, <2>1 DEF MapTypes
  <2>4. CursorOk(t)'
    <3>1. 0 < Length[current] /\ current \in 1..current
      BY <2>2, LengthsAre
    <3>2. Top' = current
      BY <1>1, <2>2 DEF Top
    <3>. QED  BY <1>1, <1>2, <2>3, <3>1, <3>2 DEF CursorOk, NoneBefore
  <2>5. ResultOk(t)'
    <3>. PICK k \in Key : k = call[t].key
      BY <1>0 DEF MapTypes
    <3>. PICK r : r = result[t]
      OBVIOUS
    <3>. PICK w : w = known[t]
      OBVIOUS
    <3>0. w \in SUBSET Caller
      BY <1>0 DEF MapTypes
    <3>1. ResultOk(t)
      BY <1>0 DEF ResultsInv
    <3>2. /\ r \in Caller => Holds(k, r)
          /\ \A v \in w : Holds(k, v)
          /\ cursor[t].value \notin Caller
      BY <1>1, <3>1 DEF ResultOk
    <3>3. HeldGrow
      <4>1. /\ Top' = Top /\ \A s : Open(s)' = Open(s)
            /\ \A u \in Caller : /\ where'[u] = "move" <=> where[u] = "move"
                                 /\ where[u] = "move" => cursor'[u] = cursor[u]
        BY <1>1, <1>2, <1>4, QuietKeeps
      <4>. QED  BY <1>1, <4>1, EntriesKeep
    <3>4. (r \in Caller => Holds(k, r)') /\ \A v \in w : Holds(k, v)'
      BY <3>0, <3>2, <3>3 DEF HeldGrow
    <3>5. w # {} => \E s \in Slots(current) : arrays[current][s].key = k
      <4>. SUFFICES ASSUME NEW v \in w PROVE \E s \in Slots(current) : arrays[current][s].key = k
        OBVIOUS
      <4>1. v \in Caller /\ Holds(k, v)
        BY <3>0, <3>2
      <4>. QED  BY <1>0, <2>2, <4>1, WhereHeld
    <3>. QED  BY <1>1, <1>2, <2>3, <3>2, <3>4, <3>5 DEF ResultOk, Holds
  <2>. QED  BY <1>1, <1>2, <1>3, <1>4, <2>4, <2>5, QuietStep
<1>. QED  BY <1>5, <1>6

\* A key that is in the array is found no earlier than where the search is.
LEMMA FoundLater ==
  ASSUME MapInv, NEW a \in 1..Arrays, NEW k \in Key, NEW i \in 0..Length[a] - 1,
         NoneBefore(a, k, i), NEW s \in Slots(a), arrays[a][s].key = k
  PROVE  \E j \in i..Length[a] - 1 : arrays[a][Probed(a, k, j)].key = k /\ NoneBefore(a, k, j)
<1>1. k # NoKey
  BY ValuesDiffer
<1>. PICK j \in 0..Length[a] - 1 : s = Probed(a, k, j) /\ NoneBefore(a, k, j)
  BY <1>1 DEF MapInv, KeysInv
<1>2. ~(j < i)
  <2>. SUFFICES ASSUME j < i PROVE FALSE
    OBVIOUS
  <2>1. j \in 0..i - 1
    BY LengthsAre
  <2>. QED  BY <2>1 DEF NoneBefore, Takes
<1>3. j \in i..Length[a] - 1
  BY <1>2, LengthsAre
<1>. QED  BY <1>3

\* Passing over one more slot.
LEMMA NoneBeforeNext ==
  ASSUME NEW a, NEW k, NEW i \in Nat, NoneBefore(a, k, i), ~Takes(a, k, i)
  PROVE  NoneBefore(a, k, i + 1)
<1>1. \A h \in 0..(i + 1) - 1 : h = i \/ h \in 0..i - 1
  OBVIOUS
<1>. QED  BY <1>1 DEF NoneBefore

\* What a thread that probes knows.
LEMMA ProbeIs ==
  ASSUME MapInv, NEW t \in Caller, where[t] \in {"probe", "value"}
  PROVE  \E a \in 1..Arrays : \E k \in Key : \E i \in 0..Length[a] - 1 :
           /\ a = cursor[t].array /\ k = call[t].key /\ i = cursor[t].i
           /\ a \in 1..Top /\ Top \in 1..Arrays /\ NoneBefore(a, k, i)
           /\ Probed(a, k, i) \in Slots(a)
           /\ AtSlot(t) = arrays[a][Probed(a, k, i)]
           /\ where[t] = "value" => arrays[a][Probed(a, k, i)].key = k
<1>0. MapTypes /\ PhaseInv /\ CursorOk(t)
  BY DEF MapInv, CursorsInv
<1>1. Top \in 1..Arrays
  BY <1>0, LengthsAre DEF PhaseInv, MapTypes, Top
<1>2. /\ cursor[t].array \in 1..Top /\ cursor[t].i \in Nat /\ cursor[t].i < Length[cursor[t].array]
      /\ NoneBefore(cursor[t].array, call[t].key, cursor[t].i)
      /\ where[t] = "value" => AtSlot(t).key = call[t].key
      /\ call[t].key \in Key
  BY <1>0 DEF CursorOk, MapTypes, Cursor
<1>3. cursor[t].array \in 1..Arrays
  BY <1>1, <1>2, LengthsAre
<1>4. cursor[t].i \in 0..Length[cursor[t].array] - 1
  BY <1>2, <1>3, LengthsAre
<1>5. Probed(cursor[t].array, call[t].key, cursor[t].i) \in Slots(cursor[t].array)
  BY <1>2, <1>3, ProbedIs, ValuesDiffer
<1>. QED  BY <1>1, <1>2, <1>3, <1>4, <1>5 DEF AtSlot

\* The exchange that claims a free slot for a key keeps the invariant: the key is in no
\* other slot.
LEMMA ClaimKeeps ==
  ASSUME MapInv, NEW t \in Caller, where[t] = "probe", AtSlot(t).key = NoKey,
         PutIn(t, "key", call[t].key), where' = [where EXCEPT ![t] = "value"],
         UNCHANGED <<current, from, position, helpers, generation, call, known, cursor, result>>
  PROVE  MapInv'
<1>0. /\ MapTypes /\ PhaseInv /\ EntriesInv /\ KeysInv /\ MovedInv /\ CursorOk(t) /\ ResultOk(t)
  BY DEF MapInv, CursorsInv, ResultsInv
<1>a. PICK a \in 1..Arrays : \E k \in Key : \E i \in 0..Length[a] - 1 :
           /\ a = cursor[t].array /\ k = call[t].key /\ i = cursor[t].i
           /\ a \in 1..Top /\ Top \in 1..Arrays /\ NoneBefore(a, k, i)
           /\ Probed(a, k, i) \in Slots(a)
           /\ AtSlot(t) = arrays[a][Probed(a, k, i)]
           /\ where[t] = "value" => arrays[a][Probed(a, k, i)].key = k
  BY ProbeIs
<1>b. PICK k \in Key : \E i \in 0..Length[a] - 1 :
           /\ a = cursor[t].array /\ k = call[t].key /\ i = cursor[t].i
           /\ a \in 1..Top /\ Top \in 1..Arrays /\ NoneBefore(a, k, i)
           /\ Probed(a, k, i) \in Slots(a)
           /\ AtSlot(t) = arrays[a][Probed(a, k, i)]
  BY <1>a
<1>c. PICK i \in 0..Length[a] - 1 :
           /\ a = cursor[t].array /\ k = call[t].key /\ i = cursor[t].i
           /\ a \in 1..Top /\ Top \in 1..Arrays /\ NoneBefore(a, k, i)
           /\ Probed(a, k, i) \in Slots(a)
           /\ AtSlot(t) = arrays[a][Probed(a, k, i)]
  BY <1>b
<1>d. PICK s \in Slots(a) : s = Probed(a, k, i)
  BY <1>c
<1>1. arrays[a][s].key = NoKey /\ k # NoKey
  BY <1>c, <1>d, ValuesDiffer
<1>2. arrays' = [arrays EXCEPT ![a][s].key = k]
  BY <1>c, <1>d, Zenon DEF PutIn
<1>3. /\ arrays' = [b \in 1..Arrays |-> arrays'[b]]
      /\ \A b \in 1..Arrays : arrays'[b] \in [Slots(b) -> Entry]
      /\ \A b \in 1..Arrays : \A q \in Slots(b) :
           /\ arrays'[b][q].key = IF b = a /\ q = s THEN k ELSE arrays[b][q].key
           /\ arrays'[b][q].value = arrays[b][q].value
  <2>1. OnlyAt(a, s, k, arrays[a][s].value)
    BY <1>0, <1>2, PutKey
  <2>. QED  BY <2>1 DEF OnlyAt
<1>4. MapTypes'
  BY <1>0, <1>3 DEF MapTypes, Stops
<1>5. ~Helping(t) /\ "value" \in Stops /\ where'[t] = "value"
  BY <1>0 DEF Helping, Stops, MapTypes
<1>6. KeysGrow
  BY <1>1, <1>3 DEF KeysGrow
<1>7. /\ Top' = Top /\ \A q : Open(q)' = Open(q)
      /\ \A u \in Caller : where'[u] = "move" <=> where[u] = "move"
  BY <1>5, QuietKeeps
<1>8. EntriesInv'
  <2>. SUFFICES ASSUME NEW b \in 1..Arrays, NEW q \in Slots(b)
                PROVE  /\ arrays'[b][q].key = NoKey => arrays'[b][q].value \in {NoValue, Migrated}
                       /\ b < Top => arrays'[b][q].value = Migrated
                       /\ b = Top => (arrays'[b][q].value = Migrated <=> ~Open(q))
                       /\ b > Top => arrays'[b][q].value # Migrated
                       /\ b > Top /\ (from = 0 \/ b # from + 1) => arrays'[b][q].key = NoKey
    BY <1>7 DEF EntriesInv
  <2>1. arrays'[b][q].value = arrays[b][q].value
        /\ (arrays'[b][q].key = arrays[b][q].key \/ (b = a /\ arrays'[b][q].key # NoKey))
    BY <1>1, <1>3
  <2>2. ~(a > Top)
    BY <1>c
  <2>. QED  BY <1>0, <2>1, <2>2 DEF EntriesInv
<1>9. KeysInv'
  <2>1. \A b \in 1..Arrays : \A q \in Slots(b) : arrays'[b][q].key \in Key \cup {NoKey}
    BY <1>3 DEF Entry
  <2>2. ASSUME NEW b \in 1..Arrays, NEW q \in Slots(b), arrays[b][q].key = NoKey, arrays'[b][q].key # NoKey
        PROVE  \E j \in 0..Length[b] - 1 : /\ q = Probed(b, arrays'[b][q].key, j)
                                           /\ NoneBefore(b, arrays'[b][q].key, j)
    <3>1. b = a /\ q = s /\ arrays'[b][q].key = k
      BY <1>3, <2>2
    <3>. QED  BY <1>c, <1>d, <3>1
  <2>. QED  BY <1>0, <1>6, <2>1, <2>2, KeysKeep
<1>10. MovedInv' /\ HeldGrow
  <2>1. from # 0 => from + 1 \in 1..Arrays /\ from \in 1..Arrays /\ a # from + 1
    BY <1>c, <1>0, LengthsAre DEF MapTypes, Top
  <2>2. from # 0 => /\ \A q \in Slots(from) : arrays'[from][q].value = arrays[from][q].value
                    /\ \A q \in Slots(from + 1) : /\ arrays'[from + 1][q].key = arrays[from + 1][q].key
                                                  /\ arrays'[from + 1][q].value = arrays[from + 1][q].value
    BY <1>3, <2>1
  <2>3. MovedInv'
    BY <1>6, <1>7, <2>2, MovedKeeps
  <2>4. \A b \in 1..Arrays : \A q \in Slots(b) : arrays'[b][q].value = arrays[b][q].value
    BY <1>3
  <2>5. HeldGrow
    BY <1>6, <1>7, <2>4, HeldGrows
  <2>. QED  BY <2>3, <2>5
<1>12. CursorOk(t)'
  <2>1. NoneBefore(a, k, i)'
    <3>1. i \in Nat
      BY LengthsAre
    <3>. QED  BY <1>c, <1>6, <3>1, NoneBeforeKeeps
  <2>2. arrays'[a][Probed(a, k, i)].key = k
    BY <1>1, <1>c, <1>d, <1>3
  <2>3. i < Length[a]
    BY LengthsAre
  <2>. QED  BY <1>c, <1>5, <1>7, <2>1, <2>2, <2>3 DEF CursorOk, AtSlot
<1>13. ResultOk(t)'
  <2>. PICK r : r = result[t]
    OBVIOUS
  <2>. PICK w : w = known[t]
    OBVIOUS
  <2>1. w \in SUBSET Caller
    BY <1>0 DEF MapTypes
  <2>2. (r \in Caller => Holds(k, r)) /\ (\A v \in w : Holds(k, v)) /\ cursor[t].value \notin Caller
    BY <1>c, <1>0 DEF ResultOk
  <2>3. (r \in Caller => Holds(k, r)') /\ \A v \in w : Holds(k, v)'
    BY <1>10, <2>1, <2>2 DEF HeldGrow
  <2>4. \E q \in Slots(a) : arrays'[a][q].key = k
    BY <1>1, <1>3
  <2>. QED  BY <1>c, <1>5, <2>2, <2>3, <2>4 DEF ResultOk, Holds
<1>. QED  BY <1>4, <1>5, <1>6, <1>8, <1>9, <1>10, <1>12, <1>13, OwnStep

\* A result, where a call ends or goes on.
LEMMA HeldKeeps ==
  ASSUME MapInv, NEW t \in Caller, UNCHANGED <<arrays, from>>,
         \A u \in Caller : /\ where'[u] = "move" <=> where[u] = "move"
                           /\ where[u] = "move" => cursor'[u] = cursor[u]
  PROVE  \A k, v : Holds(k, v)' = Holds(k, v)
BY DEF Holds

\* Returning a value the key holds keeps the invariant.
LEMMA ReturnKeeps ==
  ASSUME MapInv, MapTypes', NEW t \in Caller, where[t] \in {"probe", "value"},
         where' = [where EXCEPT ![t] = "done"], \A u \in Caller : u # t => cursor'[u] = cursor[u],
         NEW v, result' = [result EXCEPT ![t] = v],
         UNCHANGED <<arrays, current, from, position, helpers, call, known>>,
         v \in Caller => Holds(call[t].key, v),
         known[t] # {} => v \in known[t],
         call[t].kind = "insert" => v \in Caller
  PROVE  MapInv'
<1>0. MapTypes /\ ResultOk(t)
  BY DEF MapInv, ResultsInv
<1>1. ~Helping(t) /\ "done" \in Stops /\ where'[t] = "done" /\ result'[t] = v
      /\ \A u \in Caller : u # t => result'[u] = result[u]
  BY <1>0 DEF Helping, Stops, MapTypes
<1>2. \A u \in Caller : /\ where'[u] = "move" <=> where[u] = "move"
                        /\ where[u] = "move" => cursor'[u] = cursor[u]
  BY <1>1, QuietKeeps
<1>3. \A k, w : Holds(k, w)' = Holds(k, w)
  BY <1>2, HeldKeeps
<1>4. CursorOk(t)'
  BY <1>1 DEF CursorOk
<1>5. ResultOk(t)'
  <2>. PICK k : k = call[t].key
    OBVIOUS
  <2>1. (v \in Caller => Holds(k, v)') /\ \A w \in known[t] : Holds(k, w)'
    BY <1>0, <1>3 DEF ResultOk
  <2>. QED  BY <1>1, <2>1 DEF ResultOk, Holds
<1>. QED  BY <1>1, <1>4, <1>5, QuietStep

\* A search that goes on in the array.
LEMMA SearchKeeps ==
  ASSUME MapInv, MapTypes', NEW t \in Caller, where[t] = "probe", NEW l \in {"probe", "value"},
         where' = [where EXCEPT ![t] = l], \A u \in Caller : u # t => cursor'[u] = cursor[u],
         cursor'[t].array = cursor[t].array, cursor'[t].value = cursor[t].value,
         UNCHANGED <<arrays, current, from, position, helpers, call, known, result>>,
         CursorOk(t)'
  PROVE  MapInv'
<1>0. MapTypes /\ ResultOk(t)
  BY DEF MapInv, ResultsInv
<1>1. ~Helping(t) /\ l \in Stops /\ where'[t] = l
  BY <1>0 DEF Helping, Stops, MapTypes
<1>2. \A u \in Caller : /\ where'[u] = "move" <=> where[u] = "move"
                        /\ where[u] = "move" => cursor'[u] = cursor[u]
  BY <1>1, QuietKeeps
<1>3. \A k, w : Holds(k, w)' = Holds(k, w)
  BY <1>2, HeldKeeps
<1>5. ResultOk(t)'
  <2>. PICK k : k = call[t].key
    OBVIOUS
  <2>. PICK v : v = result[t]
    OBVIOUS
  <2>1. (v \in Caller => Holds(k, v)') /\ \A w \in known[t] : Holds(k, w)'
    BY <1>0, <1>3 DEF ResultOk
  <2>2. /\ cursor'[t].value \notin Caller
        /\ known[t] # {} => \E s \in Slots(cursor[t].array) : arrays[cursor[t].array][s].key = k
    BY <1>0 DEF ResultOk
  <2>. QED  BY <1>1, <2>1, <2>2 DEF ResultOk, Holds
<1>. QED  BY <1>1, <1>5, QuietStep

\* with_value's look at one slot keeps the invariant.
LEMMA ProbeKeeps == ASSUME Whole, MapInv, NEW t \in Caller, Probe(t) PROVE MapInv'
<1>0. /\ MapTypes /\ PhaseInv /\ EntriesInv /\ KeysInv /\ MovedInv /\ CursorOk(t) /\ ResultOk(t)
      /\ where[t] = "probe"
      /\ UNCHANGED <<current, from, position, helpers, generation, call, known>>
  BY DEF MapInv, CursorsInv, ResultsInv, Probe
<1>a. PICK a \in 1..Arrays : \E k \in Key : \E i \in 0..Length[a] - 1 :
           /\ a = cursor[t].array /\ k = call[t].key /\ i = cursor[t].i
           /\ a \in 1..Top /\ Top \in 1..Arrays /\ NoneBefore(a, k, i)
           /\ Probed(a, k, i) \in Slots(a)
           /\ AtSlot(t) = arrays[a][Probed(a, k, i)]
  BY <1>0, ProbeIs
<1>b. PICK k \in Key : \E i \in 0..Length[a] - 1 :
           /\ a = cursor[t].array /\ k = call[t].key /\ i = cursor[t].i
           /\ a \in 1..Top /\ Top \in 1..Arrays /\ NoneBefore(a, k, i)
           /\ Probed(a, k, i) \in Slots(a)
           /\ AtSlot(t) = arrays[a][Probed(a, k, i)]
  BY <1>a
<1>c. PICK i \in 0..Length[a] - 1 :
           /\ a = cursor[t].array /\ k = call[t].key /\ i = cursor[t].i
           /\ a \in 1..Top /\ Top \in 1..Arrays /\ NoneBefore(a, k, i)
           /\ Probed(a, k, i) \in Slots(a)
           /\ AtSlot(t) = arrays[a][Probed(a, k, i)]
  BY <1>b
<1>1. Length[a] \in Nat /\ Probes(a) = Length[a] /\ i \in Nat /\ i < Length[a] /\ k # NoKey
  BY LengthsAre, ValuesDiffer DEF Whole
\* Where the key is not yet, it may still be; at the end, it is not there.
<1>2. known[t] # {} /\ AtSlot(t).key # k => AtSlot(t).key # NoKey /\ i + 1 < Length[a]
  <2>. SUFFICES ASSUME known[t] # {}, AtSlot(t).key # k PROVE AtSlot(t).key # NoKey /\ i + 1 < Length[a]
    OBVIOUS
  <2>4. PICK s \in Slots(a) : arrays[a][s].key = k
    BY <1>c, <1>0 DEF ResultOk
  <2>5. PICK j \in i..Length[a] - 1 : arrays[a][Probed(a, k, j)].key = k /\ NoneBefore(a, k, j)
    BY <1>1, <1>c, <2>4, FoundLater
  <2>1. j # i /\ j \in Int /\ j > i /\ j < Length[a]
    BY <1>c, <2>5, <1>1
  <2>2. i \in 0..j - 1
    BY <1>1, <2>1
  <2>3. AtSlot(t).key # NoKey
    BY <1>c, <2>5, <2>2, Zenon DEF NoneBefore, Takes
  <2>. QED  BY <1>1, <2>1, <2>3
<1>3. CASE AtSlot(t).key = k /\ where' = [where EXCEPT ![t] = "value"] /\ UNCHANGED <<arrays, cursor, result>>
  <2>1. MapTypes'
    BY <1>0, <1>3 DEF MapTypes, Stops
  <2>2. CursorOk(t)'
    <3>1. where'[t] = "value" /\ Top' = Top
      BY <1>0, <1>3 DEF MapTypes, Top
    <3>2. /\ a \in 1..Top /\ i < Length[a] /\ NoneBefore(a, k, i)
          /\ arrays[a][Probed(a, k, i)].key = k
      BY <1>c, <1>1, <1>3
    <3>3. NoneBefore(a, k, i)'
      BY <1>3, <3>2 DEF NoneBefore, Takes
    <3>. QED  BY <1>c, <1>0, <1>3, <3>1, <3>2, <3>3 DEF CursorOk, AtSlot
  <2>. QED  BY <1>0, <1>3, <2>1, <2>2, SearchKeeps
<1>4. CASE /\ AtSlot(t).key = NoKey /\ call[t].kind = "insert" /\ PutIn(t, "key", call[t].key)
           /\ where' = [where EXCEPT ![t] = "value"] /\ UNCHANGED <<cursor, result>>
  BY <1>0, <1>4, ClaimKeeps
<1>5. CASE /\ AtSlot(t).key # k /\ (AtSlot(t).key = NoKey \/ ~(i + 1 < Length[a]))
           /\ call[t].kind = "find" /\ where' = [where EXCEPT ![t] = "done"]
           /\ result' = [result EXCEPT ![t] = cursor[t].value] /\ UNCHANGED <<arrays, cursor>>
  <2>1. known[t] = {}
    BY <1>c, <1>2, <1>5
  <2>2. cursor[t].value \notin Caller /\ cursor[t].value \in Seen
    BY <1>0 DEF ResultOk, MapTypes, Cursor
  <2>3. MapTypes'
    BY <1>0, <1>5, <2>2 DEF MapTypes, Stops
  <2>4. call[t].kind # "insert"
    BY <1>5
  <2>. QED  BY <1>0, <1>5, <2>1, <2>2, <2>3, <2>4, ReturnKeeps
<1>6. CASE /\ AtSlot(t).key \notin {NoKey, k} /\ i + 1 < Length[a]
           /\ cursor' = [cursor EXCEPT ![t].i = @ + 1] /\ UNCHANGED <<arrays, where, result>>
  <2>1. /\ cursor' \in [Caller -> Cursor]
        /\ cursor'[t].i = i + 1 /\ cursor'[t].array = a /\ cursor'[t].value = cursor[t].value
        /\ \A u \in Caller : u # t => cursor'[u] = cursor[u]
    <3>1. cursor[t] \in Cursor /\ cursor[t].i + 1 \in Nat /\ cursor \in [Caller -> Cursor]
      BY <1>c, <1>0, <1>1 DEF MapTypes
    <3>2. cursor' = [cursor EXCEPT ![t] = [cursor[t] EXCEPT !.i = cursor[t].i + 1]]
      BY <1>6
    <3>3. [cursor[t] EXCEPT !.i = cursor[t].i + 1] \in Cursor
      BY <3>1 DEF Cursor
    <3>4. /\ cursor'[t] = [cursor[t] EXCEPT !.i = cursor[t].i + 1]
          /\ \A u \in Caller : u # t => cursor'[u] = cursor[u]
      BY <3>1, <3>2
    <3>5. cursor' \in [Caller -> Cursor]
      BY <3>1, <3>2, <3>3
    <3>. QED  BY <1>c, <3>1, <3>4, <3>5 DEF Cursor
  <2>2. MapTypes'
    BY <1>0, <1>6, <2>1 DEF MapTypes
  <2>3. where' = [where EXCEPT ![t] = "probe"] /\ where'[t] = "probe"
    BY <1>0, <1>6 DEF MapTypes
  <2>4. CursorOk(t)'
    <3>1. NoneBefore(a, k, i + 1)
      BY <1>c, <1>1, <1>6, NoneBeforeNext DEF Takes
    <3>. PICK j : j = i + 1
      OBVIOUS
    <3>2. NoneBefore(a, k, j)'
      BY <1>6, <3>1 DEF NoneBefore, Takes
    <3>3. j < Length[a] /\ a \in 1..Top' /\ cursor'[t].i = j
      BY <1>c, <1>0, <1>6, <2>1 DEF Top
    <3>. QED  BY <1>c, <1>0, <2>1, <2>3, <3>2, <3>3 DEF CursorOk
  <2>. QED  BY <1>c, <1>0, <1>6, <2>1, <2>2, <2>3, <2>4, SearchKeeps
<1>7. CASE /\ where' = [where EXCEPT ![t] = "migrate"] /\ UNCHANGED <<arrays, cursor, result>>
  <2>1. MapTypes'
    BY <1>0, <1>7 DEF MapTypes, Stops
  <2>2. ~Helping(t) /\ "migrate" \in Stops /\ where[t] # "done"
    BY <1>0 DEF Helping, Stops
  <2>. QED  BY <1>0, <1>7, <2>1, <2>2, QuietMove
<1>8. \/ AtSlot(t).key = k /\ where' = [where EXCEPT ![t] = "value"] /\ UNCHANGED <<arrays, cursor, result>>
      \/ /\ AtSlot(t).key = NoKey /\ call[t].kind = "insert" /\ PutIn(t, "key", call[t].key)
         /\ where' = [where EXCEPT ![t] = "value"] /\ UNCHANGED <<cursor, result>>
      \/ /\ AtSlot(t).key = NoKey /\ call[t].kind = "find" /\ where' = [where EXCEPT ![t] = "done"]
         /\ result' = [result EXCEPT ![t] = cursor[t].value] /\ UNCHANGED <<arrays, cursor>>
      \/ /\ AtSlot(t).key \notin {NoKey, k} /\ UNCHANGED arrays
         /\ IF i + 1 < Length[a]
            THEN cursor' = [cursor EXCEPT ![t].i = @ + 1] /\ UNCHANGED <<where, result>>
            ELSE /\ UNCHANGED cursor
                 /\ IF call[t].kind = "insert"
                    THEN where' = [where EXCEPT ![t] = "migrate"] /\ UNCHANGED result
                    ELSE /\ where' = [where EXCEPT ![t] = "done"]
                         /\ result' = [result EXCEPT ![t] = cursor[t].value]
  <2>. PICK o : o = AtSlot(t).key
    OBVIOUS
  <2>1. k = call[t].key /\ i = cursor[t].i /\ a = cursor[t].array /\ Probes(a) = Length[a]
    BY <1>c, <1>1
  <2>. QED  BY <2>1 DEF Probe, GoOn, Returned
<1>9. call[t].kind \in {"insert", "find"}
  BY <1>0 DEF MapTypes
<1>. QED  BY <1>1, <1>3, <1>4, <1>5, <1>6, <1>7, <1>8, <1>9

\* What a call reads in its key's slot: the value the key holds, or none, and then none was
\* ever returned, or the mark of a slot that was moved.
LEMMA ValueIs ==
  ASSUME MapInv, NEW t \in Caller, where[t] = "value", NEW v, v = AtSlot(t).value
  PROVE  /\ v \in Caller => Holds(call[t].key, v) /\ (known[t] # {} => v \in known[t])
         /\ v = NoValue => known[t] = {}
         /\ v \in Caller \cup {NoValue, Migrated}
<1>0. MapTypes /\ ResultOk(t)
  BY DEF MapInv, ResultsInv
<1>a. PICK a \in 1..Arrays : \E k \in Key : \E i \in 0..Length[a] - 1 :
           /\ a = cursor[t].array /\ k = call[t].key /\ i = cursor[t].i
           /\ a \in 1..Top /\ Top \in 1..Arrays /\ NoneBefore(a, k, i)
           /\ Probed(a, k, i) \in Slots(a)
           /\ AtSlot(t) = arrays[a][Probed(a, k, i)]
           /\ where[t] = "value" => arrays[a][Probed(a, k, i)].key = k
  BY ProbeIs
<1>b. PICK k \in Key : \E i \in 0..Length[a] - 1 :
           /\ k = call[t].key /\ a \in 1..Top /\ Probed(a, k, i) \in Slots(a)
           /\ AtSlot(t) = arrays[a][Probed(a, k, i)]
           /\ arrays[a][Probed(a, k, i)].key = k
  BY <1>a, Zenon
<1>c. PICK s \in Slots(a) :
           k = call[t].key /\ a \in 1..Top /\ AtSlot(t) = arrays[a][s] /\ arrays[a][s].key = k
  BY <1>b
<1>1. v \in Caller \cup {NoValue, Migrated}
  BY <1>c, <1>0 DEF MapTypes, Entry
<1>2. known[t] \in SUBSET Caller /\ \A w \in known[t] : Holds(k, w)
  BY <1>c, <1>0 DEF ResultOk, MapTypes
<1>3. ASSUME v \in Caller PROVE Holds(k, v) /\ (known[t] # {} => v \in known[t])
  <2>1. Holds(k, v)
    <3>1. arrays[a][s].key = k /\ arrays[a][s].value = v
      BY <1>c
    <3>. QED  BY <3>1 DEF Holds
  <2>2. ASSUME NEW w \in known[t] PROVE v = w
    BY <1>c, <1>2, <1>3, <2>1, HeldOnce
  <2>. QED  BY <2>1, <2>2
<1>4. ASSUME v = NoValue, NEW w \in known[t] PROVE FALSE
  BY <1>c, <1>2, <1>4, NotHeld
<1>. QED  BY <1>c, <1>1, <1>3, <1>4

\* find's use of the slot keeps the invariant.
LEMMA FindValueKeeps == ASSUME MapInv, NEW t \in Caller, FindValue(t) PROVE MapInv'
<1>0. MapTypes /\ where[t] = "value" /\ call[t].kind = "find"
  BY DEF MapInv, FindValue
<1>. PICK v : v = AtSlot(t).value
  OBVIOUS
<1>1. /\ cursor' = [cursor EXCEPT ![t].value = v]
      /\ IF v = Migrated THEN where' = [where EXCEPT ![t] = "migrate"] /\ UNCHANGED result
         ELSE where' = [where EXCEPT ![t] = "done"] /\ result' = [result EXCEPT ![t] = v]
      /\ UNCHANGED <<arrays, current, from, position, helpers, generation, call, known>>
  BY DEF FindValue, GoOn, Returned, table
<1>2. /\ v \in Caller => Holds(call[t].key, v) /\ (known[t] # {} => v \in known[t])
      /\ v = NoValue => known[t] = {}
      /\ v \in Caller \cup {NoValue, Migrated}
  BY <1>0, ValueIs
<1>3. /\ cursor' \in [Caller -> Cursor] /\ cursor'[t].value = v
      /\ \A u \in Caller : u # t => cursor'[u] = cursor[u]
  <2>1. v \in Seen
    BY <1>2 DEF Seen
  <2>2. cursor[t] \in Cursor /\ cursor \in [Caller -> Cursor]
    BY <1>0 DEF MapTypes
  <2>3. cursor' = [cursor EXCEPT ![t] = [cursor[t] EXCEPT !.value = v]]
    BY <1>1
  <2>4. [cursor[t] EXCEPT !.value = v] \in Cursor
    BY <2>1, <2>2 DEF Cursor
  <2>5. cursor' \in [Caller -> Cursor]
    BY <2>2, <2>3, <2>4
  <2>6. /\ cursor'[t] = [cursor[t] EXCEPT !.value = v]
        /\ \A u \in Caller : u # t => cursor'[u] = cursor[u]
    BY <2>2, <2>3
  <2>. QED  BY <2>2, <2>5, <2>6 DEF Cursor
<1>4. CASE v # Migrated
  <2>1. MapTypes'
    BY <1>0, <1>1, <1>2, <1>3, <1>4, ZenonT(40) DEF MapTypes, Stops, Seen
  <2>2. (known[t] # {} => v \in known[t]) /\ call[t].kind # "insert"
    BY <1>0, <1>2, <1>4
  <2>. QED  BY <1>0, <1>1, <1>2, <1>3, <1>4, <2>1, <2>2, ReturnKeeps
<1>5. CASE v = Migrated
  <2>1. MapTypes'
    BY <1>0, <1>1, <1>3, <1>5 DEF MapTypes, Stops
  <2>2. ~Helping(t) /\ "migrate" \in Stops /\ where'[t] = "migrate"
    BY <1>0, <1>1, <1>5 DEF Helping, Stops, MapTypes
  <2>3. \A u \in Caller : /\ where'[u] = "move" <=> where[u] = "move"
                          /\ where[u] = "move" => cursor'[u] = cursor[u]
    BY <1>1, <1>3, <1>5, <2>2, QuietKeeps
  <2>4. \A k, w : Holds(k, w)' = Holds(k, w)
    BY <1>1, <2>3, HeldKeeps
  <2>5. CursorOk(t)'
    BY <2>2 DEF CursorOk
  <2>6. ResultOk(t)'
    <3>. PICK k : k = call[t].key
      OBVIOUS
    <3>. PICK r : r = result[t]
      OBVIOUS
    <3>1. (r \in Caller => Holds(k, r)') /\ \A w \in known[t] : Holds(k, w)'
      BY <2>4 DEF MapInv, ResultsInv, ResultOk
    <3>. QED  BY <1>1, <1>3, <1>5, <2>2, <3>1, ValuesDiffer DEF ResultOk, Holds
  <2>. QED  BY <1>1, <1>3, <1>5, <2>1, <2>2, <2>5, <2>6, QuietStep
<1>. QED  BY <1>4, <1>5

\* The exchange that stores a value in its key's slot keeps the invariant.
LEMMA InsertKeeps ==
  ASSUME MapInv, NEW t \in Caller, where[t] = "value", AtSlot(t).value = NoValue,
         PutIn(t, "value", t), where' = [where EXCEPT ![t] = "done"],
         result' = [result EXCEPT ![t] = t],
         UNCHANGED <<current, from, position, helpers, generation, call, known, cursor>>
  PROVE  MapInv'
<1>0. /\ MapTypes /\ PhaseInv /\ EntriesInv /\ KeysInv /\ MovedInv /\ ResultOk(t)
  BY DEF MapInv, ResultsInv
<1>a. PICK a \in 1..Arrays : \E k \in Key : \E i \in 0..Length[a] - 1 :
           /\ a = cursor[t].array /\ k = call[t].key /\ i = cursor[t].i
           /\ a \in 1..Top /\ Top \in 1..Arrays /\ NoneBefore(a, k, i)
           /\ Probed(a, k, i) \in Slots(a)
           /\ AtSlot(t) = arrays[a][Probed(a, k, i)]
           /\ where[t] = "value" => arrays[a][Probed(a, k, i)].key = k
  BY ProbeIs
<1>b. PICK k \in Key : \E s \in Slots(a) :
           /\ a = cursor[t].array /\ k = call[t].key /\ s = Probed(a, k, cursor[t].i)
           /\ a \in 1..Top /\ Top \in 1..Arrays
           /\ arrays[a][s].key = k /\ arrays[a][s].value = NoValue
  BY <1>a
<1>c. PICK s \in Slots(a) :
           /\ a = cursor[t].array /\ k = call[t].key /\ s = Probed(a, k, cursor[t].i)
           /\ a \in 1..Top /\ Top \in 1..Arrays
           /\ arrays[a][s].key = k /\ arrays[a][s].value = NoValue
  BY <1>b
<1>1. k # NoKey /\ NoValue # Migrated /\ t # Migrated /\ NoValue \notin Caller
  BY ValuesDiffer, Zenon
<1>2. arrays' = [arrays EXCEPT ![a][s].value = t]
  BY <1>c, Zenon DEF PutIn
<1>3. /\ arrays' = [b \in 1..Arrays |-> arrays'[b]]
      /\ \A b \in 1..Arrays : arrays'[b] \in [Slots(b) -> Entry]
      /\ \A b \in 1..Arrays : \A q \in Slots(b) :
           /\ arrays'[b][q].key = arrays[b][q].key
           /\ arrays'[b][q].value = IF b = a /\ q = s THEN t ELSE arrays[b][q].value
  <2>1. OnlyAt(a, s, arrays[a][s].key, t)
    BY <1>0, <1>2, PutValue
  <2>. QED  BY <2>1 DEF OnlyAt
<1>4. MapTypes'
  <2>1. where' \in [Caller -> Stops] /\ result' \in [Caller -> Seen]
    BY <1>0 DEF MapTypes, Stops, Seen
  <2>. QED  BY <1>0, <1>3, <2>1 DEF MapTypes
<1>5. ~Helping(t) /\ "done" \in Stops /\ where'[t] = "done" /\ result'[t] = t
      /\ \A u \in Caller : u # t => result'[u] = result[u]
  BY <1>0 DEF Helping, Stops, MapTypes
<1>6. KeysGrow
  BY <1>3 DEF KeysGrow
<1>7. /\ Top' = Top /\ \A q : Open(q)' = Open(q)
      /\ \A u \in Caller : where'[u] = "move" <=> where[u] = "move"
  BY <1>5, QuietKeeps
<1>8. EntriesInv'
  <2>. SUFFICES ASSUME NEW b \in 1..Arrays, NEW q \in Slots(b)
                PROVE  /\ arrays'[b][q].key = NoKey => arrays'[b][q].value \in {NoValue, Migrated}
                       /\ b < Top => arrays'[b][q].value = Migrated
                       /\ b = Top => (arrays'[b][q].value = Migrated <=> ~Open(q))
                       /\ b > Top => arrays'[b][q].value # Migrated
                       /\ b > Top /\ (from = 0 \/ b # from + 1) => arrays'[b][q].key = NoKey
    BY <1>7 DEF EntriesInv
  <2>1. CASE b = a /\ q = s
    <3>1. b = a /\ q = s /\ arrays'[b][q].value = t /\ arrays'[b][q].key = k
      BY <1>c, <1>3, <2>1
    <3>2. a < Top => arrays[a][s].value = Migrated
      BY <1>0 DEF EntriesInv
    <3>3. ~(a < Top) /\ a = Top
      BY <1>c, <1>1, <3>2
    <3>4. Open(s)
      BY <1>c, <1>0, <1>1, <3>3 DEF EntriesInv
    <3>. QED  BY <1>1, <3>1, <3>3, <3>4
  <2>2. CASE ~(b = a /\ q = s)
    BY <1>0, <1>3, <2>2 DEF EntriesInv
  <2>. QED  BY <2>1, <2>2
<1>9. KeysInv'
  <2>1. \A b \in 1..Arrays : \A q \in Slots(b) : arrays'[b][q].key \in Key \cup {NoKey}
    BY <1>3 DEF Entry
  <2>. QED  BY <1>0, <1>3, <1>6, <2>1, KeysKeep
<1>10. MovedInv' /\ HeldGrow
  <2>1. from # 0 => from + 1 \in 1..Arrays /\ from \in 1..Arrays /\ a # from + 1
    BY <1>c, <1>0, LengthsAre DEF MapTypes, Top
  <2>2. from # 0 => /\ \A q \in Slots(from) : arrays[from][q].value = Migrated => arrays'[from][q].value = Migrated
                    /\ \A q \in Slots(from + 1) : /\ arrays'[from + 1][q].key = arrays[from + 1][q].key
                                                  /\ arrays'[from + 1][q].value = arrays[from + 1][q].value
    BY <1>c, <1>1, <1>3, <2>1
  <2>3. MovedInv'
    BY <1>6, <1>7, <2>2, MovedKeeps
  <2>4. \A b \in 1..Arrays : \A q \in Slots(b) :
          arrays[b][q].value \in Caller => arrays'[b][q].value = arrays[b][q].value
    <3>. TAKE b \in 1..Arrays
    <3>. TAKE q \in Slots(b)
    <3>1. arrays[b][q].value \in Caller => ~(b = a /\ q = s)
      BY <1>c, <1>1
    <3>. QED  BY <1>3, <3>1
  <2>5. HeldGrow
    BY <1>6, <1>7, <2>4, HeldGrows
  <2>. QED  BY <2>3, <2>5
<1>12. CursorOk(t)'
  BY <1>5 DEF CursorOk
<1>13. ResultOk(t)'
  <2>1. Holds(k, t)'
    <3>1. arrays'[a][s].key = k /\ arrays'[a][s].value = t
      BY <1>c, <1>3
    <3>. QED  BY <3>1 DEF Holds
  <2>2. known[t] = {}
    <3>. PICK v : v = AtSlot(t).value
      OBVIOUS
    <3>. QED  BY ValueIs
  <2>. QED  BY <1>c, <1>5, <2>1, <2>2 DEF ResultOk, Holds
<1>. QED  BY <1>4, <1>5, <1>6, <1>8, <1>9, <1>10, <1>12, <1>13, OwnStep

\* insert's use of the slot keeps the invariant.
LEMMA InsertValueKeeps == ASSUME MapInv, NEW t \in Caller, InsertValue(t) PROVE MapInv'
<1>0. MapTypes /\ where[t] = "value" /\ call[t].kind = "insert"
      /\ UNCHANGED <<current, from, position, helpers, generation, cursor, call, known>>
  BY DEF MapInv, InsertValue
<1>. PICK v : v = AtSlot(t).value
  OBVIOUS
<1>1. /\ v \in Caller => Holds(call[t].key, v) /\ (known[t] # {} => v \in known[t])
      /\ v \in Caller \cup {NoValue, Migrated}
  BY <1>0, ValueIs
<1>2. CASE v = NoValue
  <2>0. AtSlot(t).value = NoValue /\ NoValue # Migrated
    BY <1>2, ValuesDiffer
  <2>2. PutIn(t, "value", t) /\ Returned(t, t)
    BY <2>0, Zenon DEF InsertValue
  <2>1. PutIn(t, "value", t) /\ where' = [where EXCEPT ![t] = "done"] /\ result' = [result EXCEPT ![t] = t]
    BY <2>2 DEF Returned, GoOn
  <2>. QED  BY <1>0, <1>2, <2>1, InsertKeeps
<1>3. CASE v = Migrated
  <2>1. where' = [where EXCEPT ![t] = "migrate"] /\ UNCHANGED <<arrays, result>>
    BY <1>3, ValuesDiffer DEF InsertValue, GoOn
  <2>2. MapTypes'
    BY <1>0, <2>1 DEF MapTypes, Stops
  <2>3. ~Helping(t) /\ "migrate" \in Stops /\ where[t] # "done"
    BY <1>0 DEF Helping, Stops
  <2>. QED  BY <1>0, <2>1, <2>2, <2>3, QuietMove
<1>4. CASE v \in Caller
  <2>0. v # NoValue /\ v # Migrated
    BY <1>4, ValuesDiffer
  <2>1. /\ where' = [where EXCEPT ![t] = "done"] /\ result' = [result EXCEPT ![t] = v]
        /\ UNCHANGED arrays
    BY <2>0 DEF InsertValue, GoOn, Returned
  <2>2. MapTypes'
    BY <1>0, <1>4, <2>1 DEF MapTypes, Stops, Seen
  <2>. QED  BY <1>0, <1>1, <1>4, <2>1, <2>2, ReturnKeeps
<1>. QED  BY <1>1, <1>2, <1>3, <1>4

\* A step of a helper.
LEMMA HelpStep ==
  ASSUME MapInv, MapTypes', PhaseInv', TasksInv', EntriesInv', KeysInv', MovedInv',
         KeysGrow, HeldGrow, Top \in 1..Top', Top' \in 1..Arrays, UNCHANGED <<call, result, known>>,
         NEW t \in Caller, where[t] # "done", where'[t] \notin {"probe", "value", "done"},
         cursor'[t].value = cursor[t].value,
         \A u \in Caller : u # t => where'[u] = where[u] /\ cursor'[u] = cursor[u]
  PROVE  MapInv'
<1>1. \A u \in Caller : CursorOk(u)' /\ ResultOk(u)'
  BY OtherKeeps
<1>. QED  BY <1>1 DEF MapInv, CursorsInv, ResultsInv

\* One more helper.
LEMMA HelpersMore ==
  ASSUME NEW t \in Caller, ~Helping(t), Helping(t)',
         \A u \in Caller : u # t => Helping(u)' = Helping(u)
  PROVE  Cardinality({u \in Caller : Helping(u)}') = Cardinality({u \in Caller : Helping(u)}) + 1
<1>. DEFINE H == {u \in Caller : Helping(u)}
<1>1. H' = H \cup {t} /\ t \notin H
  OBVIOUS
<1>2. IsFiniteSet(H)
  <2>1. H \in SUBSET Caller
    OBVIOUS
  <2>. QED  BY <2>1, ValuesDiffer, FS_Subset
<1>. QED  BY <1>1, <1>2, FS_AddElement

\* One helper fewer; when none is left, nobody helps.
LEMMA HelpersLess ==
  ASSUME NEW t \in Caller, Helping(t), ~Helping(t)',
         \A u \in Caller : u # t => Helping(u)' = Helping(u)
  PROVE  /\ Cardinality({u \in Caller : Helping(u)}') = Cardinality({u \in Caller : Helping(u)}) - 1
         /\ Cardinality({u \in Caller : Helping(u)}) \in Nat /\ Cardinality({u \in Caller : Helping(u)}) > 0
         /\ Cardinality({u \in Caller : Helping(u)}') = 0 => \A u \in Caller : ~Helping(u)'
<1>. DEFINE H == {u \in Caller : Helping(u)}
<1>1. H' = H \ {t} /\ t \in H
  OBVIOUS
<1>2. IsFiniteSet(H)
  <2>1. H \in SUBSET Caller
    OBVIOUS
  <2>. QED  BY <2>1, ValuesDiffer, FS_Subset
<1>. PICK h : h = H'
  OBVIOUS
<1>3. IsFiniteSet(h)
  BY <1>1, <1>2, FS_Subset
<1>4. Cardinality(h) = 0 => h = {}
  BY <1>3, FS_EmptySet
<1>5. Cardinality(h) = Cardinality(H) - 1
  BY <1>1, <1>2, FS_RemoveElement
<1>6. Cardinality(H) \in Nat /\ Cardinality(H) > 0
  BY <1>1, <1>2, FS_EmptySet, FS_CardinalityType
<1>7. h = {} => \A u \in Caller : ~Helping(u)'
  OBVIOUS
<1>. QED  BY <1>4, <1>5, <1>6, <1>7

\* Joining a migration, or opening one, keeps the invariant.
LEMMA EnterKeeps ==
  ASSUME MapInv, NEW t \in Caller, where[t] = "migrate", NEW g \in Nat,
         where' = [where EXCEPT ![t] = "take"], cursor' = [cursor EXCEPT ![t].generation = g],
         generation' = g, helpers' = helpers + 1, UNCHANGED <<arrays, call, result, known>>,
         \/ from # 0 /\ UNCHANGED <<from, current, position>>
         \/ from = 0 /\ current < Arrays /\ from' = current /\ current' = 0 /\ position' = 0
  PROVE  MapInv'
<1>0. /\ MapTypes /\ PhaseInv /\ TasksInv /\ EntriesInv /\ KeysInv /\ MovedInv
  BY DEF MapInv
<1>1. /\ cursor' \in [Caller -> Cursor]
      /\ cursor'[t].value = cursor[t].value
      /\ \A u \in Caller : u # t => cursor'[u] = cursor[u]
  <2>1. cursor[t] \in Cursor /\ cursor \in [Caller -> Cursor]
    BY <1>0 DEF MapTypes
  <2>2. cursor' = [cursor EXCEPT ![t] = [cursor[t] EXCEPT !.generation = g]]
    OBVIOUS
  <2>3. [cursor[t] EXCEPT !.generation = g] \in Cursor
    BY <2>1 DEF Cursor
  <2>4. cursor' \in [Caller -> Cursor]
    BY <2>1, <2>2, <2>3
  <2>5. /\ cursor'[t] = [cursor[t] EXCEPT !.generation = g]
        /\ \A u \in Caller : u # t => cursor'[u] = cursor[u]
    BY <2>1, <2>2
  <2>. QED  BY <2>1, <2>4, <2>5 DEF Cursor
<1>2. /\ where' \in [Caller -> Stops] /\ where'[t] = "take"
      /\ \A u \in Caller : u # t => where'[u] = where[u]
  BY <1>0 DEF MapTypes, Stops
<1>3. /\ Top' = Top /\ from' # 0 /\ Top \in 1..Arrays /\ from' \in 0..Arrays - 1 /\ current' = 0
      /\ position' \in Nat
  BY <1>0, LengthsAre DEF MapTypes, PhaseInv, Top
<1>4. MapTypes'
  <2>1. /\ arrays' = [a \in 1..Arrays |-> arrays'[a]]
        /\ \A a \in 1..Arrays : arrays'[a] \in [Slots(a) -> Entry]
    BY <1>0 DEF MapTypes
  <2>2. current' \in 0..Arrays /\ helpers' \in Nat /\ generation' \in Nat
    BY <1>0, <1>3, LengthsAre DEF MapTypes
  <2>3. /\ call' \in [Caller -> [kind : {"insert", "find"}, key : Key]]
        /\ result' \in [Caller -> Seen] /\ known' \in [Caller -> SUBSET Caller]
    BY <1>0 DEF MapTypes
  <2>. QED  BY <1>1, <1>2, <1>3, <2>1, <2>2, <2>3 DEF MapTypes
<1>5. PhaseInv'
  <2>1. \A u \in Caller : u # t => Helping(u)' = Helping(u)
    BY <1>2 DEF Helping
  <2>2. ~Helping(t) /\ Helping(t)'
    BY <1>2 DEF Helping
  <2>3. Cardinality({u \in Caller : Helping(u)}') = Cardinality({u \in Caller : Helping(u)}) + 1
    BY <2>1, <2>2, HelpersMore
  <2>. QED  BY <1>0, <1>3, <2>3 DEF PhaseInv
<1>6. Top \in 1..Top'
  BY <1>3, LengthsAre
<1>7. TasksInv' /\ EntriesInv' /\ KeysInv' /\ MovedInv' /\ KeysGrow /\ HeldGrow
  <2>1. CASE from # 0
    <3>1. \A u \in Caller : /\ Working(u)' = Working(u) /\ (Working(u) => cursor'[u] = cursor[u])
                            /\ (where'[u] = "leave" <=> where[u] = "leave")
                            /\ (where'[u] = "move" <=> where[u] = "move")
                            /\ (where'[u] = "exchange" <=> where[u] = "exchange")
      BY <1>1, <1>2 DEF Working
    <3>2. TasksInv'
      BY <1>0, <2>1, <3>1 DEF TasksInv
    <3>3. \A s : \A u \in Caller : Mine(u, s)' = Mine(u, s)
      BY <3>1 DEF Mine, Working
    <3>4. \A s : Open(s)' = Open(s)
      BY <2>1, <3>3 DEF Open, Pending
    <3>5. \A u \in Caller : where[u] = "move" => cursor'[u] = cursor[u]
      BY <3>1 DEF Working
    <3>6. EntriesInv' /\ KeysInv' /\ MovedInv' /\ KeysGrow /\ HeldGrow
      BY <1>3, <2>1, <3>1, <3>4, <3>5, EntriesKeep
    <3>. QED  BY <3>2, <3>6
  <2>2. CASE from = 0
    <3>1. from' = current /\ position' = 0 /\ Top = current /\ current + 1 \in 1..Arrays
      BY <1>0, <1>3, <2>2, LengthsAre DEF Top, MapTypes
    <3>2. \A u \in Caller : ~Working(u) /\ ~Working(u)' /\ where[u] # "move" /\ where'[u] \notin {"move", "leave"}
      BY <1>0, <1>2, <2>2 DEF PhaseInv, Helping, Working
    <3>3. TasksInv'
      BY <3>2 DEF TasksInv
    <3>4. \A s \in Slots(Top) : Open(s) /\ Open(s)'
      <4>1. \A s \in Slots(Top) : s >= position' * Chunk
        BY <1>3, <3>1, LengthsAre DEF Slots
      <4>. QED  BY <2>2, <4>1 DEF Open, Pending
    <3>5. EntriesInv'
      <4>1. \A a \in 1..Arrays : \A s \in Slots(a) :
              /\ arrays[a][s].key = NoKey => arrays[a][s].value \in {NoValue, Migrated}
              /\ a < Top => arrays[a][s].value = Migrated
              /\ a = Top => arrays[a][s].value # Migrated
              /\ a > Top => arrays[a][s].value # Migrated
              /\ a > Top => arrays[a][s].key = NoKey
        BY <1>0, <2>2, <3>4 DEF EntriesInv
      <4>. QED  BY <1>3, <3>4, <4>1 DEF EntriesInv
    <3>6. KeysInv' /\ KeysGrow
      BY <1>0 DEF KeysInv, KeysGrow, NoneBefore, Takes
    <3>7. MovedInv'
      <4>1. \A s \in Slots(current + 1) : arrays[current + 1][s].key = NoKey
        BY <1>0, <1>3, <2>2, <3>1, LengthsAre DEF EntriesInv
      <4>. QED  BY <3>1, <3>2, <4>1 DEF MovedInv
    <3>8. HeldGrow
      BY <3>2 DEF HeldGrow, Holds
    <3>. QED  BY <3>3, <3>5, <3>6, <3>7, <3>8
  <2>. QED  BY <2>1, <2>2
<1>8. where[t] # "done" /\ where'[t] \notin {"probe", "value", "done"}
  BY <1>2
<1>. QED  BY <1>1, <1>2, <1>3, <1>4, <1>5, <1>6, <1>7, <1>8, HelpStep

\* try_join and the opening of a migration keep the invariant.
LEMMA EnterMigrationKeeps == ASSUME MapInv, NEW t \in Caller, EnterMigration(t) PROVE MapInv'
<1>0. MapTypes /\ PhaseInv /\ where[t] = "migrate" /\ UNCHANGED <<call, result, known>>
  BY DEF MapInv, EnterMigration, Private
<1>1. CASE current # cursor[t].array
  <2>1. where' = [where EXCEPT ![t] = "protect"]
        /\ UNCHANGED <<arrays, current, from, position, helpers, generation, cursor>>
    BY <1>1 DEF EnterMigration, GoOn, table
  <2>2. MapTypes'
    BY <1>0, <2>1 DEF MapTypes, Stops
  <2>3. ~Helping(t) /\ "protect" \in Stops
    BY <1>0 DEF Helping, Stops
  <2>. QED  BY <1>0, <2>1, <2>2, <2>3, QuietMove
<1>2. CASE current = cursor[t].array
  <2>1. /\ where' = [where EXCEPT ![t] = "take"] /\ helpers' = helpers + 1 /\ UNCHANGED arrays
        /\ cursor' = [cursor EXCEPT ![t].generation = generation']
        /\ IF from = 0
           THEN current < Arrays /\ from' = current /\ current' = 0 /\ position' = 0 /\ generation' = generation + 1
           ELSE UNCHANGED <<position, generation, from, current>>
    BY <1>2 DEF EnterMigration, GoOn
  <2>2. generation' \in Nat
    BY <1>0, <2>1 DEF MapTypes
  <2>. PICK g \in Nat : g = generation'
    BY <2>2
  <2>3. \/ from # 0 /\ UNCHANGED <<from, current, position>>
        \/ from = 0 /\ current < Arrays /\ from' = current /\ current' = 0 /\ position' = 0
    BY <2>1
  <2>4. cursor' = [cursor EXCEPT ![t].generation = g]
    BY <2>1
  <2>. QED  BY <1>0, <2>1, <2>3, <2>4, EnterKeeps
<1>. QED  BY <1>1, <1>2

\* The smaller of two numbers.
LEMMA LeastIs ==
  ASSUME NEW m \in Nat, NEW n \in Nat
  PROVE  /\ Least(m, n) \in Nat /\ Least(m, n) <= m /\ Least(m, n) <= n
         /\ Least(m, n) = m \/ Least(m, n) = n
BY DEF Least

\* The first slot of the next task.
LEMMA NextTask == ASSUME NEW p \in Nat, NEW c \in Nat PROVE (p + 1) * c = p * c + c /\ p * c \in Nat
<1>1. (p + 1) * c = p * c + c
  BY Z3
<1>. QED  BY <1>1

\* A helper that was at a safe place takes what is left of the array, or leaves.
LEMMA TaskKeeps ==
  ASSUME MapInv, NEW t \in Caller, where[t] = "take", NEW l \in {"exchange", "leave"},
         where' = [where EXCEPT ![t] = l], cursor' \in [Caller -> Cursor],
         cursor'[t].value = cursor[t].value, \A u \in Caller : u # t => cursor'[u] = cursor[u],
         position' = position + 1,
         UNCHANGED <<arrays, current, from, helpers, generation, call, result, known>>,
         l = "leave" => position * Chunk >= Length[from],
         l = "exchange" => /\ cursor'[t].i = position * Chunk /\ position * Chunk < Length[from]
                           /\ cursor'[t].end = Least(position * Chunk + Chunk, Length[from])
  PROVE  MapInv'
<1>0. /\ MapTypes /\ PhaseInv /\ TasksInv
  BY DEF MapInv
<1>. PICK b \in Nat : b = position * Chunk /\ position' * Chunk = b + Chunk
  BY <1>0, LengthsAre, NextTask DEF MapTypes
<1>1. from # 0 /\ from \in 1..Arrays /\ Top = from /\ Top' = from /\ Length[from] \in Nat
  BY <1>0, LengthsAre DEF PhaseInv, Helping, MapTypes, Top
<1>2. /\ where' \in [Caller -> Stops] /\ where'[t] = l /\ \A u \in Caller : u # t => where'[u] = where[u]
  BY <1>0 DEF MapTypes, Stops
<1>3. MapTypes'
  BY <1>0, <1>2 DEF MapTypes
<1>4. \A u \in Caller : Helping(u)' = Helping(u)
  BY <1>2 DEF Helping
<1>5. PhaseInv'
  <2>1. {u \in Caller : Helping(u)}' = {u \in Caller : Helping(u)}
    BY <1>4
  <2>2. helpers' = Cardinality({u \in Caller : Helping(u)}')
    BY <1>0, <2>1 DEF PhaseInv
  <2>. QED  BY <1>0, <1>1, <2>2 DEF PhaseInv
<1>. PICK n \in Nat : n = Length[from]
  BY <1>1
<1>6. /\ ~Working(t) /\ (Working(t)' => l = "exchange") /\ (where'[t] = "leave" => l = "leave")
      /\ \A u \in Caller : u # t => /\ Working(u)' = Working(u) /\ cursor'[u] = cursor[u]
                                    /\ where'[u] = where[u]
  BY <1>2 DEF Working
<1>7. \A u \in Caller : cursor[u].i \in Nat /\ cursor[u].end \in Nat
  BY <1>0 DEF MapTypes, Cursor
<1>8. Chunk \in Nat /\ Chunk > 0
  BY LengthsAre
<1>9. l = "exchange" => /\ cursor'[t].i = b /\ b < n /\ cursor'[t].end \in Nat
                        /\ cursor'[t].end <= n /\ cursor'[t].end <= b + Chunk
                        /\ cursor'[t].end = n \/ cursor'[t].end = b + Chunk
  <2>1. b + Chunk \in Nat
    BY <1>8
  <2>. QED  BY <2>1, LeastIs
<1>10. TasksInv'
  <2>1. \A u \in Caller : u # t =>
          /\ Working(u) => /\ cursor[u].i < cursor[u].end /\ cursor[u].end <= n /\ cursor[u].end <= b
          /\ where[u] = "leave" => b >= n
          /\ \A v \in Caller : v # t /\ Working(u) /\ Working(v) /\ u # v =>
               cursor[u].end <= cursor[v].i \/ cursor[v].end <= cursor[u].i
    BY <1>0 DEF TasksInv
  <2>2. ASSUME NEW u \in Caller
        PROVE  /\ Working(u)' => /\ cursor'[u].i < cursor'[u].end /\ cursor'[u].end <= n
                                 /\ cursor'[u].end <= b + Chunk
               /\ where'[u] = "leave" => b + Chunk >= n
    <3>1. CASE u = t
      BY <1>6, <1>8, <1>9, <3>1
    <3>2. CASE u # t
      BY <1>6, <1>7, <1>8, <2>1, <3>2
    <3>. QED  BY <3>1, <3>2
  <2>3. ASSUME NEW u \in Caller, NEW v \in Caller, Working(u)', Working(v)', u # v
        PROVE  cursor'[u].end <= cursor'[v].i \/ cursor'[v].end <= cursor'[u].i
    <3>1. CASE u = t
      <4>1. cursor'[t].i = b /\ cursor[v].end <= b /\ cursor'[v] = cursor[v]
        BY <1>6, <1>9, <2>1, <2>3, <3>1
      <4>. QED  BY <3>1, <4>1
    <3>2. CASE v = t
      <4>1. cursor'[t].i = b /\ cursor[u].end <= b /\ cursor'[u] = cursor[u]
        BY <1>6, <1>9, <2>1, <2>3, <3>2
      <4>. QED  BY <3>2, <4>1
    <3>3. CASE u # t /\ v # t
      BY <1>6, <2>1, <2>3, <3>3
    <3>. QED  BY <3>1, <3>2, <3>3
  <2>. QED  BY <2>2, <2>3 DEF TasksInv
<1>11. \A s \in Slots(Top) : Open(s)' = Open(s)
  <2>. SUFFICES ASSUME NEW s \in 0..n - 1 PROVE Pending(s)' = Pending(s)
    BY <1>1 DEF Slots, Open
  <2>1. \A u \in Caller : u # t => Mine(u, s)' = Mine(u, s)
    BY <1>6 DEF Mine
  <2>2. ~Mine(t, s)
    BY DEF Mine
  <2>3. Mine(t, s)' <=> l = "exchange" /\ b <= s /\ s < cursor'[t].end
    BY <1>2, <1>9 DEF Mine
  <2>4. Pending(s) <=> s >= b \/ \E u \in Caller : u # t /\ Mine(u, s)
    BY <2>2 DEF Pending
  <2>5. Pending(s)' <=> \/ s >= b + Chunk
                        \/ l = "exchange" /\ b <= s /\ s < cursor'[t].end
                        \/ \E u \in Caller : u # t /\ Mine(u, s)
    <3>1. Pending(s)' <=> s >= b + Chunk \/ \E u \in Caller : Mine(u, s)'
      BY Zenon DEF Pending
    <3>. QED  BY <2>1, <2>3, <3>1, Zenon
  <2>6. s >= b <=> s >= b + Chunk \/ (l = "exchange" /\ b <= s /\ s < cursor'[t].end)
    <3>1. CASE l = "exchange"
      BY <1>8, <1>9, <3>1
    <3>2. CASE l = "leave"
      BY <1>8, <3>2
    <3>. QED  BY <3>1, <3>2
  <2>7. Pending(s)' <=> Pending(s)
    BY <2>4, <2>5, <2>6, Zenon
  <2>. QED  BY <2>7, Zenon DEF Pending
<1>12. EntriesInv' /\ KeysInv' /\ MovedInv' /\ KeysGrow /\ HeldGrow
  <2>1. \A u \in Caller : /\ where'[u] = "move" <=> where[u] = "move"
                          /\ where[u] = "move" => cursor'[u] = cursor[u]
    BY <1>2
  <2>. QED  BY <1>1, <1>11, <2>1, EntriesKeep
<1>13. Top \in 1..Top' /\ Top' \in 1..Arrays
  BY <1>1, LengthsAre
<1>14. where[t] # "done" /\ where'[t] \notin {"probe", "value", "done"}
  BY <1>2
<1>. QED  BY <1>2, <1>3, <1>5, <1>10, <1>12, <1>13, <1>14, HelpStep

\* Taking the next chunk of the array keeps the invariant: no two helpers have the same slot.
LEMMA TakeTaskKeeps == ASSUME MapInv, NEW t \in Caller, TakeTask(t) PROVE MapInv'
<1>0. /\ MapTypes /\ PhaseInv /\ where[t] = "take" /\ position' = position + 1
      /\ UNCHANGED <<arrays, current, from, helpers, generation, call, result, known>>
  BY DEF MapInv, TakeTask, Private
<1>1. from # 0 /\ from \in 1..Arrays /\ Length[from] \in Nat /\ Chunk \in Nat
  BY <1>0, LengthsAre DEF PhaseInv, Helping, MapTypes
<1>. PICK b \in Nat : b = position * Chunk
  BY <1>0, <1>1, NextTask DEF MapTypes
<1>2. \/ /\ b < Length[from] /\ where' = [where EXCEPT ![t] = "exchange"]
         /\ cursor' = [cursor EXCEPT ![t].i = b, ![t].end = Least(b + Chunk, Length[from])]
      \/ ~(b < Length[from]) /\ where' = [where EXCEPT ![t] = "leave"] /\ UNCHANGED cursor
  BY DEF TakeTask, GoOn
<1>3. CASE /\ b < Length[from] /\ where' = [where EXCEPT ![t] = "exchange"]
           /\ cursor' = [cursor EXCEPT ![t].i = b, ![t].end = Least(b + Chunk, Length[from])]
  <2>. PICK e \in Nat : e = Least(b + Chunk, Length[from])
    <3>1. b + Chunk \in Nat
      BY <1>1
    <3>. QED  BY <1>1, <3>1, LeastIs
  <2>1. /\ cursor' \in [Caller -> Cursor] /\ cursor'[t].i = b /\ cursor'[t].end = e
        /\ cursor'[t].value = cursor[t].value
        /\ \A u \in Caller : u # t => cursor'[u] = cursor[u]
    <3>1. cursor[t] \in Cursor /\ cursor \in [Caller -> Cursor]
      BY <1>0 DEF MapTypes
    <3>2. cursor' = [cursor EXCEPT ![t] = [[cursor[t] EXCEPT !.i = b] EXCEPT !.end = e]]
      BY <1>3, <3>1
    <3>. PICK c : c = [[cursor[t] EXCEPT !.i = b] EXCEPT !.end = e]
      OBVIOUS
    <3>3. c \in Cursor /\ c.i = b /\ c.end = e /\ c.value = cursor[t].value
      BY <3>1 DEF Cursor
    <3>. QED  BY <3>1, <3>2, <3>3
  <2>. QED  BY <1>0, <1>3, <2>1, TaskKeeps
<1>4. CASE ~(b < Length[from]) /\ where' = [where EXCEPT ![t] = "leave"] /\ UNCHANGED cursor
  <2>1. b >= Length[from] /\ cursor' \in [Caller -> Cursor]
    BY <1>0, <1>1, <1>4 DEF MapTypes
  <2>. QED  BY <1>0, <1>4, <2>1, TaskKeeps
<1>. QED  BY <1>2, <1>3, <1>4

\* A helper that has done a slot: no other had it, and the other slots are as they were.
LEMMA WorkKeeps ==
  ASSUME MapInv, NEW t \in Caller, Working(t), NEW l \in {"exchange", "move", "take"},
         where' = [where EXCEPT ![t] = l], \A u \in Caller : u # t => cursor'[u] = cursor[u],
         cursor'[t].end = cursor[t].end,
         \/ l = "move" /\ cursor'[t].i = cursor[t].i
         \/ /\ cursor'[t].i = cursor[t].i + 1
            /\ l = IF cursor[t].i + 1 < cursor[t].end THEN "exchange" ELSE "take",
         UNCHANGED <<current, from, position, helpers>>
  PROVE  /\ PhaseInv' /\ TasksInv' /\ Top' = Top /\ Top \in 1..Top' /\ Top' \in 1..Arrays
         /\ where' \in [Caller -> Stops] /\ where'[t] = l
         /\ \A u \in Caller : u # t => where'[u] = where[u] /\ cursor'[u] = cursor[u]
         /\ \A s \in Slots(from) : Open(s)' <=> Open(s) /\ s # cursor[t].i
<1>0. MapTypes /\ PhaseInv /\ TasksInv
  BY DEF MapInv
<1>1. from # 0 /\ from \in 1..Arrays /\ Top = from /\ Top' = from /\ Length[from] \in Nat
  BY WorkerIs, LengthsAre DEF Top
<1>2. Top \in 1..Top' /\ Top' \in 1..Arrays
  BY <1>1, LengthsAre
<1>3. /\ where' \in [Caller -> Stops] /\ where'[t] = l
      /\ \A u \in Caller : u # t => where'[u] = where[u] /\ cursor'[u] = cursor[u]
  BY <1>0 DEF MapTypes, Stops
<1>4. \A u \in Caller : Helping(u)' = Helping(u)
  BY <1>3 DEF Helping, Working
<1>5. PhaseInv'
  <2>1. {u \in Caller : Helping(u)}' = {u \in Caller : Helping(u)}
    BY <1>4
  <2>2. helpers' = Cardinality({u \in Caller : Helping(u)}')
    BY <1>0, <2>1 DEF PhaseInv
  <2>. QED  BY <1>0, <1>1, <2>2 DEF PhaseInv
<1>. PICK b \in Nat : b = position * Chunk
  BY <1>0, LengthsAre, NextTask DEF MapTypes
<1>. PICK n \in Nat : n = Length[from]
  BY <1>1
<1>6. \A u \in Caller : cursor[u].i \in Nat /\ cursor[u].end \in Nat
  BY <1>0 DEF MapTypes, Cursor
<1>. PICK i \in Nat, e \in Nat : i = cursor[t].i /\ e = cursor[t].end
  BY <1>6
<1>7. /\ i < e /\ e <= n /\ e <= b
      /\ \A u \in Caller : u # t /\ Working(u) =>
           /\ cursor[u].i < cursor[u].end /\ cursor[u].end <= n /\ cursor[u].end <= b
           /\ e <= cursor[u].i \/ cursor[u].end <= i
      /\ \A u \in Caller : where[u] = "leave" => b >= n
  BY <1>0 DEF TasksInv
<1>8. /\ cursor'[t].i \in Nat /\ cursor'[t].i >= i /\ cursor'[t].end = e
      /\ Working(t)' => cursor'[t].i < e
  BY <1>3, <1>7 DEF Working
<1>9. \A u \in Caller : u # t => /\ Working(u)' = Working(u)
                                 /\ (where'[u] = "leave" <=> where[u] = "leave")
  BY <1>3 DEF Working
<1>10. TasksInv'
  <2>1. ASSUME NEW u \in Caller
        PROVE  /\ Working(u)' => /\ cursor'[u].i < cursor'[u].end /\ cursor'[u].end <= n
                                 /\ cursor'[u].end <= b
               /\ where'[u] = "leave" => b >= n
    <3>1. CASE u = t
      BY <1>3, <1>7, <1>8, <3>1
    <3>2. CASE u # t
      BY <1>3, <1>7, <1>9, <3>2
    <3>. QED  BY <3>1, <3>2
  <2>2. ASSUME NEW u \in Caller, NEW v \in Caller, Working(u)', Working(v)', u # v
        PROVE  cursor'[u].end <= cursor'[v].i \/ cursor'[v].end <= cursor'[u].i
    <3>1. CASE u = t
      <4>1. e <= cursor[v].i \/ cursor[v].end <= i
        BY <1>7, <1>9, <2>2, <3>1
      <4>. QED  BY <1>3, <1>6, <1>8, <2>2, <3>1, <4>1
    <3>2. CASE v = t
      <4>1. e <= cursor[u].i \/ cursor[u].end <= i
        BY <1>7, <1>9, <2>2, <3>2
      <4>. QED  BY <1>3, <1>6, <1>8, <2>2, <3>2, <4>1
    <3>3. CASE u # t /\ v # t
      BY <1>0, <1>3, <1>9, <2>2, <3>3 DEF TasksInv
    <3>. QED  BY <3>1, <3>2, <3>3
  <2>. QED  BY <2>1, <2>2 DEF TasksInv
<1>11. ASSUME NEW s \in Slots(from) PROVE Open(s)' <=> Open(s) /\ s # i
  <2>0. s \in Int
    BY DEF Slots
  <2>1. \A u \in Caller : u # t => /\ Mine(u, s)' <=> Mine(u, s)
                                   /\ Mine(u, s) => s # i
    <3>1. ASSUME NEW u \in Caller, u # t PROVE (Mine(u, s)' <=> Mine(u, s)) /\ (Mine(u, s) => s # i)
      <4>1. Mine(u, s)' <=> Mine(u, s)
        BY <1>3, <3>1 DEF Mine
      <4>2. Mine(u, s) => Working(u) /\ s < cursor[u].end /\ s >= cursor[u].i
        BY <1>6, <2>0 DEF Mine, Working
      <4>3. Mine(u, s) => s # i
        BY <1>6, <1>7, <2>0, <3>1, <4>2
      <4>. QED  BY <4>1, <4>3
    <3>. QED  BY <3>1
  <2>2. s >= b => s # i
    BY <1>7, <2>0
  <2>3. Mine(t, s)' <=> Mine(t, s) /\ s # i
    <3>1. Mine(t, s) /\ s # i <=> s < e /\ i < s
      BY <1>6, <2>0 DEF Mine, Working
    <3>2. Mine(t, s)' <=> s < e /\ i < s
      BY <1>3, <1>7, <1>8, <2>0 DEF Mine
    <3>. QED  BY <3>1, <3>2
  <2>4. Open(s) <=> s >= b \/ \E u \in Caller : Mine(u, s)
    BY <1>1 DEF Open, Pending
  <2>5. Open(s)' <=> s >= b \/ \E u \in Caller : Mine(u, s)'
    BY <1>1 DEF Open, Pending
  <2>. QED  BY <2>1, <2>2, <2>3, <2>4, <2>5
<1>. QED  BY <1>1, <1>2, <1>3, <1>5, <1>10, <1>11

\* What is moving is in no slot of the new array yet.
LEMMA NotMovedYet ==
  ASSUME MapInv, from # 0, NEW i \in Slots(from), arrays[from][i].key # NoKey,
         arrays[from][i].value # Migrated
  PROVE  \A s \in Slots(from + 1) : arrays[from + 1][s].key # arrays[from][i].key
<1>0. MapTypes /\ KeysInv /\ MovedInv
  BY DEF MapInv
<1>1. from \in 1..Arrays
  BY <1>0, LengthsAre DEF MapTypes
<1>. SUFFICES ASSUME NEW s \in Slots(from + 1), arrays[from + 1][s].key = arrays[from][i].key
              PROVE  FALSE
  OBVIOUS
<1>. PICK r \in Slots(from) : arrays[from][r].key = arrays[from + 1][s].key /\ arrays[from][r].value = Migrated
  BY <1>0 DEF MovedInv
<1>2. r = i
  BY <1>0, <1>1, KeyOnce
<1>. QED  BY <1>2

\* The exchange that closes a slot keeps the invariant: a value in it goes into the hands of
\* one helper.
LEMMA CloseKeeps ==
  ASSUME MapInv, NEW t \in Caller, where[t] = "exchange", CloseSlot(t),
         NEW l \in {"exchange", "move", "take"}, where' = [where EXCEPT ![t] = l],
         cursor' \in [Caller -> Cursor], \A u \in Caller : u # t => cursor'[u] = cursor[u],
         cursor'[t].end = cursor[t].end, cursor'[t].value = cursor[t].value,
         UNCHANGED <<current, from, position, helpers, generation, call, result, known>>,
         \/ /\ arrays[from][cursor[t].i].value # NoValue /\ l = "move" /\ cursor'[t].i = cursor[t].i
            /\ cursor'[t].moving = arrays[from][cursor[t].i].value
         \/ /\ arrays[from][cursor[t].i].value = NoValue /\ cursor'[t].i = cursor[t].i + 1
            /\ l = IF cursor[t].i + 1 < cursor[t].end THEN "exchange" ELSE "take"
  PROVE  MapInv'
<1>0. /\ MapTypes /\ PhaseInv /\ TasksInv /\ EntriesInv /\ KeysInv /\ MovedInv /\ Working(t)
  BY DEF MapInv, Working
<1>1. from # 0 /\ from \in 1..Arrays /\ Top = from /\ from + 1 \in 1..Arrays /\ cursor[t].i \in Slots(from)
  BY <1>0, WorkerIs
<1>. PICK i \in Slots(from) : i = cursor[t].i
  BY <1>1
<1>. PICK k \in Key \cup {NoKey}, old \in Caller \cup {NoValue, Migrated} :
          k = arrays[from][i].key /\ old = arrays[from][i].value
  BY <1>0, <1>1, ZenonT(40) DEF MapTypes, Entry
<1>2. /\ PhaseInv' /\ TasksInv' /\ Top' = Top /\ Top \in 1..Top' /\ Top' \in 1..Arrays
      /\ where' \in [Caller -> Stops] /\ where'[t] = l
      /\ \A u \in Caller : u # t => where'[u] = where[u] /\ cursor'[u] = cursor[u]
      /\ \A s \in Slots(from) : Open(s)' <=> Open(s) /\ s # i
  BY <1>0, WorkKeeps, ZenonT(40)
<1>3. /\ arrays' = [b \in 1..Arrays |-> arrays'[b]]
      /\ \A b \in 1..Arrays : arrays'[b] \in [Slots(b) -> Entry]
      /\ \A b \in 1..Arrays : \A q \in Slots(b) :
           /\ arrays'[b][q].key = arrays[b][q].key
           /\ arrays'[b][q].value = IF b = from /\ q = i THEN Migrated ELSE arrays[b][q].value
  <2>1. arrays' = [arrays EXCEPT ![from][i].value = Migrated]
    BY Zenon DEF CloseSlot
  <2>2. OnlyAt(from, i, arrays[from][i].key, Migrated)
    BY <1>0, <1>1, <2>1, PutValue, Zenon
  <2>. QED  BY <2>2 DEF OnlyAt
<1>4. MapTypes'
  BY <1>0, <1>2, <1>3, Zenon DEF MapTypes
<1>5. old # Migrated
  <2>1. Mine(t, i)
    <3>1. i < cursor[t].end
      BY <1>0 DEF TasksInv
    <3>2. i \in Int
      BY DEF Slots
    <3>. QED  BY <3>1, <3>2 DEF Mine
  <2>2. Open(i)
    BY <2>1 DEF Open, Pending
  <2>. QED  BY <1>0, <1>1, <2>2 DEF EntriesInv
<1>6. KeysGrow
  BY <1>3 DEF KeysGrow
<1>7. KeysInv'
  <2>1. \A b \in 1..Arrays : \A q \in Slots(b) : arrays'[b][q].key \in Key \cup {NoKey}
    BY <1>3 DEF Entry
  <2>. QED  BY <1>0, <1>3, <1>6, <2>1, KeysKeep
<1>8. EntriesInv'
  <2>. SUFFICES ASSUME NEW b \in 1..Arrays, NEW q \in Slots(b)
                PROVE  /\ arrays'[b][q].key = NoKey => arrays'[b][q].value \in {NoValue, Migrated}
                       /\ b < Top => arrays'[b][q].value = Migrated
                       /\ b = Top => (arrays'[b][q].value = Migrated <=> ~Open(q)')
                       /\ b > Top => arrays'[b][q].value # Migrated
                       /\ b > Top /\ (from = 0 \/ b # from + 1) => arrays'[b][q].key = NoKey
    BY <1>2 DEF EntriesInv
  <2>1. CASE b = from /\ q = i
    <3>1. arrays'[b][q].value = Migrated /\ ~Open(i)'
      BY <1>2, <1>3, <2>1
    <3>. QED  BY <1>1, <2>1, <3>1
  <2>2. CASE ~(b = from /\ q = i)
    <3>1. arrays'[b][q].key = arrays[b][q].key /\ arrays'[b][q].value = arrays[b][q].value
      BY <1>3, <2>2
    <3>2. b = Top => (Open(q)' <=> Open(q))
      BY <1>1, <1>2, <2>2
    <3>. QED  BY <1>0, <3>1, <3>2 DEF EntriesInv
  <2>. QED  BY <2>1, <2>2
<1>9. l = "move" => k # NoKey /\ old \in Caller /\ cursor'[t].moving = old /\ cursor'[t].i = i
  BY <1>0, <1>1, <1>5, Zenon DEF EntriesInv
<1>10. MovedInv'
  <2>1. ASSUME NEW q \in Slots(from + 1), arrays'[from + 1][q].key # NoKey
        PROVE  /\ arrays'[from + 1][q].value \in Caller
               /\ \E r \in Slots(from) : /\ arrays'[from][r].key = arrays'[from + 1][q].key
                                         /\ arrays'[from][r].value = Migrated
    <3>1. from + 1 # from
      BY <1>1
    <3>2. arrays'[from + 1][q].key = arrays[from + 1][q].key /\ arrays'[from + 1][q].value = arrays[from + 1][q].value
      BY <1>1, <1>3, <3>1
    <3>. PICK r \in Slots(from) : arrays[from][r].key = arrays[from + 1][q].key /\ arrays[from][r].value = Migrated
      BY <1>0, <1>1, <2>1, <3>2 DEF MovedInv
    <3>3. arrays'[from][r].key = arrays[from][r].key /\ arrays'[from][r].value = Migrated
      BY <1>1, <1>3
    <3>4. arrays'[from + 1][q].value \in Caller
      BY <1>0, <1>1, <2>1, <3>2 DEF MovedInv
    <3>. QED  BY <3>2, <3>3, <3>4
  <2>2. ASSUME NEW u \in Caller, where'[u] = "move"
        PROVE  /\ cursor'[u].moving \in Caller /\ arrays'[from][cursor'[u].i].key # NoKey
               /\ arrays'[from][cursor'[u].i].value = Migrated
               /\ \A q \in Slots(from + 1) : arrays'[from + 1][q].key # arrays'[from][cursor'[u].i].key
    <3>1. CASE u = t
      <4>1. k # NoKey /\ old \in Caller /\ cursor'[t].moving = old /\ cursor'[t].i = i
        BY <1>2, <1>9, <2>2, <3>1
      <4>2. arrays'[from][i].key = k /\ arrays'[from][i].value = Migrated
        BY <1>1, <1>3
      <4>3. \A s \in Slots(from + 1) : arrays[from + 1][s].key # k
        BY <1>1, <1>5, <4>1, NotMovedYet
      <4>4. \A s \in Slots(from + 1) : arrays'[from + 1][s].key # k
        BY <1>1, <1>3, <4>3
      <4>. QED  BY <3>1, <4>1, <4>2, <4>4
    <3>2. CASE u # t
      <4>1. where[u] = "move" /\ cursor'[u] = cursor[u]
        BY <1>2, <2>2, <3>2
      <4>. PICK j \in Slots(from) : j = cursor[u].i
        BY <4>1, WorkerIs DEF Working
      <4>2. /\ cursor[u].moving \in Caller /\ arrays[from][j].key # NoKey /\ arrays[from][j].value = Migrated
            /\ \A s \in Slots(from + 1) : arrays[from + 1][s].key # arrays[from][j].key
        BY <1>0, <1>1, <4>1, Zenon DEF MovedInv
      <4>3. arrays'[from][j].key = arrays[from][j].key /\ arrays'[from][j].value = Migrated
        BY <1>1, <1>3, <4>2
      <4>4. \A s \in Slots(from + 1) : arrays'[from + 1][s].key # arrays[from][j].key
        BY <1>1, <1>3, <4>2
      <4>. QED  BY <4>1, <4>2, <4>3, <4>4
    <3>. QED  BY <3>1, <3>2
  <2>. QED  BY <2>1, <2>2 DEF MovedInv
<1>11. HeldGrow
  <2>. SUFFICES ASSUME NEW g \in Key, NEW v \in Caller, Holds(g, v) PROVE Holds(g, v)'
    BY DEF HeldGrow
  <2>1. CASE \E b \in 1..Arrays : \E q \in Slots(b) : arrays[b][q].key = g /\ arrays[b][q].value = v
    <3>. PICK b \in 1..Arrays : \E q \in Slots(b) : arrays[b][q].key = g /\ arrays[b][q].value = v
      BY <2>1
    <3>. PICK q \in Slots(b) : arrays[b][q].key = g /\ arrays[b][q].value = v
      OBVIOUS
    <3>1. CASE b = from /\ q = i
      <4>1. old = v /\ k = g /\ old # NoValue
        BY <3>1, ValuesDiffer
      <4>2. where'[t] = "move" /\ cursor'[t].moving = v /\ cursor'[t].i = i
        BY <1>2, <4>1
      <4>3. arrays'[from][i].key = g
        BY <1>1, <1>3, <4>1
      <4>. QED  BY <4>2, <4>3 DEF Holds
    <3>2. CASE ~(b = from /\ q = i)
      <4>1. arrays'[b][q].key = g /\ arrays'[b][q].value = v
        BY <1>3, <3>2
      <4>. QED  BY <4>1 DEF Holds
    <3>. QED  BY <3>1, <3>2
  <2>2. CASE \E u \in Caller : /\ where[u] = "move" /\ arrays[from][cursor[u].i].key = g
                               /\ cursor[u].moving = v
    <3>. PICK u \in Caller : where[u] = "move" /\ arrays[from][cursor[u].i].key = g /\ cursor[u].moving = v
      BY <2>2
    <3>1. where'[u] = "move" /\ cursor'[u] = cursor[u]
      BY <1>2
    <3>. PICK j \in Slots(from) : j = cursor[u].i
      BY WorkerIs DEF Working
    <3>2. arrays'[from][j].key = g
      BY <1>1, <1>3
    <3>. QED  BY <3>1, <3>2 DEF Holds
  <2>. QED  BY <2>1, <2>2, Zenon DEF Holds
<1>12. where[t] # "done" /\ where'[t] \notin {"probe", "value", "done"}
  BY <1>2
<1>. QED  BY <1>2, <1>4, <1>6, <1>7, <1>8, <1>10, <1>11, <1>12, HelpStep

\* A helper's step to its next slot or its next task.
LEMMA NextSlotIs ==
  ASSUME MapTypes, NEW t \in Caller, NextSlot(t)
  PROVE  \E l \in {"exchange", "take"} :
           /\ where' = [where EXCEPT ![t] = l]
           /\ l = IF cursor[t].i + 1 < cursor[t].end THEN "exchange" ELSE "take"
           /\ cursor' \in [Caller -> Cursor] /\ cursor'[t].i = cursor[t].i + 1
           /\ cursor'[t].end = cursor[t].end /\ cursor'[t].value = cursor[t].value
           /\ \A u \in Caller : u # t => cursor'[u] = cursor[u]
<1>. PICK i \in Nat : i = cursor[t].i + 1
  BY DEF MapTypes, Cursor
<1>1. cursor[t] \in Cursor /\ cursor \in [Caller -> Cursor]
  BY DEF MapTypes
<1>. PICK c : c = [cursor[t] EXCEPT !.i = i]
  OBVIOUS
<1>2. c \in Cursor /\ c.i = i /\ c.end = cursor[t].end /\ c.value = cursor[t].value
  BY <1>1 DEF Cursor
<1>3. cursor' = [cursor EXCEPT ![t] = c]
  BY DEF NextSlot
<1>. PICK l : l = IF cursor[t].i + 1 < cursor[t].end THEN "exchange" ELSE "take"
  OBVIOUS
<1>4. where' = [where EXCEPT ![t] = l] /\ l \in {"exchange", "take"}
  BY DEF NextSlot, GoOn
<1>5. /\ cursor' \in [Caller -> Cursor] /\ cursor'[t] = c
      /\ \A u \in Caller : u # t => cursor'[u] = cursor[u]
  BY <1>1, <1>2, <1>3
<1>. QED  BY <1>2, <1>4, <1>5

\* The exchange of one slot's value for the mark keeps the invariant.
LEMMA ExchangeKeeps == ASSUME MapInv, NEW t \in Caller, Exchange(t) PROVE MapInv'
<1>0. /\ MapTypes /\ where[t] = "exchange" /\ CloseSlot(t)
      /\ UNCHANGED <<current, from, position, helpers, generation, call, result, known>>
  BY DEF MapInv, Exchange, Private
<1>1. from \in 1..Arrays /\ cursor[t].i \in Slots(from)
  BY <1>0, WorkerIs DEF Working
<1>. PICK old : old = arrays[from][cursor[t].i].value
  OBVIOUS
<1>2. CASE old = NoValue
  <2>1. NextSlot(t)
    BY <1>2 DEF Exchange
  <2>. PICK l \in {"exchange", "take"} :
           /\ where' = [where EXCEPT ![t] = l]
           /\ l = IF cursor[t].i + 1 < cursor[t].end THEN "exchange" ELSE "take"
           /\ cursor' \in [Caller -> Cursor] /\ cursor'[t].i = cursor[t].i + 1
           /\ cursor'[t].end = cursor[t].end /\ cursor'[t].value = cursor[t].value
           /\ \A u \in Caller : u # t => cursor'[u] = cursor[u]
    BY <1>0, <2>1, NextSlotIs
  <2>. QED  BY <1>0, <1>2, CloseKeeps
<1>3. CASE old # NoValue
  <2>1. cursor' = [cursor EXCEPT ![t].moving = old] /\ where' = [where EXCEPT ![t] = "move"]
    BY <1>3 DEF Exchange, GoOn
  <2>2. old \in Caller
    <3>1. old # Migrated
      <4>1. /\ TasksInv /\ EntriesInv /\ Working(t) /\ Top = from
        BY <1>0, WorkerIs DEF MapInv, Working
      <4>. PICK i \in Slots(from) : i = cursor[t].i
        BY <1>1
      <4>2. Mine(t, i)
        <5>1. i < cursor[t].end
          BY <4>1 DEF TasksInv
        <5>2. i \in Int
          BY DEF Slots
        <5>. QED  BY <1>0, <5>1, <5>2 DEF Mine
      <4>3. Open(i)
        BY <4>2 DEF Open, Pending
      <4>. QED  BY <1>1, <4>1, <4>3 DEF EntriesInv
    <3>2. old \in Caller \cup {NoValue, Migrated}
      BY <1>0, <1>1 DEF MapTypes, Entry
    <3>. QED  BY <1>3, <3>1, <3>2
  <2>3. cursor[t] \in Cursor /\ cursor \in [Caller -> Cursor]
    BY <1>0 DEF MapTypes
  <2>. PICK c : c = [cursor[t] EXCEPT !.moving = old]
    OBVIOUS
  <2>4. c \in Cursor /\ c.i = cursor[t].i /\ c.end = cursor[t].end /\ c.value = cursor[t].value /\ c.moving = old
    BY <2>2, <2>3 DEF Cursor
  <2>5. cursor' = [cursor EXCEPT ![t] = c]
    BY <2>1
  <2>6. /\ cursor' \in [Caller -> Cursor] /\ cursor'[t] = c
        /\ \A u \in Caller : u # t => cursor'[u] = cursor[u]
    BY <2>3, <2>4, <2>5
  <2>. QED  BY <1>0, <1>3, <2>1, <2>4, <2>6, CloseKeeps, ZenonT(40)
<1>. QED  BY <1>2, <1>3

\* There are n numbers from 0 to n - 1.
LEMMA UpTo == ASSUME NEW n \in Nat PROVE IsFiniteSet(0..n - 1) /\ Cardinality(0..n - 1) = n
<1>1. n - 1 \in Int /\ 0 \in Int
  OBVIOUS
<1>. QED  BY <1>1, FS_Interval

\* The new array is never full: there are twice as many slots in it, and what it
\* has came from one slot each of the old one.
LEMMA NoOverflow ==
  ASSUME Whole, MapInv, NEW t \in Caller, where[t] = "move", NEW k \in Key,
         k = arrays[from][cursor[t].i].key
  PROVE  \E j \in 0..Probes(from + 1) - 1 : Takes(from + 1, k, j)
<1>. SUFFICES ASSUME \A j \in 0..Probes(from + 1) - 1 : ~Takes(from + 1, k, j) PROVE FALSE
  OBVIOUS
<1>0. MapTypes /\ KeysInv /\ MovedInv
  BY DEF MapInv
<1>1. from # 0 /\ from \in 1..Arrays /\ from + 1 \in 1..Arrays /\ from \in 1..Arrays - 1
  BY WorkerIs DEF Working
<1>. PICK n \in Nat, to \in 1..Arrays :
       n = Length[from] /\ to = from + 1 /\ Length[to] = n + n /\ Probes(to) = n + n /\ n > 0
  BY <1>1, LengthsAre DEF Whole
<1>. PICK m \in Nat : m = n + n /\ m = Length[to] /\ m = Probes(to)
  OBVIOUS
<1>. DEFINE Indices == 0..m - 1
            f == [j \in Indices |-> CHOOSE r \in 0..n - 1 : arrays[from][r].key = arrays[to][Probed(to, k, j)].key]
<1>2. /\ \A j \in Indices : Probed(to, k, j) \in Slots(to)
      /\ \A i, j \in Indices : Probed(to, k, i) = Probed(to, k, j) => i = j
  <2>1. k \in Nat /\ \A j \in Indices : j \in Nat
    BY ValuesDiffer
  <2>. QED  BY <2>1, ProbedIs
<1>3. \A j \in Indices : arrays[to][Probed(to, k, j)].key # NoKey
  BY Zenon DEF Takes
<1>4. \A j \in Indices : \E r \in 0..n - 1 : arrays[from][r].key = arrays[to][Probed(to, k, j)].key
  BY <1>0, <1>1, <1>2, <1>3, Zenon DEF MovedInv, Slots
<1>5. \A j \in Indices : f[j] \in 0..n - 1 /\ arrays[from][f[j]].key = arrays[to][Probed(to, k, j)].key
  BY <1>4, Zenon
<1>6. f \in [Indices -> 0..n - 1]
  BY <1>5, Zenon
<1>7. /\ IsFiniteSet(Indices) /\ Cardinality(Indices) = m
      /\ IsFiniteSet(0..n - 1) /\ Cardinality(0..n - 1) = n
  <2>. HIDE DEF f
  <2>. QED  BY UpTo
<1>11. Cardinality(0..n - 1) < Cardinality(Indices)
  BY <1>7
<1>. HIDE DEF f, Indices
<1>8. \E i, j \in Indices : i # j /\ f[i] = f[j]
  BY <1>6, <1>7, <1>11, FS_PigeonHole
<1>. PICK i \in Indices, j \in Indices : i # j /\ f[i] = f[j]
  BY <1>8
<1>9. arrays[to][Probed(to, k, i)].key = arrays[to][Probed(to, k, j)].key
  BY <1>5
<1>10. Probed(to, k, i) = Probed(to, k, j)
  BY <1>0, <1>2, <1>3, <1>9, KeyOnce, Zenon
<1>. QED  BY <1>2, <1>10

\* What is said of all slots, put together again after a step.
LEMMA EntriesFrom ==
  ASSUME Top' = Top, UNCHANGED from,
         \A b \in 1..Arrays : \A q \in Slots(b) :
           /\ arrays'[b][q].key = NoKey => arrays'[b][q].value \in {NoValue, Migrated}
           /\ b < Top => arrays'[b][q].value = Migrated
           /\ b = Top => (arrays'[b][q].value = Migrated <=> ~Open(q)')
           /\ b > Top => arrays'[b][q].value # Migrated
           /\ b > Top /\ (from = 0 \/ b # from + 1) => arrays'[b][q].key = NoKey
  PROVE  EntriesInv'
BY DEF EntriesInv

\* What is said of the new array, put together again after a step.
LEMMA MovedFrom ==
  ASSUME NEW to, to = from + 1, from # 0, from' = from,
         \A q \in Slots(to) : arrays'[to][q].key # NoKey =>
           /\ arrays'[to][q].value \in Caller
           /\ \E r \in Slots(from) : arrays'[from][r].key = arrays'[to][q].key /\ arrays'[from][r].value = Migrated,
         \A u \in Caller : where'[u] = "move" =>
           /\ cursor'[u].moving \in Caller /\ arrays'[from][cursor'[u].i].key # NoKey
           /\ arrays'[from][cursor'[u].i].value = Migrated
           /\ \A q \in Slots(to) : arrays'[to][q].key # arrays'[from][cursor'[u].i].key
  PROVE  MovedInv'
BY DEF MovedInv

\* A helper puts the value it carries into the j-th slot probed in the new array.
Puts(t, k, j) ==
  /\ where[t] = "move" /\ k = arrays[from][cursor[t].i].key
  /\ Takes(from + 1, k, j) /\ NoneBefore(from + 1, k, j)
  /\ OnlyAt(from + 1, Probed(from + 1, k, j), k, cursor[t].moving) /\ NextSlot(t)
  /\ UNCHANGED <<current, from, position, helpers, generation, call, result, known>>

\* Putting the moved value into the new array keeps the invariant.
LEMMA PlaceKeeps ==
  ASSUME MapInv, NEW t \in Caller, NEW k \in Key, NEW j \in 0..Length[from + 1] - 1, Puts(t, k, j)
  PROVE  MapInv'
<1>0. /\ MapTypes /\ PhaseInv /\ TasksInv /\ EntriesInv /\ KeysInv /\ MovedInv /\ Working(t)
      /\ where[t] = "move"
  BY DEF MapInv, Working, Puts
<1>u. /\ UNCHANGED <<current, from, position, helpers, generation, call, result, known>> /\ from' = from
      /\ NextSlot(t)
  BY DEF Puts
<1>1. from # 0 /\ from \in 1..Arrays /\ Top = from /\ from + 1 \in 1..Arrays /\ cursor[t].i \in Slots(from)
  BY <1>0, WorkerIs
<1>b. PICK to \in 1..Arrays : to = from + 1 /\ to # from /\ to > from
  BY <1>1
<1>c. PICK i \in Slots(from) : i = cursor[t].i
  BY <1>1
<1>d. PICK v : v = cursor[t].moving
  OBVIOUS
<1>16. arrays[from][i].key = k
  BY <1>c DEF Puts
<1>2. /\ v \in Caller /\ arrays[from][i].value = Migrated /\ k # NoKey
      /\ \A s \in Slots(to) : arrays[to][s].key # k
  BY <1>0, <1>1, <1>b, <1>c, <1>d, <1>16, ValuesDiffer DEF MovedInv
<1>e. PICK l \in {"exchange", "take"} :
           /\ where' = [where EXCEPT ![t] = l]
           /\ l = IF cursor[t].i + 1 < cursor[t].end THEN "exchange" ELSE "take"
           /\ cursor' \in [Caller -> Cursor] /\ cursor'[t].i = cursor[t].i + 1
           /\ cursor'[t].end = cursor[t].end /\ cursor'[t].value = cursor[t].value
           /\ \A u \in Caller : u # t => cursor'[u] = cursor[u]
  BY <1>0, <1>u, NextSlotIs
<1>3. /\ PhaseInv' /\ TasksInv' /\ Top' = Top /\ Top \in 1..Top' /\ Top' \in 1..Arrays
      /\ where' \in [Caller -> Stops] /\ where'[t] = l
      /\ \A u \in Caller : u # t => where'[u] = where[u] /\ cursor'[u] = cursor[u]
      /\ \A s \in Slots(from) : Open(s)' <=> Open(s) /\ s # i
  BY <1>0, <1>c, <1>e, <1>u, WorkKeeps, ZenonT(40)
<1>4. \A s \in Slots(from) : Open(s)' <=> Open(s)
  <2>1. ~Open(i)
    BY <1>0, <1>1, <1>2 DEF EntriesInv
  <2>. QED  BY <1>3, <2>1
<1>19. PICK s \in Slots(to) : s = Probed(to, k, j)
  <2>1. k \in Nat /\ j \in Nat
    BY ValuesDiffer, LengthsAre
  <2>. QED  BY <2>1, ProbedIs
<1>5. arrays[to][s].key = NoKey
  BY <1>2, <1>19, <1>b, Zenon DEF Takes, Puts
<1>6. /\ arrays' = [b \in 1..Arrays |-> arrays'[b]]
      /\ \A b \in 1..Arrays : arrays'[b] \in [Slots(b) -> Entry]
      /\ \A b \in 1..Arrays : \A q \in Slots(b) :
           /\ arrays'[b][q].key = IF b = to /\ q = s THEN k ELSE arrays[b][q].key
           /\ arrays'[b][q].value = IF b = to /\ q = s THEN v ELSE arrays[b][q].value
  <2>1. OnlyAt(to, s, k, v)
    BY <1>19, <1>b, <1>d DEF Puts
  <2>. QED  BY <2>1 DEF OnlyAt
<1>7. MapTypes'
  BY <1>0, <1>3, <1>6, <1>e, <1>u DEF MapTypes
<1>8. KeysGrow
  BY <1>5, <1>6 DEF KeysGrow
<1>9. KeysInv'
  <2>1. \A b \in 1..Arrays : \A q \in Slots(b) : arrays'[b][q].key \in Key \cup {NoKey}
    BY <1>6, Zenon DEF Entry
  <2>2. ASSUME NEW b \in 1..Arrays, NEW q \in Slots(b), arrays[b][q].key = NoKey, arrays'[b][q].key # NoKey
        PROVE  \E h \in 0..Length[b] - 1 : /\ q = Probed(b, arrays'[b][q].key, h)
                                           /\ NoneBefore(b, arrays'[b][q].key, h)
    <3>1. b = to /\ q = s /\ arrays'[b][q].key = k
      BY <1>6, <2>2
    <3>. QED  BY <1>19, <1>b, <3>1, Zenon DEF Puts
  <2>. QED  BY <1>0, <1>8, <2>1, <2>2, KeysKeep
<1>10. EntriesInv'
  <2>1. ASSUME NEW b \in 1..Arrays, NEW q \in Slots(b)
        PROVE  /\ arrays'[b][q].key = NoKey => arrays'[b][q].value \in {NoValue, Migrated}
               /\ b < Top => arrays'[b][q].value = Migrated
               /\ b = Top => (arrays'[b][q].value = Migrated <=> ~Open(q)')
               /\ b > Top => arrays'[b][q].value # Migrated
               /\ b > Top /\ (from = 0 \/ b # from + 1) => arrays'[b][q].key = NoKey
    <3>1. CASE b = to /\ q = s
      <4>1. arrays'[b][q].value = v /\ arrays'[b][q].key = k /\ v # Migrated
        BY <1>2, <1>6, <3>1, ValuesDiffer
      <4>2. b = from + 1 /\ ~(b < Top) /\ b # Top
        BY <1>1, <1>b, <3>1
      <4>. QED  BY <1>1, <1>2, <4>1, <4>2
    <3>2. CASE ~(b = to /\ q = s)
      <4>1. arrays'[b][q].key = arrays[b][q].key /\ arrays'[b][q].value = arrays[b][q].value
        BY <1>6, <3>2
      <4>2. b = Top => (Open(q)' <=> Open(q))
        BY <1>1, <1>4
      <4>. QED  BY <1>0, <1>u, <4>1, <4>2 DEF EntriesInv
    <3>. QED  BY <3>1, <3>2
  <2>. QED  BY <1>3, <1>u, <2>1, EntriesFrom
<1>11. /\ \A q \in Slots(from) : /\ arrays'[from][q].key = arrays[from][q].key
                                 /\ arrays'[from][q].value = arrays[from][q].value
       /\ \A q \in Slots(to) : q # s => /\ arrays'[to][q].key = arrays[to][q].key
                                        /\ arrays'[to][q].value = arrays[to][q].value
       /\ arrays'[to][s].key = k /\ arrays'[to][s].value = v
  BY <1>1, <1>6, <1>b
<1>17. arrays'[from][i].key = k /\ arrays'[from][i].value = Migrated
  BY <1>2, <1>11, <1>16
<1>12. MovedInv'
  <2>1. ASSUME NEW q \in Slots(to), arrays'[to][q].key # NoKey
        PROVE  /\ arrays'[to][q].value \in Caller
               /\ \E r \in Slots(from) : arrays'[from][r].key = arrays'[to][q].key /\ arrays'[from][r].value = Migrated
    <3>1. CASE q = s
      <4>1. arrays'[to][q].key = k /\ arrays'[to][q].value = v
        BY <1>11, <3>1
      <4>. QED  BY <1>2, <1>17, <4>1
    <3>2. CASE q # s
      <4>1. arrays[to][q].key # NoKey
        BY <1>11, <2>1, <3>2
      <4>3. PICK r \in Slots(from) : arrays[from][r].key = arrays[to][q].key /\ arrays[from][r].value = Migrated
        BY <1>0, <1>1, <1>b, <4>1 DEF MovedInv
      <4>2. arrays[to][q].value \in Caller
        BY <1>0, <1>1, <1>b, <4>1 DEF MovedInv
      <4>. QED  BY <1>11, <3>2, <4>2, <4>3
    <3>. QED  BY <3>1, <3>2
  <2>2. ASSUME NEW u \in Caller, where'[u] = "move"
        PROVE  /\ cursor'[u].moving \in Caller /\ arrays'[from][cursor'[u].i].key # NoKey
               /\ arrays'[from][cursor'[u].i].value = Migrated
               /\ \A q \in Slots(to) : arrays'[to][q].key # arrays'[from][cursor'[u].i].key
    <3>1. u # t /\ where[u] = "move" /\ cursor'[u] = cursor[u]
      BY <1>3, <2>2
    <3>2. Working(u)
      BY <3>1 DEF Working
    <3>8. PICK h \in Slots(from) : h = cursor[u].i
      BY <3>2, WorkerIs
    <3>3. /\ cursor[u].moving \in Caller /\ arrays[from][h].key # NoKey /\ arrays[from][h].value = Migrated
          /\ \A q \in Slots(to) : arrays[to][q].key # arrays[from][h].key
      BY <1>0, <1>1, <1>b, <3>1, <3>8 DEF MovedInv
    <3>4. h # i
      <4>1. /\ cursor[t].i < cursor[t].end /\ cursor[u].i < cursor[u].end
            /\ cursor[t].end <= cursor[u].i \/ cursor[u].end <= cursor[t].i
        BY <1>0, <3>1, <3>2 DEF TasksInv
      <4>2. cursor[t].i \in Nat /\ cursor[t].end \in Nat /\ cursor[u].end \in Nat
        BY <1>0 DEF MapTypes, Cursor
      <4>. QED  BY <1>c, <3>8, <4>1, <4>2
    <3>5. arrays[from][h].key # k
      BY <1>0, <1>1, <1>16, <3>3, <3>4, KeyOnce
    <3>6. \A q \in Slots(to) : arrays'[to][q].key # arrays[from][h].key
      <4>. TAKE q \in Slots(to)
      <4>1. CASE q = s
        BY <1>11, <3>5, <4>1
      <4>2. CASE q # s
        BY <1>11, <3>3, <4>2
      <4>. QED  BY <4>1, <4>2
    <3>7. arrays'[from][h].key = arrays[from][h].key /\ arrays'[from][h].value = Migrated
      BY <1>11, <3>3
    <3>. QED  BY <3>1, <3>3, <3>6, <3>7, <3>8
  <2>3. \A q \in Slots(to) : arrays'[to][q].key # NoKey =>
           /\ arrays'[to][q].value \in Caller
           /\ \E r \in Slots(from) : arrays'[from][r].key = arrays'[to][q].key /\ arrays'[from][r].value = Migrated
    BY <2>1
  <2>4. \A u \in Caller : where'[u] = "move" =>
           /\ cursor'[u].moving \in Caller /\ arrays'[from][cursor'[u].i].key # NoKey
           /\ arrays'[from][cursor'[u].i].value = Migrated
           /\ \A q \in Slots(to) : arrays'[to][q].key # arrays'[from][cursor'[u].i].key
    BY <2>2
  <2>5. to = from + 1 /\ from' = from
    BY <1>b, <1>u
  <2>. QED  BY <1>1, <2>3, <2>4, <2>5, MovedFrom
<1>13. HeldGrow
  <2>. SUFFICES ASSUME NEW g \in Key, NEW w \in Caller, Holds(g, w) PROVE Holds(g, w)'
    BY DEF HeldGrow
  <2>1. CASE \E b \in 1..Arrays : \E q \in Slots(b) : arrays[b][q].key = g /\ arrays[b][q].value = w
    <3>3. PICK b \in 1..Arrays : \E q \in Slots(b) : arrays[b][q].key = g /\ arrays[b][q].value = w
      BY <2>1
    <3>4. PICK q \in Slots(b) : arrays[b][q].key = g /\ arrays[b][q].value = w
      BY <3>3
    <3>1. ~(b = to /\ q = s)
      BY <1>5, <3>4, ValuesDiffer
    <3>2. arrays'[b][q].key = g /\ arrays'[b][q].value = w
      BY <1>6, <3>1, <3>4
    <3>. QED  BY <3>2 DEF Holds
  <2>2. CASE \E u \in Caller : /\ where[u] = "move" /\ arrays[from][cursor[u].i].key = g
                               /\ cursor[u].moving = w
    <3>5. PICK u \in Caller : where[u] = "move" /\ arrays[from][cursor[u].i].key = g /\ cursor[u].moving = w
      BY <2>2
    <3>1. CASE u = t
      <4>1. arrays'[to][s].key = g /\ arrays'[to][s].value = w
        BY <1>11, <1>16, <1>c, <1>d, <3>1, <3>5
      <4>. QED  BY <4>1 DEF Holds
    <3>2. CASE u # t
      <4>1. where'[u] = "move" /\ cursor'[u] = cursor[u]
        BY <1>3, <3>2, <3>5
      <4>3. PICK h \in Slots(from) : h = cursor[u].i
        BY <3>5, WorkerIs DEF Working
      <4>2. arrays'[from][h].key = g
        BY <1>11, <3>5, <4>3
      <4>. QED  BY <1>u, <3>5, <4>1, <4>2, <4>3 DEF Holds
    <3>. QED  BY <3>1, <3>2
  <2>. QED  BY <2>1, <2>2 DEF Holds
<1>14. where[t] # "done" /\ where'[t] \notin {"probe", "value", "done"}
  BY <1>0, <1>3, <1>e
<1>. QED  BY <1>3, <1>7, <1>8, <1>9, <1>10, <1>12, <1>13, <1>14, <1>0, <1>e, <1>u, HelpStep

\* A helper's insertion into the new array keeps the invariant: it finds a slot.
LEMMA MoveKeeps == ASSUME Whole, MapInv, NEW t \in Caller, Move(t) PROVE MapInv'
<1>0. /\ MapTypes /\ MovedInv /\ where[t] = "move"
      /\ UNCHANGED <<current, from, position, helpers, generation, call, result, known>>
  BY Zenon DEF MapInv, Move, Private
<1>1. from # 0 /\ from \in 1..Arrays /\ from + 1 \in 1..Arrays /\ cursor[t].i \in Slots(from)
  BY <1>0, WorkerIs DEF Working
<1>8. PICK k \in Key : k = arrays[from][cursor[t].i].key
  <2>1. arrays[from][cursor[t].i].key \in Key \cup {NoKey}
    BY <1>0, <1>1 DEF MapTypes, Entry
  <2>2. arrays[from][cursor[t].i].key # NoKey
    BY <1>0, <1>1 DEF MovedInv
  <2>. QED  BY <2>1, <2>2
<1>2. Probes(from + 1) = Length[from + 1]
  BY <1>1 DEF Whole
<1>3. \E j \in 0..Probes(from + 1) - 1 : Takes(from + 1, k, j)
  BY <1>0, <1>8, NoOverflow
<1>4. \E j \in 0..Probes(from + 1) - 1 :
             /\ Takes(from + 1, k, j) /\ \A h \in 0..j - 1 : ~Takes(from + 1, k, h)
             /\ arrays' = [arrays EXCEPT ![from + 1][Probed(from + 1, k, j)] =
                              [key |-> k, value |-> cursor[t].moving]]
             /\ NextSlot(t)
  BY <1>3, <1>8, Zenon DEF Move
<1>9. PICK j \in 0..Length[from + 1] - 1 :
             /\ Takes(from + 1, k, j) /\ \A h \in 0..j - 1 : ~Takes(from + 1, k, h)
             /\ arrays' = [arrays EXCEPT ![from + 1][Probed(from + 1, k, j)] =
                              [key |-> k, value |-> cursor[t].moving]]
             /\ NextSlot(t)
  BY <1>2, <1>4
<1>5. NoneBefore(from + 1, k, j)
  BY <1>9 DEF NoneBefore
<1>6. OnlyAt(from + 1, Probed(from + 1, k, j), k, cursor[t].moving)
  <2>1. cursor[t].moving \in Caller
    BY <1>0, <1>1 DEF MovedInv
  <2>2. k \in Nat /\ j \in Nat
    BY <1>1, ValuesDiffer, LengthsAre
  <2>3. Probed(from + 1, k, j) \in Slots(from + 1)
    BY <1>1, <2>2, ProbedIs, Zenon
  <2>. QED  BY <1>0, <1>1, <1>9, <2>1, <2>3, PutBoth
<1>7. Puts(t, k, j)
  BY <1>0, <1>5, <1>6, <1>8, <1>9, Zenon DEF Puts
<1>. QED  BY <1>7, PlaceKeeps

\* Leaving a migration keeps the invariant; the last to leave makes the new array current,
\* and by then every slot of the old one is moved.
LEMMA LeaveKeeps == ASSUME MapInv, NEW t \in Caller, Leave(t) PROVE MapInv'
<1>0. /\ MapTypes /\ PhaseInv /\ TasksInv /\ EntriesInv /\ KeysInv /\ MovedInv /\ where[t] = "leave"
      /\ helpers' = helpers - 1 /\ where' = [where EXCEPT ![t] = "wait"]
      /\ UNCHANGED <<arrays, position, cursor, call, result, known>>
      /\ IF helpers' = 0
         THEN current' = from + 1 /\ from' = 0 /\ generation' = generation + 1
         ELSE UNCHANGED <<current, from, generation>>
  BY DEF MapInv, Leave, Private, GoOn
<1>1. from # 0 /\ from \in 1..Arrays /\ from + 1 \in 1..Arrays /\ Top = from /\ current = 0
  BY <1>0, LengthsAre DEF PhaseInv, Helping, MapTypes, Top
<1>2. /\ where' \in [Caller -> Stops] /\ where'[t] = "wait" /\ \A u \in Caller : u # t => where'[u] = where[u]
  BY <1>0 DEF MapTypes, Stops
<1>3. /\ \A u \in Caller : u # t => Helping(u)' = Helping(u)
      /\ Helping(t) /\ ~Helping(t)' /\ ~Working(t) /\ ~Working(t)'
      /\ \A u \in Caller : Working(u)' = Working(u) /\ (where'[u] = "leave" => where[u] = "leave")
  BY <1>0, <1>2 DEF Helping, Working
<1>. PICK n : n = Cardinality({u \in Caller : Helping(u)})
  OBVIOUS
<1>. PICK m : m = Cardinality({u \in Caller : Helping(u)}')
  OBVIOUS
<1>4. /\ m = n - 1 /\ n \in Nat /\ n > 0 /\ n = helpers
      /\ m = 0 => \A u \in Caller : ~Helping(u)'
  <2>1. n = helpers
    BY <1>0 DEF PhaseInv
  <2>. QED  BY <1>3, <2>1, HelpersLess
<1>5. helpers' = m /\ m \in Nat
  BY <1>0, <1>4
<1>6. MapTypes'
  <2>1. /\ arrays' = [a \in 1..Arrays |-> arrays'[a]]
        /\ \A a \in 1..Arrays : arrays'[a] \in [Slots(a) -> Entry]
    BY <1>0 DEF MapTypes
  <2>2. current' \in 0..Arrays /\ generation' \in Nat /\ from' \in 0..Arrays - 1
    BY <1>0, <1>1, LengthsAre DEF MapTypes
  <2>3. /\ call' \in [Caller -> [kind : {"insert", "find"}, key : Key]] /\ position' \in Nat
        /\ cursor' \in [Caller -> Cursor]
        /\ result' \in [Caller -> Seen] /\ known' \in [Caller -> SUBSET Caller]
    BY <1>0 DEF MapTypes
  <2>. QED  BY <1>2, <1>5, <2>1, <2>2, <2>3 DEF MapTypes
<1>7. \A u \in Caller : u # t => where'[u] = where[u] /\ cursor'[u] = cursor[u]
  BY <1>0, <1>2
<1>8. cursor'[t].value = cursor[t].value /\ where[t] # "done" /\ where'[t] \notin {"probe", "value", "done"}
  BY <1>0, <1>2
<1>9. CASE helpers' # 0
  <2>1. UNCHANGED <<current, from>>
    BY <1>0, <1>9
  <2>2. PhaseInv'
    <3>1. helpers' = Cardinality({u \in Caller : Helping(u)}')
      BY <1>5
    <3>. QED  BY <1>1, <2>1, <3>1 DEF PhaseInv
  <2>3. TasksInv'
    BY <1>0, <1>3, <2>1 DEF TasksInv
  <2>4. Top' = Top /\ \A s \in Slots(Top) : Open(s)' = Open(s)
    <3>1. \A s : \A u \in Caller : Mine(u, s)' = Mine(u, s)
      BY <1>0, <1>2 DEF Mine
    <3>. QED  BY <1>0, <2>1, <3>1 DEF Open, Pending, Top
  <2>5. \A u \in Caller : /\ where'[u] = "move" <=> where[u] = "move"
                          /\ where[u] = "move" => cursor'[u] = cursor[u]
    BY <1>0, <1>2
  <2>6. EntriesInv' /\ KeysInv' /\ MovedInv' /\ KeysGrow /\ HeldGrow
    BY <1>0, <2>1, <2>4, <2>5, EntriesKeep
  <2>7. Top \in 1..Top' /\ Top' \in 1..Arrays
    BY <1>1, <2>4, LengthsAre
  <2>. QED  BY <1>0, <1>6, <1>7, <1>8, <2>2, <2>3, <2>6, <2>7, HelpStep
<1>10. CASE helpers' = 0
  <2>1. current' = from + 1 /\ from' = 0 /\ Top' = from + 1
    BY <1>0, <1>10 DEF Top
  <2>2. \A u \in Caller : ~Helping(u)' /\ ~Working(u) /\ ~Working(u)' /\ where[u] # "move"
                          /\ where'[u] \notin {"move", "leave"}
    <3>1. \A u \in Caller : ~Helping(u)'
      BY <1>4, <1>5, <1>10
    <3>2. \A u \in Caller : u # t => where[u] \notin {"move", "exchange", "leave"}
      BY <1>2, <3>1 DEF Helping
    <3>. QED  BY <1>0, <1>2, <3>1, <3>2 DEF Working
  <2>3. PhaseInv'
    <3>1. helpers' = Cardinality({u \in Caller : Helping(u)}')
      BY <1>5
    <3>. QED  BY <1>1, <2>1, <2>2, <3>1, LengthsAre DEF PhaseInv
  <2>4. TasksInv'
    BY <2>2 DEF TasksInv
  <2>5. \A s \in Slots(from) : arrays[from][s].value = Migrated
    <3>. TAKE s \in Slots(from)
    <3>1. ~(s >= position * Chunk)
      <4>. PICK b \in Nat : b = position * Chunk
        BY <1>0, LengthsAre, NextTask DEF MapTypes
      <4>1. b >= Length[from] /\ Length[from] \in Nat
        BY <1>0, <1>1, LengthsAre DEF TasksInv
      <4>. QED  BY <4>1 DEF Slots
    <3>2. \A u \in Caller : ~Mine(u, s)
      BY <2>2 DEF Mine, Working
    <3>3. ~Open(s)
      BY <1>1, <3>1, <3>2 DEF Open, Pending
    <3>. QED  BY <1>0, <1>1, <3>3 DEF EntriesInv
  <2>6. EntriesInv'
    <3>. SUFFICES ASSUME NEW a \in 1..Arrays, NEW s \in Slots(a)
                  PROVE  /\ arrays[a][s].key = NoKey => arrays[a][s].value \in {NoValue, Migrated}
                         /\ a < from + 1 => arrays[a][s].value = Migrated
                         /\ a >= from + 1 => arrays[a][s].value # Migrated
                         /\ a > from + 1 => arrays[a][s].key = NoKey
      <4>1. \A s \in Slots(from + 1) : Open(s)'
        BY <2>1 DEF Open
      <4>2. \A a \in 1..Arrays : a = Top' => a >= from + 1
        BY <1>1, <2>1
      <4>3. \A a \in 1..Arrays : a > Top' => a > from + 1 /\ a >= from + 1
        BY <1>1, <2>1
      <4>. QED  BY <1>0, <2>1, <4>1, <4>2, <4>3 DEF EntriesInv
    <3>0. /\ arrays[a][s].key = NoKey => arrays[a][s].value \in {NoValue, Migrated}
          /\ a < from => arrays[a][s].value = Migrated
          /\ a > from => arrays[a][s].value # Migrated
          /\ a > from /\ a # from + 1 => arrays[a][s].key = NoKey
      BY <1>0, <1>1 DEF EntriesInv
    <3>1. a < from + 1 => a < from \/ a = from
      BY <1>1
    <3>2. (a >= from + 1 => a > from) /\ (a > from + 1 => a > from /\ a # from + 1)
      BY <1>1
    <3>. QED  BY <2>5, <3>0, <3>1, <3>2
  <2>7. KeysInv' /\ KeysGrow
    BY <1>0 DEF KeysInv, KeysGrow, NoneBefore, Takes
  <2>8. MovedInv'
    BY <2>1 DEF MovedInv
  <2>9. HeldGrow
    BY <1>0, <2>2 DEF HeldGrow, Holds
  <2>10. Top \in 1..Top' /\ Top' \in 1..Arrays
    BY <1>1, <2>1, LengthsAre
  <2>. QED  BY <1>0, <1>6, <1>7, <1>8, <2>3, <2>4, <2>6, <2>7, <2>8, <2>9, <2>10, HelpStep
<1>. QED  BY <1>9, <1>10

\* A stuttering step keeps the invariant.
LEMMA MapStays == MapInv /\ UNCHANGED mapVars => MapInv'
<1>. SUFFICES ASSUME MapInv, UNCHANGED mapVars PROVE MapInv'
  OBVIOUS
<1>1. UNCHANGED <<arrays, current, from, position, helpers, generation, call, where, cursor, result, known>>
  BY DEF mapVars, table
<1>2. MapTypes' /\ PhaseInv'
  BY <1>1 DEF MapInv, MapTypes, PhaseInv, Helping
<1>3. TasksInv'
  BY <1>1 DEF MapInv, TasksInv, Working
<1>4. /\ Top' = Top /\ \A s \in Slots(Top) : Open(s)' = Open(s)
      /\ \A u \in Caller : /\ where'[u] = "move" <=> where[u] = "move"
                           /\ where[u] = "move" => cursor'[u] = cursor[u]
  BY <1>1 DEF Top, Open, Pending, Mine
<1>5. EntriesInv' /\ KeysInv' /\ MovedInv' /\ KeysGrow /\ HeldGrow
  BY <1>1, <1>4, EntriesKeep
<1>6. CursorsInv'
  BY <1>1 DEF MapInv, CursorsInv, CursorOk, Top, NoneBefore, Takes, AtSlot
<1>7. \A k, v : Holds(k, v)' = Holds(k, v)
  BY <1>1 DEF Holds
<1>8. ResultsInv'
  BY <1>1 DEF MapInv, ResultsInv, ResultOk, Holds
<1>. QED  BY <1>2, <1>3, <1>5, <1>6, <1>8 DEF MapInv

\* Every step of the map keeps the invariant, one action at a time.
THEOREM MapStepInv == Whole /\ MapInv /\ [MapNext]_mapVars => MapInv'
<1>. SUFFICES ASSUME Whole, MapInv, [MapNext]_mapVars PROVE MapInv'
  OBVIOUS
<1>1. CASE UNCHANGED mapVars
  BY <1>1, MapStays
<1>2. ASSUME NEW t \in Caller, MapStep(t) PROVE MapInv'
  <2>1. CASE BeginCall(t)       BY <2>1, BeginCallKeeps
  <2>2. CASE Protect(t)         BY <2>2, ProtectKeeps
  <2>3. CASE Probe(t)           BY <2>3, ProbeKeeps
  <2>4. CASE InsertValue(t)     BY <2>4, InsertValueKeeps
  <2>5. CASE FindValue(t)       BY <2>5, FindValueKeeps
  <2>6. CASE EnterMigration(t)  BY <2>6, EnterMigrationKeeps
  <2>7. CASE TakeTask(t)        BY <2>7, TakeTaskKeeps
  <2>8. CASE Exchange(t)        BY <2>8, ExchangeKeeps
  <2>9. CASE Move(t)            BY <2>9, MoveKeeps
  <2>10. CASE Leave(t)          BY <2>10, LeaveKeeps
  <2>11. CASE Wait(t)           BY <2>11, WaitKeeps
  <2>. QED  BY <1>2, <2>1, <2>2, <2>3, <2>4, <2>5, <2>6, <2>7, <2>8, <2>9, <2>10, <2>11 DEF MapStep
<1>. QED  BY <1>1, <1>2 DEF MapNext, MapFinished

\* If a search reaches every slot of an array, the inductive invariant holds in every state
\* of the map, for any number of callers, keys, arrays and slots in a task (AtomicHashArray,
\* ConcurrentHashMap::insert, find, migrate).
THEOREM MapInvAlways == Whole => (MapSpec => []MapInv)
<1>. SUFFICES ASSUME Whole PROVE MapSpec => []MapInv
  OBVIOUS
<1>1. MapInv /\ [MapNext]_mapVars => MapInv'
  BY MapStepInv
<1>. QED  BY <1>1, MapInitInv, PTL DEF MapSpec

\* Arrays of no more slots than with_value always looks at, 300 in the code, are searched whole.
LEMMA WindowSuffices == (\A a \in 1..Arrays : Length[a] <= Window) => Whole
<1>. SUFFICES ASSUME \A a \in 1..Arrays : Length[a] <= Window, NEW a \in 1..Arrays
              PROVE  Probes(a) = Length[a]
  BY DEF Whole
<1>1. Length[a] \in Nat /\ Length[a] > 0 /\ Window \in Nat /\ Length[a] <= Window
  BY LengthsAre, MapAssumption
<1>. PICK part : part = Length[a] \div 16 + 2
  OBVIOUS
<1>2. part \in Nat
  BY <1>1
<1>3. Probes(a) = Least(IF part > Window THEN part ELSE Window, Length[a])
  BY DEF Probes
<1>. QED  BY <1>1, <1>2, <1>3 DEF Least

\* In every state of a map whose arrays are searched whole: a key keeps the value it got
\* first across migrations, all inserts of it return that one, and so does a find that
\* begins later; and no migration overflows (AtomicHashArray, ConcurrentHashMap).  Where
\* arrays are larger than the window, a migration can overflow, and this does not hold.
THEOREM ValuesAreKeptAlways == Whole => (MapSpec => []ValuesAreKept)
<1>. SUFFICES ASSUME Whole PROVE MapSpec => []ValuesAreKept
  OBVIOUS
<1>. QED  BY MapInvAlways, MapInvImplies, PTL
=============================================================================

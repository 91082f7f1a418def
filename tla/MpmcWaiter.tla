----------------------------- MODULE MpmcWaiter -----------------------------
(***************************************************************************)
(* MpmcSleepyWaiter (mrxutils/mrx/utils/MpmcWaiter.h), by which the        *)
(* workers of a queue sleep while there is nothing to do, and the threads  *)
(* that use it as test/MpmcWaiter.cpp (test_waiter_stress) does: producers *)
(* add work and call notify, workers look for work, call wait when there   *)
(* is none and stop_wait before they do some.                              *)
(*                                                                         *)
(* A step is one access to state_ or one critical section of               *)
(* sleepers_mutex_; the section of notify, in which state_ is read and     *)
(* changed later, is two.  state_ holds the two counters searching and     *)
(* parked, which one atomic operation changes together.                    *)
(***************************************************************************)
EXTENDS WaiterClient

VARIABLES searching, parked,  \* state_
          sleepers,           \* sleepers_
          owner,              \* who holds sleepers_mutex_ between two steps
          slot,               \* Slot::state_ of each worker
          unpark_flag         \* Slot::unpark_flag_

counters == <<searching, parked>>
vars == <<counters, sleepers, owner, slot, unpark_flag, work, pc>>

Init ==
  /\ searching = 0 /\ parked = 0
  /\ sleepers = <<>> /\ owner = NoThread
  /\ slot = [w \in Worker |-> "Work"]
  /\ unpark_flag = [w \in Worker |-> FALSE]
  /\ ClientInit

Enters(w, state) == slot' = [slot EXCEPT ![w] = state]
-----------------------------------------------------------------------------
\* Mutants: the last to search does not look again before it sleeps; stop_wait
\* does not pass the search on.
SearchAgainNever(n) == FALSE
PassOnNever(n) == FALSE

\* should_search of wait and should_notify of stop_wait: nobody else searches.
SearchAgain(n) == n = 1
PassOn(n) == n = 1

\* wait in state Work.
StartSearch(w) ==
  /\ pc[w] = "wait" /\ slot[w] = "Work"
  /\ searching' = searching + 1
  /\ Enters(w, "Search") /\ Goto(w, "look")
  /\ UNCHANGED <<parked, sleepers, owner, unpark_flag, work>>

\* wait in state Search: the worker is entered among the sleepers, and parks or
\* looks once more first.
FallAsleep(w) ==
  /\ pc[w] = "wait" /\ slot[w] = "Search"
  /\ owner = NoThread
  /\ searching' = searching - 1 /\ parked' = parked + 1
  /\ sleepers' = Append(sleepers, w)
  /\ Enters(w, "Sleep")
  /\ Goto(w, IF searching = 0 \/ unpark_flag[w] THEN "aborted"
             ELSE IF SearchAgain(searching) THEN "look" ELSE "wait")
  /\ UNCHANGED <<owner, unpark_flag, work>>

\* park, which returns once the flag is set.
Park(w) ==
  /\ pc[w] = "wait" /\ slot[w] = "Sleep"
  /\ unpark_flag[w]
  /\ unpark_flag' = [unpark_flag EXCEPT ![w] = FALSE]
  /\ Enters(w, "Search") /\ Goto(w, "look")
  /\ UNCHANGED <<counters, sleepers, owner, work>>

\* Mutant: the worker that found work on its last look stays among the sleepers.
StaysAmongSleepers(w) == sleepers

WithoutSleeper(w) ==
  LET place == CHOOSE i \in DOMAIN sleepers : sleepers[i] = w IN
    [i \in 1..Len(sleepers) - 1 |-> sleepers[IF i < place THEN i ELSE i + 1]]

\* stop_wait of a worker that found work on its last look: it is taken back from
\* the sleepers, or cancels the unpark it was just given.
StopSleep(w) ==
  /\ pc[w] = "stop" /\ slot[w] = "Sleep"
  /\ owner = NoThread
  /\ IF \E i \in DOMAIN sleepers : sleepers[i] = w
     THEN /\ sleepers' = WithoutSleeper(w)
          /\ searching' = searching + 1 /\ parked' = parked - 1
          /\ UNCHANGED <<unpark_flag, pc>>
     ELSE /\ unpark_flag' = [unpark_flag EXCEPT ![w] = FALSE]
          /\ IF unpark_flag[w] THEN UNCHANGED pc ELSE Goto(w, "aborted")
          /\ UNCHANGED <<sleepers, counters>>
  /\ Enters(w, "Search")
  /\ UNCHANGED <<owner, work>>

\* stop_wait from Search on: the last to search calls notify.
StopSearch(w) ==
  /\ pc[w] = "stop" /\ slot[w] = "Search"
  /\ searching' = searching - 1
  /\ IF searching = 0
     THEN Goto(w, "aborted") /\ UNCHANGED slot
     ELSE IF PassOn(searching)
     THEN Goto(w, "notify") /\ UNCHANGED slot
     ELSE Goto(w, AfterNotify(w)) /\ Enters(w, "Work")
  /\ UNCHANGED <<parked, sleepers, owner, unpark_flag, work>>

\* stop_wait of a worker that has not searched.
StopWork(w) ==
  /\ pc[w] = "stop" /\ slot[w] = "Work"
  /\ Goto(w, AfterNotify(w))
  /\ UNCHANGED <<counters, sleepers, owner, slot, unpark_flag, work>>
-----------------------------------------------------------------------------
\* notify returns; a worker called it at the end of stop_wait.
Return(t) ==
  /\ Goto(t, AfterNotify(t))
  /\ IF t \in Worker THEN Enters(t, "Work") ELSE UNCHANGED slot

\* notify looks at state_ without the lock first.
Notify(t) ==
  /\ pc[t] = "notify"
  /\ IF searching > 0 \/ parked = 0
     THEN Return(t)
     ELSE Goto(t, "lock") /\ UNCHANGED slot
  /\ UNCHANGED <<counters, sleepers, owner, unpark_flag, work>>

\* Taking a mutex drains the store buffer.
LockSleepers(t) ==
  /\ pc[t] = "lock" /\ owner = NoThread
  /\ Fenced(t)
  /\ IF searching > 0 \/ (parked = Len(sleepers) /\ sleepers = <<>>)
     THEN Return(t) /\ UNCHANGED owner
     ELSE IF parked = Len(sleepers)
     THEN Goto(t, "wake") /\ owner' = t /\ UNCHANGED slot
     ELSE Goto(t, "aborted") /\ UNCHANGED <<owner, slot>>
  /\ UNCHANGED <<counters, sleepers, unpark_flag, work>>

Wake(t) ==
  /\ pc[t] = "wake"
  /\ LET sleeper == sleepers[Len(sleepers)] IN
       unpark_flag' = [unpark_flag EXCEPT ![sleeper] = TRUE]
  /\ sleepers' = SubSeq(sleepers, 1, Len(sleepers) - 1)
  /\ searching' = searching + 1 /\ parked' = parked - 1
  /\ owner' = NoThread
  /\ Return(t)
  /\ UNCHANGED work

WaiterStep(t) ==
  \/ t \in Worker /\ \/ StartSearch(t) \/ FallAsleep(t) \/ Park(t)
                     \/ StopSleep(t) \/ StopSearch(t) \/ StopWork(t)
  \/ Notify(t) \/ LockSleepers(t) \/ Wake(t)

Idle == UNCHANGED <<counters, sleepers, owner, slot, unpark_flag>>
Step(t) == WaiterStep(t) \/ (ClientStep(t) /\ Idle)
Drains == Drain /\ Idle

Next == (\E t \in Thread : Step(t)) \/ Drains

\* Every thread runs; who waits for a mutex gets it some time, as nobody holds
\* sleepers_mutex_ while he waits.  A store becomes visible in the end.
Fairness == WF_vars(Drains) /\ \A t \in Thread : WF_vars(Step(t))

Spec == Init /\ [][Next]_vars
FairSpec == Spec /\ Fairness
-----------------------------------------------------------------------------
\* The CHECKs of wait, stop_wait, notify and, in the end, of close hold: the
\* counters agree with the list of sleepers and with what each worker was told.
ChecksHold ==
  /\ \A t \in Thread : pc[t] # "aborted"
  /\ Finished => searching = 0 /\ parked = 0

WillLook(w) == \/ pc[w] \in {"look", "take", "stop"}
               \/ pc[w] = "wait" /\ (slot[w] # "Sleep" \/ unpark_flag[w])

\* The main invariant in the comment on MpmcSleepyWaiter: once notify has been
\* called for all the work there is, and nobody is in it any more, some worker is
\* up and will look at the queue again.
WorkIsNoticed ==
  /\ read < written
  /\ \A t \in Thread : pc[t] \notin {"notify", "lock", "wake"}
  => \E w \in Worker : WillLook(w)

\* Where work is added by an atomic read-modify-write, as by the queues of
\* mrxutils, which no processor lets notify's load of state_ overtake, the main
\* invariant holds.
AtomicWorkIsNoticed == ~relaxed => WorkIsNoticed
=============================================================================

-------------------------- MODULE MpmcEagerWaiter ---------------------------
(***************************************************************************)
(* MpmcEagerWaiter (mrxutils/mrx/utils/MpmcWaiter.h): a worker that finds  *)
(* nothing yields for some rounds, becomes the one sleepy worker, looks    *)
(* for some more rounds, and goes to sleep if nobody has called notify in  *)
(* between.  state_ is the pair of the flag asleep and the sleepy worker,  *)
(* which every operation on it reads or writes together.                   *)
(***************************************************************************)
EXTENDS WaiterClient

CONSTANTS RoundsTillSleepy, RoundsTillAsleep

VARIABLES state,     \* state_
          yields,    \* Slot::yields of each worker
          view       \* what a worker last loaded from state_

waiterVars == <<state, yields, view>>
vars == <<waiterVars, work, pc>>

Awake == [asleep |-> FALSE, sleepy |-> NoThread]
Asleep == [asleep |-> TRUE, sleepy |-> NoThread]

Init ==
  /\ state = Awake
  /\ yields = [w \in Worker |-> 0]
  /\ view = [w \in Worker |-> Awake]
  /\ ClientInit

\* wait returns, the worker having yielded n rounds.
WaitReturns(w, n) == yields' = [yields EXCEPT ![w] = n] /\ Goto(w, "look")
-----------------------------------------------------------------------------
\* wait of a worker that is not sleepy yet.
Yield(w) ==
  /\ pc[w] = "wait" /\ yields[w] < RoundsTillSleepy
  /\ WaitReturns(w, yields[w] + 1)
  /\ UNCHANGED <<state, view, work>>

\* Mutants: the state is not looked at again before sleeping; notify does not
\* order its load of state_ after what the caller wrote; who becomes sleepy makes
\* the state forget that others sleep.
StillIsAnyway(w) == TRUE
NotFenced(t) == TRUE
OnlyWorker(s, w) == [asleep |-> FALSE, sleepy |-> w]

WithWorker(s, w) == [s EXCEPT !.sleepy = w]

\* It may become the sleepy worker if there is none, by a compare-and-swap.
LoadToBeSleepy(w) ==
  /\ pc[w] = "wait" /\ yields[w] = RoundsTillSleepy
  /\ view' = [view EXCEPT ![w] = state]
  /\ IF state.sleepy = NoThread
     THEN Goto(w, "become sleepy") /\ UNCHANGED yields
     ELSE WaitReturns(w, 0)
  /\ UNCHANGED <<state, work>>

BecomeSleepy(w) ==
  /\ pc[w] = "become sleepy"
  /\ IF state = view[w]
     THEN state' = WithWorker(state, w) /\ WaitReturns(w, yields[w] + 1)
     ELSE UNCHANGED state /\ WaitReturns(w, 0)
  /\ UNCHANGED <<view, work>>

\* The sleepy worker goes on looking, as long as nobody called notify_cold, and
\* after the last round it is about to fall asleep.
StaySleepy(w) ==
  /\ pc[w] = "wait" /\ yields[w] > RoundsTillSleepy
  /\ view' = [view EXCEPT ![w] = state]
  /\ IF state.sleepy # w
     THEN WaitReturns(w, 0)
     ELSE IF yields[w] < RoundsTillAsleep
     THEN WaitReturns(w, yields[w] + 1)
     ELSE Goto(w, "fall asleep") /\ UNCHANGED yields
  /\ UNCHANGED <<state, work>>

\* The compare-and-swap, with mutex_ held, and the wait that releases mutex_.
StillIs(w) == state = view[w]
FallAsleep(w) ==
  /\ pc[w] = "fall asleep"
  /\ IF StillIs(w)
     THEN state' = Asleep /\ Goto(w, "asleep") /\ UNCHANGED yields
     ELSE UNCHANGED state /\ WaitReturns(w, 0)
  /\ UNCHANGED <<view, work>>

\* wait on a condition variable may return for no reason.
WakeUnasked(w) ==
  /\ pc[w] = "asleep"
  /\ WaitReturns(w, 0)
  /\ UNCHANGED <<state, view, work>>
-----------------------------------------------------------------------------
\* stop_wait: a worker that has been sleepy tells the others.
StopWait(w) ==
  /\ pc[w] = "stop"
  /\ yields' = [yields EXCEPT ![w] = 0]
  /\ Goto(w, IF yields[w] > RoundsTillSleepy THEN "notify cold" ELSE AfterNotify(w))
  /\ UNCHANGED <<state, view, work>>

\* notify begins with a fence.
NotifyOrdered(t) == Fenced(t)
Notify(t) ==
  /\ pc[t] = "notify"
  /\ NotifyOrdered(t)
  /\ Goto(t, IF state = Awake THEN AfterNotify(t) ELSE "notify cold")
  /\ UNCHANGED <<waiterVars, work>>

NotifyCold(t) ==
  /\ pc[t] = "notify cold"
  /\ state' = Awake
  /\ Goto(t, IF state.asleep THEN "notify all" ELSE AfterNotify(t))
  /\ UNCHANGED <<yields, view, work>>

NotifyAll(t) ==
  /\ pc[t] = "notify all"
  /\ LET woken == {w \in Worker : pc[w] = "asleep"} IN
       /\ pc' = [u \in Thread |-> IF u = t THEN AfterNotify(t)
                                  ELSE IF u \in woken THEN "look" ELSE pc[u]]
       /\ yields' = [w \in Worker |-> IF w \in woken THEN 0 ELSE yields[w]]
  /\ UNCHANGED <<state, view, work>>

WaiterStep(t) ==
  \/ t \in Worker /\ \/ Yield(t) \/ LoadToBeSleepy(t) \/ BecomeSleepy(t)
                     \/ StaySleepy(t) \/ FallAsleep(t) \/ StopWait(t)
  \/ Notify(t) \/ NotifyCold(t) \/ NotifyAll(t)

Step(t) == WaiterStep(t) \/ (ClientStep(t) /\ UNCHANGED waiterVars)
Drains == Drain /\ UNCHANGED waiterVars

Next == \/ \E t \in Thread : Step(t)
        \/ \E w \in Worker : WakeUnasked(w)
        \/ Drains

\* Every thread runs and a store becomes visible in the end; nobody is sure to
\* wake unasked.
Fairness == WF_vars(Drains) /\ \A t \in Thread : WF_vars(Step(t))

Spec == Init /\ [][Next]_vars
FairSpec == Spec /\ Fairness
=============================================================================

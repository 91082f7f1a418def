------------------------------ MODULE MCWaiters -----------------------------
(***************************************************************************)
(* One producer and two pieces of work, added by fetch_add or by a relaxed *)
(* store, with a waiter of each kind: up to three workers around a sleepy, *)
(* up to two around an eager one; and a pollable queue with two writers    *)
(* that put two values each.  A behaviour uses one of the three, the       *)
(* variables of the others rest.                                           *)
(***************************************************************************)
EXTENDS MpmcWaiter

CONSTANTS w1, w2, w3, p1, RoundsTillSleepy, RoundsTillAsleep
VARIABLES kind, state, yields, view,
          added, removed, plain, unseen, x, at,  \* the work and threads of the eager waiter
          writer_vector, reader_vector, wait_event_fd, event, puts, writing, reading, got

Workers == {w1, w2, w3}
Producers == {p1}

Eager == INSTANCE MpmcEagerWaiter WITH
  written <- added, read <- removed, relaxed <- plain, buffered <- unseen, seen <- x, pc <- at
Pollable == INSTANCE PollableQueue WITH Writer <- {w1, w2}, Puts <- 2
pollableVars == <<writer_vector, reader_vector, wait_event_fd, event, puts, writing, reading, got>>
eagerVars == <<state, yields, view, added, removed, plain, unseen, x, at>>
allVars == <<kind, vars, eagerVars, pollableVars>>

WaitersInit ==
  /\ kind \in {"sleepy", "eager", "pollable"}
  /\ Init
  /\ kind # "sleepy" => ~relaxed /\ \A w \in Worker : pc[w] = "look"
  /\ Eager!Init
  /\ IF kind = "eager" THEN at[w3] = "done"
                       ELSE ~plain /\ \A w \in Worker : at[w] = "look"
  /\ Pollable!Init

SleepyStep(t) == kind = "sleepy" /\ Step(t) /\ UNCHANGED <<kind, eagerVars, pollableVars>>
EagerStep(t) == kind = "eager" /\ Eager!Step(t) /\ UNCHANGED <<kind, vars, pollableVars>>
SpuriousWake == /\ kind = "eager" /\ \E w \in Worker : Eager!WakeUnasked(w)
                /\ UNCHANGED <<kind, vars, pollableVars>>
BufferDrains == /\ \/ Drains /\ UNCHANGED eagerVars
                   \/ Eager!Drains /\ UNCHANGED vars
                /\ UNCHANGED <<kind, pollableVars>>

\* The reader of the pollable queue runs as thread p1.
PollableStep(t) ==
  /\ kind = "pollable"
  /\ \/ t = p1 /\ Pollable!Read
     \/ t \in {w1, w2} /\ Pollable!Write(t)
  /\ UNCHANGED <<kind, vars, eagerVars>>

ThreadStep(t) == SleepyStep(t) \/ EagerStep(t) \/ PollableStep(t)
WaitersNext == SpuriousWake \/ BufferDrains \/ \E t \in Thread : ThreadStep(t)

WaitersSpec ==
  /\ WaitersInit /\ [][WaitersNext]_allVars
  /\ WF_allVars(BufferDrains)
  /\ \A t \in Thread : WF_allVars(ThreadStep(t))
-----------------------------------------------------------------------------
\* Liveness: no wake-up is lost.  All the work is done and every worker, asleep or not,
\* gets to know that there is no more, with MpmcEagerWaiter even where work is added by
\* a relaxed store; the reader of MpscPollableQueue takes all that is put.
NoLostWakeUp ==
  <>(CASE kind = "sleepy"   -> relaxed \/ Finished
       [] kind = "eager"    -> Eager!Finished
       [] kind = "pollable" -> Pollable!AllTaken)
=============================================================================

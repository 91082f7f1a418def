---------------------------- MODULE WaiterClient ----------------------------
(***************************************************************************)
(* The threads that use a waiter as test_waiter_stress of                  *)
(* mrxutils/test/MpmcWaiter.cpp does: producers add work and call notify,  *)
(* workers look for work, call wait when there is none and stop_wait       *)
(* before they take some.  The waiter itself is what extends this module;  *)
(* it takes over at the labels "notify", "wait" and "stop".                *)
(***************************************************************************)
EXTENDS Integers, Sequences, FiniteSets

CONSTANTS Worker, Producer,
          End        \* end_pos: the number of pieces of work

ASSUME WorkAssumption == End \in Nat

NoThread == "no thread"
ASSUME ThreadAssumption ==
  /\ IsFiniteSet(Worker)
  /\ Worker \cap Producer = {} /\ NoThread \notin Worker \cup Producer
Thread == Worker \cup Producer

VARIABLES written, read,      \* write_pos, read_pos
          relaxed,            \* how work is added: by a relaxed store, as by the one
                              \* producer of stress_one_one, or by fetch_add
          buffered,           \* stores to write_pos no other thread sees yet
          seen,               \* x: what a worker read from read_pos
          pc                  \* what each thread does next

work == <<written, read, relaxed, buffered, seen>>

\* read_n of the workers take part.
ClientInit ==
  /\ relaxed \in BOOLEAN /\ (relaxed => Cardinality(Producer) = 1)
  /\ written = 0 /\ buffered = 0 /\ read = 0 /\ seen = [w \in Worker |-> 0]
  /\ \E readers \in (SUBSET Worker) \ {{}} :
        pc = [t \in Thread |-> IF t \in Producer THEN "post"
                               ELSE IF t \in readers THEN "look" ELSE "done"]

Goto(t, label) == pc' = [pc EXCEPT ![t] = label]

\* Where a worker goes from stop_wait, and a producer from notify.
AfterNotify(t) == IF t \in Producer THEN "post"
                  ELSE IF seen[t] = End THEN "done" ELSE "take"

Post(p) ==
  /\ pc[p] = "post"
  /\ IF written + buffered = End
     THEN Goto(p, "done") /\ UNCHANGED <<written, buffered>>
     ELSE /\ Goto(p, "notify")
          /\ IF relaxed THEN buffered' = buffered + 1 /\ UNCHANGED written
                        ELSE written' = written + 1 /\ UNCHANGED buffered
  /\ UNCHANGED <<relaxed, read, seen>>

\* The processor makes a relaxed store visible, at any time but in order.
Drain ==
  /\ buffered > 0
  /\ buffered' = buffered - 1 /\ written' = written + 1
  /\ UNCHANGED <<relaxed, read, seen, pc>>

\* A fence, or taking a mutex, waits until all stores of the thread are visible.
Fenced(t) == t \in Producer => buffered = 0

Look(w) ==
  /\ pc[w] = "look"
  /\ seen' = [seen EXCEPT ![w] = read]
  /\ Goto(w, IF read = End \/ read < written THEN "stop" ELSE "wait")
  /\ UNCHANGED <<relaxed, written, buffered, read>>

\* The compare-and-swap of read_pos, which loses to another worker's.
Take(w) ==
  /\ pc[w] = "take"
  /\ read' = IF read = seen[w] THEN read + 1 ELSE read
  /\ Goto(w, "look")
  /\ UNCHANGED <<relaxed, written, buffered, seen>>

ClientStep(t) == \/ t \in Producer /\ Post(t)
                 \/ t \in Worker /\ (Look(t) \/ Take(t))

Finished == \A t \in Thread : pc[t] = "done"
=============================================================================

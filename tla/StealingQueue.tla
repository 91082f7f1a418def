--------------------------- MODULE StealingQueue ---------------------------
(***************************************************************************)
(* StealingQueue (mrxutils/mrx/utils/StealingQueue.h) as the workers of    *)
(* mrxutils/test/StealingQueue.cpp use it: each owns a ring that only it   *)
(* fills, takes from it, pushes what is too much to a global queue, and    *)
(* steals half of another's ring, or of its own, at any time.              *)
(*                                                                         *)
(* Every load, store and compare_exchange that another thread can notice   *)
(* is a step; an owner's load of its own tail_, or of its own slots, joins *)
(* the step that follows.  The values pushed are all different.            *)
(***************************************************************************)
EXTENDS Minimum, FiniteSets

CONSTANTS Worker, Pusher,  \* those that push
          N,         \* the slots of a ring
          Values     \* bound on the values that are pushed

ASSUME SizeAssumption == N \in Nat \ {0}

VARIABLES head_, tail_, buf_,  \* the ring of each worker
          place, local,        \* where it is, and its local variables
          given,               \* how many values have been pushed
          overflown,           \* what overflow_f was called with
          got                  \* what local_pop and steal returned, and to whom

rings == <<head_, tail_, buf_>>
stealingVars == <<rings, place, local, given, overflown, got>>

NoLocals == [head |-> 0, victim |-> "none", from |-> 0, to |-> 0, n |-> 0, i |-> 0, value |-> 0]
StealingInit ==
  /\ head_ = [w \in Worker |-> 0] /\ tail_ = [w \in Worker |-> 0]
  /\ buf_ = [w \in Worker |-> [i \in 0..N - 1 |-> 0]]
  /\ place = [w \in Worker |-> "idle"] /\ local = [w \in Worker |-> NoLocals]
  /\ given = 0 /\ overflown = {} /\ got = [w \in Worker |-> {}]

GoesTo(w, l) == place' = [place EXCEPT ![w] = l]
Done(w) == GoesTo(w, "idle") /\ local' = [local EXCEPT ![w] = NoLocals]
Slot(w, i) == buf_[w][i % N]

\* local_push: a slot if there is room, else half of the ring and the value overflow.
Push(w) ==
  /\ place[w] = "idle" /\ w \in Pusher /\ given < Values
  /\ given' = given + 1
  /\ local' = [local EXCEPT ![w].value = given + 1]
  /\ GoesTo(w, "push")
  /\ UNCHANGED <<rings, overflown, got>>
LoadHead(w) ==
  /\ place[w] = "push"
  /\ local' = [local EXCEPT ![w].head = head_[w]]
  /\ GoesTo(w, IF tail_[w] - head_[w] < N THEN "fill" ELSE "overflow")
  /\ UNCHANGED <<rings, given, overflown, got>>
Fill(w) ==
  /\ place[w] = "fill"
  /\ buf_' = [buf_ EXCEPT ![w][tail_[w] % N] = local[w].value]
  /\ GoesTo(w, "publish")
  /\ UNCHANGED <<head_, tail_, local, given, overflown, got>>
Publish(w) ==
  /\ place[w] = "publish"
  /\ tail_' = [tail_ EXCEPT ![w] = @ + 1]
  /\ Done(w)
  /\ UNCHANGED <<head_, buf_, given, overflown, got>>
Overflow(w) ==
  /\ place[w] = "overflow"
  /\ LET n == N \div 2 + 1 IN
     IF head_[w] = local[w].head
     THEN /\ head_' = [head_ EXCEPT ![w] = @ + n]
          /\ overflown' = overflown \cup {local[w].value}
                            \cup {Slot(w, local[w].head + i) : i \in 0..n - 1}
          /\ Done(w)
     ELSE GoesTo(w, "push") /\ UNCHANGED <<head_, overflown, local>>
  /\ UNCHANGED <<tail_, buf_, given, got>>

\* local_pop
Pop(w) ==
  /\ place[w] = "idle" /\ head_[w] # tail_[w]
  /\ local' = [local EXCEPT ![w].head = head_[w]]
  /\ GoesTo(w, "pop")
  /\ UNCHANGED <<rings, given, overflown, got>>
PopHead(w) ==
  /\ place[w] = "pop"
  /\ IF head_[w] = local[w].head
     THEN /\ head_' = [head_ EXCEPT ![w] = @ + 1]
          /\ got' = [got EXCEPT ![w] = @ \cup {Slot(w, local[w].head)}]
     ELSE UNCHANGED <<head_, got>>
  /\ Done(w)
  /\ UNCHANGED <<tail_, buf_, given, overflown>>

\* steal: the loads, the copies one by one, and the compare_exchange that validates.
Steal(w, victim) ==
  /\ place[w] = "idle"
  /\ local' = [local EXCEPT ![w].victim = victim, ![w].head = head_[w]]
  /\ GoesTo(w, "other")
  /\ UNCHANGED <<rings, given, overflown, got>>
LoadOther(w) ==
  /\ place[w] = "other"
  /\ local' = [local EXCEPT ![w].from = head_[local[w].victim]]
  /\ GoesTo(w, "size")
  /\ UNCHANGED <<rings, given, overflown, got>>

LoadTail(w) ==
  /\ place[w] = "size"
  /\ LET to   == tail_[local[w].victim]
         all  == to - local[w].from
         half == all - all \div 2
         n    == Least(half, local[w].head + N - tail_[w])
     IN CASE to < local[w].from \/ all > N ->
               GoesTo(w, "retry") /\ UNCHANGED local
          [] ~(to < local[w].from \/ all > N) /\ n = 0 ->
               Done(w)
          [] OTHER ->
               GoesTo(w, "copy") /\ local' = [local EXCEPT ![w].n = n, ![w].i = 0]
  /\ UNCHANGED <<rings, given, overflown, got>>
Copy(w) ==
  /\ place[w] = "copy"
  /\ buf_' = [buf_ EXCEPT ![w][(tail_[w] + local[w].i) % N] =
                 Slot(local[w].victim, local[w].from + local[w].i)]
  /\ local' = [local EXCEPT ![w].i = @ + 1]
  /\ GoesTo(w, IF local[w].i + 1 < local[w].n THEN "copy" ELSE "take")
  /\ UNCHANGED <<head_, tail_, given, overflown, got>>

\* Mutant: what was copied is not validated.
Anyway(w) == TRUE
Valid(w) == head_[local[w].victim] = local[w].from

Take(w) ==
  /\ place[w] = "take"
  /\ IF Valid(w)
     THEN /\ head_' = [head_ EXCEPT ![local[w].victim] = local[w].from + local[w].n]
          /\ GoesTo(w, "keep")
     ELSE GoesTo(w, "retry") /\ UNCHANGED head_
  /\ UNCHANGED <<tail_, buf_, local, given, overflown, got>>
Retry(w) ==
  /\ place[w] = "retry"
  /\ local' = [local EXCEPT ![w] = [NoLocals EXCEPT !.victim = local[w].victim,
                                                    !.head = head_[w]]]
  /\ GoesTo(w, "other")
  /\ UNCHANGED <<rings, given, overflown, got>>
\* The last one copied is returned, the others are kept.
Keep(w) ==
  /\ place[w] = "keep"
  /\ tail_' = [tail_ EXCEPT ![w] = @ + local[w].n - 1]
  /\ got' = [got EXCEPT ![w] = @ \cup {Slot(w, tail_[w] + local[w].n - 1)}]
  /\ Done(w)
  /\ UNCHANGED <<head_, buf_, given, overflown>>

WorkerStep(w) ==
  \/ Push(w) \/ LoadHead(w) \/ Fill(w) \/ Publish(w) \/ Overflow(w) \/ Pop(w) \/ PopHead(w)
  \/ \E victim \in Worker : Steal(w, victim)
  \/ LoadOther(w) \/ LoadTail(w) \/ Copy(w) \/ Take(w) \/ Retry(w) \/ Keep(w)
StealingNext == \E w \in Worker : WorkerStep(w)
StealingSpec == StealingInit /\ [][StealingNext]_stealingVars
-----------------------------------------------------------------------------
\* Each value pushed is in one place: in a ring, with the worker that pushes it or has
\* stolen it, with the global queue, or with the one worker that got it.
InRing(w) == {Slot(w, i) : i \in {j \in 0..tail_[w] : head_[w] <= j /\ j < tail_[w]}}
InHand(w) ==
  CASE place[w] \in {"push", "fill", "publish", "overflow"} -> {local[w].value}
    [] place[w] = "keep" -> {Slot(w, tail_[w] + i) : i \in 0..local[w].n - 1}
    [] OTHER          -> {}
Size_(w) == tail_[w] - head_[w]
EachInOnePlace ==
  /\ \A v \in 1..given :
       Cardinality({w \in Worker : v \in InRing(w)}) + Cardinality({w \in Worker : v \in InHand(w)})
         + Cardinality({w \in Worker : v \in got[w]}) + (IF v \in overflown THEN 1 ELSE 0) = 1
  /\ \A w \in Worker : Cardinality(InRing(w)) = Size_(w)
=============================================================================

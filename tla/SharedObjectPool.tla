-------------------------- MODULE SharedObjectPool --------------------------
(***************************************************************************)
(* SharedObjectPool (mrxutils/mrx/utils/SharedObjectPool.h) over           *)
(* MpscLinkQueue (mrxutils/mrx/utils/MpscLinkQueue.h): the owner of the    *)
(* pool allocates, any thread copies a SharedPtr it has or gives it up,    *)
(* and the thread that gives up the last one pushes the object to the free *)
(* queue, from which the owner takes it again.                             *)
(*                                                                         *)
(* The free queue is a list linked through next_, newest first; its        *)
(* reader keeps another, oldest first.  Every atomic operation is a step.  *)
(***************************************************************************)
EXTENDS Naturals, Sequences, FiniteSets

CONSTANTS User, Owner,  \* threads; the owner of the pool may use objects too
          Raws,         \* bound on the objects allocated
          Allocs        \* bound on the calls of alloc
ASSUME PoolAssumption == IsFiniteSet(User) /\ Raws \in Nat /\ Allocs \in Nat

NoRaw == 0
Raw == 1..Raws

VARIABLES allocated,    \* how many objects there are
          ref_cnt, next_,
          free_head,    \* of the free queue
          reader_head, reader_tail,
          allocs,       \* how many calls of alloc there have been
          has,          \* the SharedPtrs of each user: how many, to which object
          stands, gives, \* where a user is in giving one up, and its object and old head
          order         \* the objects freed and not taken again, oldest first

freeQueue == <<next_, free_head, reader_head, reader_tail>>
poolVars == <<allocated, ref_cnt, freeQueue, allocs, has, stands, gives, order>>

PoolInit ==
  /\ allocated = 0 /\ allocs = 0
  /\ ref_cnt = [r \in Raw |-> 0] /\ next_ = [r \in Raw |-> NoRaw]
  /\ free_head = NoRaw /\ reader_head = NoRaw /\ reader_tail = NoRaw
  /\ has = [u \in User |-> [r \in Raw |-> 0]]
  /\ stands = [u \in User |-> "idle"] /\ gives = [u \in User |-> [raw |-> NoRaw, seen |-> NoRaw]]
  /\ order = <<>>

\* The objects of a list, from its head on.
Lists == UNION {[1..n -> Raw] : n \in 0..Raws}
IsChain(s, head) == /\ head = IF s = <<>> THEN NoRaw ELSE s[1]
                    /\ \A i \in DOMAIN s : next_[s[i]] = IF i = Len(s) THEN NoRaw ELSE s[i + 1]
Chain(head) == CHOOSE s \in Lists : IsChain(s, head)
Rev(s) == [i \in 1..Len(s) |-> s[Len(s) + 1 - i]]

\* Mutant: what is popped is read as it comes, newest first.
AsItComes(s) == s
\* Reader::add: the list that pop_all took is reversed
Reversed(s) == Rev(s)
\* and goes after what the reader has.
Linked(s) ==
  [r \in Raw |-> IF \E i \in 1..Len(s) - 1 : s[i] = r
                 THEN s[(CHOOSE i \in 1..Len(s) - 1 : s[i] = r) + 1]
                 ELSE IF s # <<>> /\ r = s[Len(s)] THEN NoRaw
                 ELSE IF s # <<>> /\ reader_head # NoRaw /\ r = reader_tail THEN s[1]
                 ELSE next_[r]]

\* alloc: pop_all, then the oldest object freed, or a new one.
AllocRaw(u) ==
  /\ u \in Owner /\ stands[u] = "idle" /\ allocs < Allocs
  /\ LET s     == Reversed(Chain(free_head))
         first == IF reader_head # NoRaw THEN reader_head ELSE IF s # <<>> THEN s[1] ELSE NoRaw
         raw   == IF first # NoRaw THEN first ELSE allocated + 1
     IN /\ raw \in Raw
        /\ next_' = Linked(s)
        /\ free_head' = NoRaw
        /\ reader_tail' = IF s # <<>> THEN s[Len(s)] ELSE reader_tail
        /\ reader_head' = IF first # NoRaw THEN next_'[first] ELSE NoRaw
        /\ allocated' = IF first # NoRaw THEN allocated ELSE allocated + 1
        /\ order' = IF first # NoRaw /\ order # <<>> /\ first = order[1] THEN Tail(order) ELSE order
        /\ ref_cnt' = [ref_cnt EXCEPT ![raw] = @ + 1]
        /\ has' = [has EXCEPT ![u][raw] = @ + 1]
  /\ allocs' = allocs + 1
  /\ UNCHANGED <<stands, gives>>

\* A copy of a SharedPtr, for a user that has none to this object: of those a user has
\* more, only the last to go matters.
Share(u, v, r) ==
  /\ stands[u] = "idle" /\ has[u][r] > 0 /\ has[v][r] = 0
  /\ ref_cnt' = [ref_cnt EXCEPT ![r] = @ + 1]
  /\ has' = [has EXCEPT ![v][r] = @ + 1]
  /\ UNCHANGED <<allocated, freeQueue, allocs, stands, gives, order>>

\* reset: the last one to go frees the object.
Release(u, r) ==
  /\ stands[u] = "idle" /\ has[u][r] > 0
  /\ ref_cnt' = [ref_cnt EXCEPT ![r] = @ - 1]
  /\ has' = [has EXCEPT ![u][r] = @ - 1]
  /\ IF ref_cnt[r] = 1
     THEN stands' = [stands EXCEPT ![u] = "load"] /\ gives' = [gives EXCEPT ![u].raw = r]
     ELSE UNCHANGED <<stands, gives>>
  /\ UNCHANGED <<allocated, freeQueue, allocs, order>>
\* push: link to the head, and become the head unless that has changed.
LoadFreeHead(u) ==
  /\ stands[u] = "load"
  /\ next_' = [next_ EXCEPT ![gives[u].raw] = free_head]
  /\ gives' = [gives EXCEPT ![u].seen = free_head]
  /\ stands' = [stands EXCEPT ![u] = "push"]
  /\ UNCHANGED <<allocated, ref_cnt, free_head, reader_head, reader_tail, allocs, has, order>>
PushRaw(u) ==
  /\ stands[u] = "push"
  /\ IF free_head = gives[u].seen
     THEN /\ free_head' = gives[u].raw
          /\ order' = Append(order, gives[u].raw)
          /\ stands' = [stands EXCEPT ![u] = "idle"]
          /\ gives' = [gives EXCEPT ![u] = [raw |-> NoRaw, seen |-> NoRaw]]
          /\ UNCHANGED next_
     ELSE /\ next_' = [next_ EXCEPT ![gives[u].raw] = free_head]
          /\ gives' = [gives EXCEPT ![u].seen = free_head]
          /\ UNCHANGED <<free_head, order, stands>>
  /\ UNCHANGED <<allocated, ref_cnt, reader_head, reader_tail, allocs, has>>

PoolNext == \E u \in User :
  \/ AllocRaw(u) \/ LoadFreeHead(u) \/ PushRaw(u)
  \/ \E r \in Raw : Release(u, r) \/ \E v \in User : Share(u, v, r)
PoolSpec == PoolInit /\ [][PoolNext]_poolVars
-----------------------------------------------------------------------------
\* Every object is in use, being freed by one thread, or free, once: what is free is
\* taken in the order in which it was freed, and none is lost.
References(r) == {x \in User \X (1..Allocs) : x[2] <= has[x[1]][r]}
FreedInOrder ==
  /\ Chain(reader_head) \o Rev(Chain(free_head)) = order
  /\ \A r \in Raw :
       /\ ref_cnt[r] = Cardinality(References(r))
       /\ Cardinality({i \in DOMAIN order : order[i] = r})
            + Cardinality({u \in User : gives[u].raw = r})
            + (IF ref_cnt[r] > 0 THEN 1 ELSE 0) = (IF r <= allocated THEN 1 ELSE 0)
=============================================================================

-------------------------- MODULE ContainerProofs --------------------------
(***************************************************************************)
(* Epoch-based reclamation for any number of threads, the chain buffer for *)
(* any number of bytes and any capacity, the stealing queue for any number *)
(* of workers and any size of their rings.                                 *)
(*                                                                         *)
(* What a thread retires is deleted when its epoch has changed three times *)
(* since.  The first change may be to an epoch loaded just after; but once *)
(* the global epoch has moved on while somebody is locked, it cannot move  *)
(* again before that thread changes its own (Stuck).  So while somebody    *)
(* holds what was retired, two changes are possible and no third (Young).  *)
(***************************************************************************)
EXTENDS EpochReclamation, ChainBuffer, StealingQueue, FiniteSetTheorems, SequenceTheorems, TLAPS

EpochTypes ==
  /\ epoch_ \in Nat /\ cell \in Nat \ {0}
  /\ epoch \in [Thread -> [n : Nat, idle : BOOLEAN]]
  /\ checked \in [Thread -> 1..Threads + 1]
  /\ bag_i \in [Thread -> 0..2]
  /\ to_delete \in [Thread -> [0..2 -> SUBSET (1..cell - 1)]]
  /\ deleted \in SUBSET (1..cell - 1)
  /\ pc \in [Thread -> {"out", "in", "set", "check", "advance", "reset", "checked", "rest",
                        "again"}]
  /\ my \in [Thread -> [call : {"none", "lock", "retire", "sync"}, e : Nat, str : Nat]]

\* Epochs only grow.  A thread that is between load and store of its epoch stores a
\* later one, or the same.
EpochsGrow ==
  \A t \in Thread :
    /\ epoch[t].n <= epoch_ /\ my[t].e <= epoch_
    /\ pc[t] = "set" => epoch[t].n <= my[t].e
    /\ pc[t] = "reset" => epoch[t].n < my[t].e
    /\ checked[t] = Threads + 1 <=> pc[t] \in {"advance", "reset"}

\* A pointer is held under the lock only, and who has locked is not idle.
HeldUnderLock ==
  \A t \in Thread :
    /\ pc[t] \in {"in", "check", "advance", "reset", "checked", "rest"} => ~epoch[t].idle
    /\ my[t].str # None => pc[t] = "in"
    /\ my[t].str <= cell

\* The global epoch stays as it is until s changes its own: nobody who has seen s can
\* still advance it.
Stuck(s) ==
  /\ epoch[s].n < epoch_
  /\ \A t \in Thread : epoch[t].n = epoch_ => checked[t] <= s

\* Epoch e was loaded at most one advance ago, and that advance was the last while s
\* is locked.
Recent(s, e) == e = epoch_ \/ (Stuck(s) /\ e + 1 >= epoch_)

\* How often the epoch of t has changed since it put something into bag b.
Age(t, b) == IF b = bag_i[t] THEN 0 ELSE IF Rotated(t) = b THEN 2 ELSE 1

\* What is held and was retired is in a bag that will not be the next to be emptied.
Young ==
  \A s, t \in Thread, b \in 0..2 :
    my[s].str \in to_delete[t][b] =>
      /\ Age(t, b) = 0 /\ pc[t] \in {"set", "reset"} => Recent(s, my[t].e)
      /\ Age(t, b) = 1 => Recent(s, epoch[t].n)
      /\ Age(t, b) = 2 => Stuck(s) /\ epoch[t].n = epoch_

EpochInv == EpochTypes /\ EpochsGrow /\ HeldUnderLock /\ Young /\ NothingHeldIsDeleted
-----------------------------------------------------------------------------
\* The bags turn: the next one to be emptied is the oldest.
LEMMA BagsTurn ==
  ASSUME EpochTypes, NEW t \in Thread, bag_i' = [bag_i EXCEPT ![t] = Rotated(t)]
  PROVE  /\ Rotated(t) \in 0..2 /\ Age(t, Rotated(t)) = 2
         /\ \A b \in 0..2 : Age(t, b)' = IF b = Rotated(t) THEN 0 ELSE Age(t, b) + 1
BY DEF EpochTypes, Age, Rotated, MAX_BAGS

\* What is held is neither deleted nor about to be, and nothing else is in the bags
\* than what the pointer no longer points to.
LEMMA Retired ==
  ASSUME EpochTypes, NEW t \in Thread, NEW b \in 0..2
  PROVE  None \notin to_delete[t][b] /\ cell \notin to_delete[t][b]
BY DEF EpochTypes, None

\* Steps of t that change no epoch and no bag.
LEMMA QuietYoung ==
  ASSUME EpochInv, EpochTypes', NEW t \in Thread,
         epoch_' = epoch_, bag_i' = bag_i, to_delete' = to_delete, deleted' = deleted,
         \A u \in Thread : epoch'[u].n = epoch[u].n,
         \A u \in Thread \ {t} : pc'[u] = pc[u] /\ my'[u] = my[u] /\ checked'[u] = checked[u],
         my'[t].str \in {None, my[t].str},
         pc'[t] \in {"set", "reset"} => my'[t].e = epoch_,
         \A s \in Thread :
           Stuck(s) /\ my[s].str # None /\ epoch[t].n = epoch_ => checked'[t] <= s
  PROVE  Young' /\ NothingHeldIsDeleted'
<1>1. \A s \in Thread : Stuck(s) /\ my[s].str # None => Stuck(s)'
  BY DEF Stuck
<1>2. \A s \in Thread : my'[s].str = None \/ my'[s].str = my[s].str
  OBVIOUS
<1>3. NothingHeldIsDeleted'
  BY <1>2 DEF EpochInv, NothingHeldIsDeleted, EpochTypes, None
<1>4. ASSUME NEW s \in Thread, NEW u \in Thread, NEW b \in 0..2,
             my'[s].str \in to_delete[u][b]
      PROVE  /\ Age(u, b) = 0 /\ pc'[u] \in {"set", "reset"} => Recent(s, my[u].e)'
             /\ Age(u, b) = 1 => Recent(s, epoch[u].n)'
             /\ Age(u, b) = 2 => Stuck(s)' /\ epoch'[u].n = epoch_
  <2>1. my'[s].str = my[s].str /\ my[s].str # None
    BY <1>2, <1>4, Retired DEF EpochInv
  <2>2. /\ Age(u, b) = 0 /\ pc[u] \in {"set", "reset"} => Recent(s, my[u].e)
        /\ Age(u, b) = 1 => Recent(s, epoch[u].n)
        /\ Age(u, b) = 2 => Stuck(s) /\ epoch[u].n = epoch_
    BY <1>4, <2>1 DEF EpochInv, Young
  <2>3. Stuck(s) => Stuck(s)'
    BY <1>1, <2>1
  <2>4. CASE u = t
    BY <2>2, <2>3, <2>4 DEF Recent
  <2>5. CASE u # t
    BY <2>2, <2>3, <2>5 DEF Recent
  <2>. QED  BY <2>4, <2>5
<1>5. \A u \in Thread, b \in 0..2 : Age(u, b)' = Age(u, b)
  BY DEF Age, Rotated
<1>6. Young'
  BY <1>4, <1>5 DEF Young
<1>. QED  BY <1>3, <1>6

\* t stores a later epoch, and empties the oldest bag.
LEMMA ChangeYoung ==
  ASSUME EpochInv, EpochTypes', NEW t \in Thread, pc[t] \in {"set", "reset"},
         epoch[t].n < my[t].e, epoch_' = epoch_,
         epoch' = [epoch EXCEPT ![t] = [n |-> my[t].e, idle |-> FALSE]],
         checked' = [checked EXCEPT ![t] = 1],
         bag_i' = [bag_i EXCEPT ![t] = Rotated(t)],
         deleted' = deleted \cup to_delete[t][Rotated(t)],
         to_delete' = [to_delete EXCEPT ![t][Rotated(t)] = {}],
         \A u \in Thread : my'[u].str = my[u].str,
         \A u \in Thread \ {t} : pc'[u] = pc[u] /\ my'[u] = my[u],
         pc'[t] \notin {"set", "reset"}
  PROVE  Young' /\ NothingHeldIsDeleted'
<1>. USE DEF EpochInv
<1>1. /\ Rotated(t) \in 0..2 /\ Age(t, Rotated(t)) = 2
      /\ \A b \in 0..2 : Age(t, b)' = IF b = Rotated(t) THEN 0 ELSE Age(t, b) + 1
  BY BagsTurn
<1>2. my[t].str = None /\ my[t].e <= epoch_ /\ my[t].e \in Nat /\ epoch[t].n \in Nat
      /\ epoch_ \in Nat
  BY DEF HeldUnderLock, EpochsGrow, EpochTypes
<1>3. \A s \in Thread \ {t} : Stuck(s) => Stuck(s)'
  BY DEF Stuck, EpochTypes, Thread
<1>4. ASSUME NEW s \in Thread, my[s].str \in to_delete[t][Rotated(t)]
      PROVE  FALSE
  BY <1>1, <1>2, <1>4 DEF Young
<1>5. NothingHeldIsDeleted'
  BY <1>4 DEF NothingHeldIsDeleted
<1>6. ASSUME NEW s \in Thread, NEW u \in Thread, NEW b \in 0..2,
             my[s].str \in to_delete'[u][b]
      PROVE  /\ Age(u, b)' = 0 /\ pc'[u] \in {"set", "reset"} => Recent(s, my[u].e)'
             /\ Age(u, b)' = 1 => Recent(s, epoch[u].n)'
             /\ Age(u, b)' = 2 => Stuck(s)' /\ epoch'[u].n = epoch_
  <2>1. my[s].str \in to_delete[u][b] /\ ~(u = t /\ b = Rotated(t))
    BY <1>6, <1>1 DEF EpochTypes
  <2>2. s # t
    BY <2>1, <1>2, Retired
  <2>3. /\ Age(u, b) = 0 /\ pc[u] \in {"set", "reset"} => Recent(s, my[u].e)
        /\ Age(u, b) = 1 => Recent(s, epoch[u].n)
        /\ Age(u, b) = 2 => Stuck(s) /\ epoch[u].n = epoch_
    BY <2>1 DEF Young
  <2>4. Stuck(s) => Stuck(s)'
    BY <1>3, <2>2
  <2>5. CASE u # t
    <3>1. Age(u, b)' = Age(u, b)
      BY <2>5 DEF Age, Rotated, EpochTypes
    <3>2. epoch'[u] = epoch[u] /\ pc'[u] = pc[u] /\ my'[u] = my[u]
      BY <2>5 DEF EpochTypes
    <3>. QED  BY <2>3, <2>4, <3>1, <3>2 DEF Recent
  <2>6. CASE u = t
    <3>1. epoch'[t].n = my[t].e
      BY DEF EpochTypes
    <3>2. Age(t, b) \in {0, 1, 2} /\ Age(t, b)' = Age(t, b) + 1
      BY <1>1, <2>1, <2>6 DEF Age
    <3>3. CASE Age(t, b) = 0
      BY <2>3, <2>4, <2>6, <3>1, <3>2, <3>3 DEF Recent
    <3>4. CASE Age(t, b) = 1
      <4>1. Stuck(s) /\ epoch[t].n + 1 >= epoch_
        BY <1>2, <2>3, <2>6, <3>4 DEF Recent
      <4>2. my[t].e = epoch_
        BY <1>2, <4>1
      <4>. QED  BY <2>4, <2>6, <3>1, <3>2, <3>4, <4>1, <4>2
    <3>5. CASE Age(t, b) = 2
      BY <2>6, <3>2, <3>5
    <3>. QED  BY <3>2, <3>3, <3>4, <3>5
  <2>. QED  BY <2>5, <2>6
<1>7. Young'
  BY <1>6 DEF Young
<1>. QED  BY <1>5, <1>7
-----------------------------------------------------------------------------
LEMMA EpochInitInv == Init => EpochInv
<1>. SUFFICES ASSUME Init PROVE EpochInv
  OBVIOUS
<1>. USE ThreadsAssumption DEF Init, None
<1>1. EpochTypes
  BY DEF EpochTypes, Thread
<1>2. EpochsGrow
  BY DEF EpochsGrow, Thread
<1>3. HeldUnderLock
  BY DEF HeldUnderLock
<1>4. Young
  BY DEF Young
<1>5. NothingHeldIsDeleted
  BY DEF NothingHeldIsDeleted
<1>. QED  BY <1>1, <1>2, <1>3, <1>4, <1>5 DEF EpochInv

LEMMA CallInv ==
  ASSUME EpochInv, NEW t \in Thread, NEW call \in {"lock", "retire", "sync"}, Call(t, call)
  PROVE  EpochInv'
<1>. USE DEF Call, Goto, data
<1>1. EpochTypes'
  BY DEF EpochInv, EpochTypes, None
<1>2. EpochsGrow'
  BY DEF EpochInv, EpochTypes, EpochsGrow
<1>3. HeldUnderLock'
  BY DEF EpochInv, EpochTypes, HeldUnderLock, None
<1>4. Young' /\ NothingHeldIsDeleted'
  <2>1. my'[t] = [call |-> call, e |-> epoch_, str |-> None] /\ checked' = checked
        /\ \A u \in Thread \ {t} : pc'[u] = pc[u] /\ my'[u] = my[u]
    BY DEF EpochInv, EpochTypes
  <2>2. \A s \in Thread : Stuck(s) /\ epoch[t].n = epoch_ => checked'[t] <= s
    BY <2>1 DEF Stuck
  <2>. QED  BY <1>1, <2>1, <2>2, QuietYoung
<1>. QED  BY <1>1, <1>2, <1>3, <1>4 DEF EpochInv

LEMMA RotatedIsBag == ASSUME EpochTypes, NEW t \in Thread PROVE Rotated(t) \in 0..2
BY DEF EpochTypes, Rotated, MAX_BAGS

\* The oldest bag is emptied.
LEMMA BagEmptied ==
  ASSUME EpochTypes, NEW t \in Thread,
         checked' = [checked EXCEPT ![t] = 1],
         bag_i' = [bag_i EXCEPT ![t] = Rotated(t)],
         deleted' = deleted \cup to_delete[t][Rotated(t)],
         to_delete' = [to_delete EXCEPT ![t][Rotated(t)] = {}]
  PROVE  /\ checked' \in [Thread -> 1..Threads + 1] /\ bag_i' \in [Thread -> 0..2]
         /\ to_delete' \in [Thread -> [0..2 -> SUBSET (1..cell - 1)]]
         /\ deleted' \in SUBSET (1..cell - 1)
<1>. Rotated(t) \in 0..2
  BY RotatedIsBag
<1>1. checked' \in [Thread -> 1..Threads + 1] /\ bag_i' \in [Thread -> 0..2]
  BY ThreadsAssumption DEF EpochTypes
<1>2. deleted' \in SUBSET (1..cell - 1)
  <2>1. to_delete[t] \in [0..2 -> SUBSET (1..cell - 1)]
    BY DEF EpochTypes
  <2>2. to_delete[t][Rotated(t)] \in SUBSET (1..cell - 1)
    BY <2>1
  <2>. QED  BY <2>2 DEF EpochTypes
<1>3. to_delete' \in [Thread -> [0..2 -> SUBSET (1..cell - 1)]]
  <2>1. to_delete' = [to_delete EXCEPT ![t] = [@ EXCEPT ![Rotated(t)] = {}]]
    OBVIOUS
  <2>2. [to_delete[t] EXCEPT ![Rotated(t)] = {}] \in [0..2 -> SUBSET (1..cell - 1)]
    BY DEF EpochTypes
  <2>. QED  BY <2>1, <2>2 DEF EpochTypes
<1>. QED  BY <1>1, <1>2, <1>3

\* Returning to the client.
LEMMA ReturnsTypes ==
  ASSUME EpochTypes, NEW t \in Thread, Returns(t)
  PROVE  /\ pc' \in [Thread -> {"out", "in", "set", "check", "advance", "reset", "checked",
                                "rest", "again"}]
         /\ my' \in [Thread -> [call : {"none", "lock", "retire", "sync"}, e : Nat, str : Nat]]
         /\ pc'[t] = "in" /\ my'[t].str = my[t].str /\ my'[t].e = 0
         /\ \A u \in Thread \ {t} : pc'[u] = pc[u] /\ my'[u] = my[u]
<1>. DEFINE r == [call |-> "none", e |-> 0, str |-> my[t].str]
<1>1. pc' = [pc EXCEPT ![t] = "in"] /\ my' = [my EXCEPT ![t] = r]
  BY DEF Returns, Forgets, Goto
<1>2. r \in [call : {"none", "lock", "retire", "sync"}, e : Nat, str : Nat]
      /\ r.str = my[t].str /\ r.e = 0
  BY DEF EpochTypes
<1>. HIDE DEF r
<1>3. my' \in [Thread -> [call : {"none", "lock", "retire", "sync"}, e : Nat, str : Nat]]
      /\ my'[t] = r
  BY <1>1, <1>2 DEF EpochTypes
<1>. QED  BY <1>1, <1>2, <1>3 DEF EpochTypes

LEMMA SetEpochInv ==
  ASSUME EpochInv, NEW t \in Thread, SetEpoch(t) PROVE EpochInv'
<1>1. /\ pc[t] = "set" /\ epoch_' = epoch_ /\ cell' = cell
      /\ epoch' = [epoch EXCEPT ![t] = [n |-> my[t].e, idle |-> FALSE]]
      /\ \/ Returns(t)
         \/ pc' = [pc EXCEPT ![t] = "check"] /\ my' = my
  BY DEF SetEpoch, Goto
<1>2. /\ epoch[t].n # my[t].e =>
           /\ checked' = [checked EXCEPT ![t] = 1]
           /\ bag_i' = [bag_i EXCEPT ![t] = Rotated(t)]
           /\ deleted' = deleted \cup to_delete[t][Rotated(t)]
           /\ to_delete' = [to_delete EXCEPT ![t][Rotated(t)] = {}]
      /\ epoch[t].n = my[t].e => UNCHANGED <<checked, bag_i, deleted, to_delete>>
  BY DEF SetEpoch
<1>3. /\ pc' \in [Thread -> {"out", "in", "set", "check", "advance", "reset", "checked",
                             "rest", "again"}]
      /\ my' \in [Thread -> [call : {"none", "lock", "retire", "sync"}, e : Nat, str : Nat]]
      /\ pc'[t] \in {"in", "check"} /\ my'[t].str = my[t].str /\ my'[t].e \in {0, my[t].e}
      /\ \A u \in Thread \ {t} : pc'[u] = pc[u] /\ my'[u] = my[u]
  <2>1. CASE Returns(t)
    BY <2>1, ReturnsTypes DEF EpochInv
  <2>2. CASE pc' = [pc EXCEPT ![t] = "check"] /\ my' = my
    BY <2>2 DEF EpochInv, EpochTypes
  <2>. QED  BY <1>1, <2>1, <2>2
<1>4. /\ my[t].str = None /\ epoch[t].n <= my[t].e /\ checked[t] # Threads + 1
      /\ my[t].e <= epoch_ /\ epoch[t].n \in Nat /\ my[t].e \in Nat
  BY <1>1 DEF EpochInv, EpochTypes, EpochsGrow, HeldUnderLock
<1>5. EpochTypes'
  <2>1. CASE epoch[t].n # my[t].e
    <3>1. epoch' \in [Thread -> [n : Nat, idle : BOOLEAN]]
      BY <1>1, <1>4 DEF EpochInv, EpochTypes
    <3>. QED  BY <1>1, <1>2, <1>3, <2>1, <3>1, BagEmptied DEF EpochInv, EpochTypes
  <2>2. CASE epoch[t].n = my[t].e
    BY <1>1, <1>2, <1>3, <1>4, <2>2 DEF EpochInv, EpochTypes
  <2>. QED  BY <2>1, <2>2
<1>6. EpochsGrow'
  <2>1. checked'[t] \in {1, checked[t]} /\ \A u \in Thread \ {t} : checked'[u] = checked[u]
    BY <1>2 DEF EpochInv, EpochTypes
  <2>2. epoch'[t].n = my[t].e /\ \A u \in Thread \ {t} : epoch'[u] = epoch[u]
    BY <1>1 DEF EpochInv, EpochTypes
  <2>. QED
    BY <1>1, <1>3, <1>4, <2>1, <2>2, ThreadsAssumption
    DEF EpochInv, EpochTypes, EpochsGrow
<1>7. HeldUnderLock'
  BY <1>1, <1>3, <1>4 DEF EpochInv, EpochTypes, HeldUnderLock, None
<1>8. \A u \in Thread : my'[u].str = my[u].str
  BY <1>3
<1>9. CASE epoch[t].n # my[t].e
  <2>1. epoch[t].n < my[t].e
    BY <1>4, <1>9
  <2>2. Young' /\ NothingHeldIsDeleted'
    BY <1>1, <1>2, <1>3, <1>5, <1>8, <1>9, <2>1, ChangeYoung
  <2>. QED  BY <1>5, <1>6, <1>7, <2>2 DEF EpochInv
<1>10. CASE epoch[t].n = my[t].e
  <2>1. UNCHANGED <<checked, bag_i, deleted, to_delete>>
    BY <1>2, <1>10
  <2>2. \A u \in Thread : epoch'[u].n = epoch[u].n
    BY <1>1, <1>10 DEF EpochInv, EpochTypes
  <2>3. \A s \in Thread : Stuck(s) /\ epoch[t].n = epoch_ => checked'[t] <= s
    BY <2>1 DEF Stuck
  <2>4. Young' /\ NothingHeldIsDeleted'
    BY <1>1, <1>3, <1>5, <2>1, <2>2, <2>3, QuietYoung
  <2>. QED  BY <1>5, <1>6, <1>7, <2>4 DEF EpochInv
<1>. QED  BY <1>9, <1>10

\* What a step back to the caller of step_check changes.
LEMMA CheckedSteps ==
  ASSUME EpochTypes, NEW t \in Thread, NEW result \in BOOLEAN, Checked(t, result)
  PROVE  /\ pc' \in [Thread -> {"out", "in", "set", "check", "advance", "reset", "checked",
                                "rest", "again"}]
         /\ my' \in [Thread -> [call : {"none", "lock", "retire", "sync"}, e : Nat, str : Nat]]
         /\ pc'[t] \in {"in", "check", "rest"}
         /\ my'[t].str = my[t].str /\ my'[t].e \in {0, my[t].e}
         /\ \A u \in Thread \ {t} : pc'[u] = pc[u] /\ my'[u] = my[u]
<1>1. \/ Returns(t)
      \/ pc' = [pc EXCEPT ![t] = "check"] /\ my' = my
      \/ pc' = [pc EXCEPT ![t] = "rest"] /\ my' = my
  BY DEF Checked, Goto
<1>2. CASE Returns(t)
  BY <1>2, ReturnsTypes
<1>3. CASE pc' = [pc EXCEPT ![t] = "check"] /\ my' = my
  BY <1>3 DEF EpochTypes
<1>4. CASE pc' = [pc EXCEPT ![t] = "rest"] /\ my' = my
  BY <1>4 DEF EpochTypes
<1>. QED  BY <1>1, <1>2, <1>3, <1>4

LEMMA StepCheckInv ==
  ASSUME EpochInv, NEW t \in Thread, StepCheck(t) PROVE EpochInv'
<1>. DEFINE other == epoch[checked[t]]
<1>1. /\ pc[t] = "check"
      /\ UNCHANGED <<epoch_, epoch, to_skip, bag_i, to_delete, cell, deleted>>
      /\ \/ /\ other.idle \/ other.n = epoch[t].n
            /\ checked' = [checked EXCEPT ![t] = @ + 1]
            /\ \/ checked[t] = Threads /\ pc' = [pc EXCEPT ![t] = "advance"] /\ my' = my
               \/ checked[t] # Threads /\ Checked(t, TRUE)
         \/ checked' = checked /\ Checked(t, FALSE)
  BY DEF StepCheck, Goto
<1>2. /\ pc' \in [Thread -> {"out", "in", "set", "check", "advance", "reset", "checked",
                             "rest", "again"}]
      /\ my' \in [Thread -> [call : {"none", "lock", "retire", "sync"}, e : Nat, str : Nat]]
      /\ my'[t].str = my[t].str /\ my'[t].e \in {0, my[t].e}
      /\ \A u \in Thread \ {t} : pc'[u] = pc[u] /\ my'[u] = my[u]
      /\ pc'[t] \in {"in", "check", "rest", "advance"}
      /\ pc'[t] = "advance" <=> checked[t] = Threads /\ checked' # checked
  <2>1. checked' = [checked EXCEPT ![t] = @ + 1] => checked' # checked
    BY DEF EpochInv, EpochTypes, Thread
  <2>2. CASE Checked(t, TRUE) /\ ~(checked[t] = Threads /\ checked' # checked)
    BY <2>2, CheckedSteps DEF EpochInv
  <2>3. CASE Checked(t, FALSE) /\ checked' = checked
    BY <2>3, CheckedSteps DEF EpochInv
  <2>4. CASE checked[t] = Threads /\ pc' = [pc EXCEPT ![t] = "advance"] /\ my' = my
             /\ checked' # checked
    BY <2>4 DEF EpochInv, EpochTypes
  <2>. QED  BY <1>1, <2>1, <2>2, <2>3, <2>4
<1>3. /\ checked[t] \in 1..Threads /\ checked \in [Thread -> 1..Threads + 1]
      /\ \A u \in Thread \ {t} : checked'[u] = checked[u]
      /\ \/ checked'[t] = checked[t]
         \/ checked'[t] = checked[t] + 1 /\ (other.idle \/ other.n = epoch[t].n)
      /\ checked' \in [Thread -> 1..Threads + 1]
      /\ my[t].str = None
  <2>1. checked \in [Thread -> 1..Threads + 1] /\ my[t].str = None
    BY <1>1 DEF EpochInv, EpochTypes, HeldUnderLock
  <2>2. checked[t] # Threads + 1
    BY <1>1 DEF EpochInv, EpochsGrow
  <2>3. checked[t] \in 1..Threads
    BY <2>1, <2>2, ThreadsAssumption
  <2>4. CASE checked' = checked
    BY <2>1, <2>3, <2>4
  <2>5. CASE /\ checked' = [checked EXCEPT ![t] = @ + 1]
             /\ other.idle \/ other.n = epoch[t].n
    <3>1. checked[t] + 1 \in 1..Threads + 1
      BY <2>3, ThreadsAssumption
    <3>. QED  BY <2>1, <2>3, <2>5, <3>1
  <2>. QED  BY <1>1, <2>4, <2>5
<1>4. EpochTypes'
  BY <1>1, <1>2, <1>3 DEF EpochInv, EpochTypes
<1>5. EpochsGrow'
  <2>1. checked'[t] = Threads + 1 <=> pc'[t] \in {"advance", "reset"}
    <3>1. checked' # checked => checked'[t] = checked[t] + 1
      BY <1>3
    <3>2. checked'[t] = Threads + 1 <=> checked[t] = Threads /\ checked' # checked
      BY <1>3, <3>1, ThreadsAssumption
    <3>. QED  BY <1>2, <3>2
  <2>. QED  BY <1>1, <1>2, <1>3, <2>1 DEF EpochInv, EpochTypes, EpochsGrow
<1>6. HeldUnderLock'
  BY <1>1, <1>2, <1>3 DEF EpochInv, EpochTypes, HeldUnderLock, None
<1>7. ASSUME NEW s \in Thread, Stuck(s), my[s].str # None, epoch[t].n = epoch_
      PROVE  checked'[t] <= s
  <2>1. checked[t] <= s /\ ~epoch[s].idle /\ epoch[s].n < epoch_ /\ epoch_ \in Nat
        /\ epoch[s].n \in Nat
    BY <1>7 DEF EpochInv, EpochTypes, Stuck, HeldUnderLock
  <2>2. other.idle \/ other.n = epoch[t].n => checked[t] # s
    BY <1>7, <2>1
  <2>. QED  BY <1>3, <2>1, <2>2 DEF Thread
<1>. HIDE DEF other
<1>8. Young' /\ NothingHeldIsDeleted'
  BY <1>1, <1>2, <1>3, <1>4, <1>7, QuietYoung
<1>. QED  BY <1>4, <1>5, <1>6, <1>8 DEF EpochInv

LEMMA AdvanceEpochInv ==
  ASSUME EpochInv, NEW t \in Thread, AdvanceEpoch(t) PROVE EpochInv'
<1>1. /\ pc[t] = "advance" /\ pc' = [pc EXCEPT ![t] = "reset"]
      /\ my' = [my EXCEPT ![t].e = epoch_']
      /\ UNCHANGED <<data, cell, deleted>>
      /\ \/ epoch_ = epoch[t].n /\ epoch_' = epoch_ + 1
         \/ epoch_ # epoch[t].n /\ epoch_' = epoch_
  BY DEF AdvanceEpoch, Goto
<1>0. /\ epoch_ \in Nat /\ epoch[t].n \in Nat /\ epoch[t].n <= epoch_
      /\ epoch_' \in Nat /\ epoch_ <= epoch_' /\ epoch[t].n < epoch_'
  <2>1. epoch_ \in Nat /\ epoch[t].n \in Nat /\ epoch[t].n <= epoch_
    BY DEF EpochInv, EpochTypes, EpochsGrow
  <2>. QED  BY <1>1, <2>1
<1>2. /\ my[t].str = None /\ checked[t] = Threads + 1
      /\ my'[t].e = epoch_' /\ my'[t].str = None /\ pc'[t] = "reset"
      /\ \A u \in Thread \ {t} : pc'[u] = pc[u] /\ my'[u] = my[u]
      /\ epoch' = epoch /\ checked' = checked /\ bag_i' = bag_i /\ to_delete' = to_delete
  BY <1>1 DEF EpochInv, EpochTypes, EpochsGrow, HeldUnderLock, data
<1>3. EpochTypes'
  BY <1>0, <1>1, <1>2 DEF EpochInv, EpochTypes
<1>4. EpochsGrow'
  BY <1>0, <1>1, <1>2 DEF EpochInv, EpochTypes, EpochsGrow
<1>5. HeldUnderLock'
  BY <1>1, <1>2 DEF EpochInv, EpochTypes, HeldUnderLock
<1>6. CASE epoch_ = epoch[t].n /\ epoch_' = epoch_ + 1
  <2>1. \A s \in Thread : ~Stuck(s)
    <3>1. \A s \in Thread : ~(Threads + 1 <= s)
      BY ThreadsAssumption DEF Thread
    <3>. QED  BY <1>2, <1>6, <3>1 DEF Stuck
  <2>2. \A s \in Thread : Stuck(s)'
    BY <1>2, <1>6 DEF EpochInv, EpochTypes, EpochsGrow, Stuck
  <2>3. ASSUME NEW e \in Nat, NEW s \in Thread, Recent(s, e)
        PROVE  e + 1 >= epoch_'
    BY <1>6, <2>1, <2>3 DEF Recent
  <2>4. NothingHeldIsDeleted'
    BY <1>1, <1>2 DEF EpochInv, NothingHeldIsDeleted
  <2>5. ASSUME NEW s \in Thread, NEW u \in Thread, NEW b \in 0..2,
               my'[s].str \in to_delete'[u][b]
        PROVE  /\ Age(u, b)' = 0 /\ pc'[u] \in {"set", "reset"} => Recent(s, my[u].e)'
               /\ Age(u, b)' = 1 => Recent(s, epoch[u].n)'
               /\ Age(u, b)' = 2 => Stuck(s)' /\ epoch'[u].n = epoch_'
    <3>1. my[s].str \in to_delete[u][b]
      BY <1>2, <2>5, Retired DEF EpochInv
    <3>2. /\ Age(u, b) = 0 /\ pc[u] \in {"set", "reset"} => Recent(s, my[u].e)
          /\ Age(u, b) = 1 => Recent(s, epoch[u].n)
          /\ Age(u, b) = 2 => Stuck(s) /\ epoch[u].n = epoch_
      BY <3>1 DEF EpochInv, Young
    <3>3. Age(u, b)' = Age(u, b)
      BY <1>2 DEF Age, Rotated
    <3>4. my[u].e \in Nat /\ epoch[u].n \in Nat
      BY DEF EpochInv, EpochTypes
    <3>5. Recent(s, my[u].e) => my[u].e + 1 >= epoch_'
      BY <2>3, <3>4
    <3>6. Recent(s, epoch[u].n) => epoch[u].n + 1 >= epoch_'
      BY <2>3, <3>4
    <3>7. CASE u = t
      BY <1>2, <2>1, <2>2, <3>2, <3>3, <3>6, <3>7 DEF Recent
    <3>8. CASE u # t
      BY <1>2, <2>1, <2>2, <3>2, <3>3, <3>5, <3>6, <3>8 DEF Recent
    <3>. QED  BY <3>7, <3>8
  <2>6. Young'
    BY <2>5 DEF Young
  <2>. QED  BY <1>3, <1>4, <1>5, <2>4, <2>6 DEF EpochInv
<1>7. CASE epoch_ # epoch[t].n /\ epoch_' = epoch_
  <2>1. Young' /\ NothingHeldIsDeleted'
    BY <1>1, <1>2, <1>3, <1>7, QuietYoung
  <2>. QED  BY <1>3, <1>4, <1>5, <2>1 DEF EpochInv
<1>. QED  BY <1>1, <1>6, <1>7

LEMMA ResetInv ==
  ASSUME EpochInv, NEW t \in Thread, Reset(t) PROVE EpochInv'
<1>1. /\ pc[t] = "reset" /\ pc' = [pc EXCEPT ![t] = "checked"]
      /\ UNCHANGED <<epoch_, cell, my>>
      /\ epoch' = [epoch EXCEPT ![t] = [n |-> my[t].e, idle |-> FALSE]]
      /\ checked' = [checked EXCEPT ![t] = 1]
      /\ bag_i' = [bag_i EXCEPT ![t] = Rotated(t)]
      /\ deleted' = deleted \cup to_delete[t][Rotated(t)]
      /\ to_delete' = [to_delete EXCEPT ![t][Rotated(t)] = {}]
  BY DEF Reset
<1>2. /\ epoch[t].n < my[t].e /\ my[t].e <= epoch_ /\ my[t].e \in Nat /\ my[t].str = None
      /\ pc'[t] = "checked" /\ \A u \in Thread \ {t} : pc'[u] = pc[u]
      /\ checked'[t] = 1 /\ \A u \in Thread \ {t} : checked'[u] = checked[u]
      /\ epoch'[t] = [n |-> my[t].e, idle |-> FALSE]
      /\ \A u \in Thread \ {t} : epoch'[u] = epoch[u]
  BY <1>1 DEF EpochInv, EpochTypes, EpochsGrow, HeldUnderLock
<1>3. EpochTypes'
  <2>1. epoch' \in [Thread -> [n : Nat, idle : BOOLEAN]]
    BY <1>1, <1>2 DEF EpochInv, EpochTypes
  <2>. QED  BY <1>1, <1>2, <2>1, BagEmptied DEF EpochInv, EpochTypes
<1>4. EpochsGrow'
  BY <1>1, <1>2, ThreadsAssumption DEF EpochInv, EpochTypes, EpochsGrow
<1>5. HeldUnderLock'
  BY <1>1, <1>2 DEF EpochInv, EpochTypes, HeldUnderLock
<1>6. Young' /\ NothingHeldIsDeleted'
  BY <1>1, <1>2, <1>3, ChangeYoung
<1>. QED  BY <1>3, <1>4, <1>5, <1>6 DEF EpochInv

LEMMA ResumeInv ==
  ASSUME EpochInv, NEW t \in Thread, Resume(t) PROVE EpochInv'
<1>1. /\ pc[t] = "checked" /\ Checked(t, TRUE)
      /\ UNCHANGED <<epoch_, epoch, to_skip, checked, bag_i, to_delete, cell, deleted>>
  BY DEF Resume, data
<1>2. /\ pc' \in [Thread -> {"out", "in", "set", "check", "advance", "reset", "checked",
                             "rest", "again"}]
      /\ my' \in [Thread -> [call : {"none", "lock", "retire", "sync"}, e : Nat, str : Nat]]
      /\ pc'[t] \in {"in", "check", "rest"}
      /\ my'[t].str = my[t].str /\ my'[t].e \in {0, my[t].e}
      /\ \A u \in Thread \ {t} : pc'[u] = pc[u] /\ my'[u] = my[u]
  BY <1>1, CheckedSteps DEF EpochInv
<1>3. EpochTypes'
  BY <1>1, <1>2 DEF EpochInv, EpochTypes
<1>4. EpochsGrow'
  <2>1. my'[t].e <= epoch_
    BY <1>2 DEF EpochInv, EpochTypes, EpochsGrow
  <2>. QED  BY <1>1, <1>2, <2>1 DEF EpochInv, EpochTypes, EpochsGrow
<1>5. HeldUnderLock'
  BY <1>1, <1>2 DEF EpochInv, EpochTypes, HeldUnderLock
<1>6. Young' /\ NothingHeldIsDeleted'
  <2>1. \A s \in Thread : Stuck(s) /\ epoch[t].n = epoch_ => checked'[t] <= s
    BY <1>1 DEF Stuck
  <2>. QED  BY <1>1, <1>2, <1>3, <2>1, QuietYoung
<1>. QED  BY <1>3, <1>4, <1>5, <1>6 DEF EpochInv

LEMMA RestInv ==
  ASSUME EpochInv, NEW t \in Thread, Rest(t) PROVE EpochInv'
<1>1. /\ pc[t] = "rest" /\ epoch' = [epoch EXCEPT ![t].idle = TRUE]
      /\ UNCHANGED <<epoch_, to_skip, checked, bag_i, to_delete, cell, deleted>>
      /\ \/ pc' = [pc EXCEPT ![t] = "out"]
            /\ my' = [my EXCEPT ![t] = [call |-> "none", e |-> 0, str |-> my[t].str]]
         \/ pc' = [pc EXCEPT ![t] = "again"] /\ my' = my
  BY DEF Rest, Goto, Forgets
<1>2. /\ pc' \in [Thread -> {"out", "in", "set", "check", "advance", "reset", "checked",
                             "rest", "again"}]
      /\ my' \in [Thread -> [call : {"none", "lock", "retire", "sync"}, e : Nat, str : Nat]]
      /\ pc'[t] \in {"out", "again"}
      /\ my'[t].str = my[t].str /\ my'[t].e \in {0, my[t].e}
      /\ \A u \in Thread \ {t} : pc'[u] = pc[u] /\ my'[u] = my[u]
  <2>. DEFINE r == [call |-> "none", e |-> 0, str |-> my[t].str]
  <2>1. /\ r \in [call : {"none", "lock", "retire", "sync"}, e : Nat, str : Nat]
        /\ r.str = my[t].str /\ r.e = 0
    BY DEF EpochInv, EpochTypes
  <2>2. CASE pc' = [pc EXCEPT ![t] = "out"] /\ my' = [my EXCEPT ![t] = r]
    <3>. HIDE DEF r
    <3>. QED  BY <2>1, <2>2 DEF EpochInv, EpochTypes
  <2>3. CASE pc' = [pc EXCEPT ![t] = "again"] /\ my' = my
    BY <2>3 DEF EpochInv, EpochTypes
  <2>. QED  BY <1>1, <2>2, <2>3
<1>3. /\ epoch' \in [Thread -> [n : Nat, idle : BOOLEAN]]
      /\ \A u \in Thread : epoch'[u].n = epoch[u].n
      /\ \A u \in Thread \ {t} : epoch'[u] = epoch[u]
      /\ my[t].str = None
  <2>1. my[t].str = None
    BY <1>1 DEF EpochInv, HeldUnderLock
  <2>2. epoch' \in [Thread -> [n : Nat, idle : BOOLEAN]]
    <3>1. epoch \in [Thread -> [n : Nat, idle : BOOLEAN]]
      BY DEF EpochInv, EpochTypes
    <3>2. epoch' = [epoch EXCEPT ![t].idle = TRUE]
      BY <1>1
    <3>. QED  BY <3>1, <3>2
  <2>3. /\ \A u \in Thread : epoch'[u].n = epoch[u].n
        /\ \A u \in Thread \ {t} : epoch'[u] = epoch[u]
    BY <1>1 DEF EpochInv, EpochTypes
  <2>. QED  BY <2>1, <2>2, <2>3
<1>4. EpochTypes'
  BY <1>1, <1>2, <1>3 DEF EpochInv, EpochTypes
<1>5. EpochsGrow'
  BY <1>1, <1>2, <1>3 DEF EpochInv, EpochTypes, EpochsGrow
<1>6. HeldUnderLock'
  BY <1>1, <1>2, <1>3 DEF EpochInv, EpochTypes, HeldUnderLock
<1>7. Young' /\ NothingHeldIsDeleted'
  <2>1. \A s \in Thread : Stuck(s) /\ epoch[t].n = epoch_ => checked'[t] <= s
    BY <1>1 DEF Stuck
  <2>. QED  BY <1>1, <1>2, <1>3, <1>4, <2>1, QuietYoung
<1>. QED  BY <1>4, <1>5, <1>6, <1>7 DEF EpochInv

LEMMA AgainInv ==
  ASSUME EpochInv, NEW t \in Thread, Again(t) PROVE EpochInv'
<1>1. /\ pc[t] = "again" /\ pc' = [pc EXCEPT ![t] = "set"]
      /\ my' = [my EXCEPT ![t].e = epoch_]
      /\ UNCHANGED <<epoch_, epoch, to_skip, checked, bag_i, to_delete, cell, deleted>>
  BY DEF Again, Goto, data
<1>2. /\ pc'[t] = "set" /\ my'[t].e = epoch_ /\ my'[t].str = my[t].str
      /\ \A u \in Thread \ {t} : pc'[u] = pc[u] /\ my'[u] = my[u]
  BY <1>1 DEF EpochInv, EpochTypes
<1>3. EpochTypes'
  BY <1>1 DEF EpochInv, EpochTypes
<1>4. EpochsGrow'
  BY <1>1, <1>2 DEF EpochInv, EpochTypes, EpochsGrow
<1>5. HeldUnderLock'
  BY <1>1, <1>2 DEF EpochInv, EpochTypes, HeldUnderLock
<1>6. Young' /\ NothingHeldIsDeleted'
  <2>1. \A s \in Thread : Stuck(s) /\ epoch[t].n = epoch_ => checked'[t] <= s
    BY <1>1 DEF Stuck
  <2>. QED  BY <1>1, <1>2, <1>3, <2>1, QuietYoung
<1>. QED  BY <1>3, <1>4, <1>5, <1>6 DEF EpochInv

\* The client's steps.
LEMMA LoadInv ==
  ASSUME EpochInv, NEW t \in Thread, Load(t) PROVE EpochInv'
<1>1. /\ pc[t] = "in" /\ my' = [my EXCEPT ![t].str = cell]
      /\ UNCHANGED <<epoch_, epoch, to_skip, checked, bag_i, to_delete, cell, deleted, pc>>
  BY DEF Load, data
<1>2. /\ my'[t].e = my[t].e /\ my'[t].str = cell
      /\ \A u \in Thread \ {t} : my'[u] = my[u]
  BY <1>1 DEF EpochInv, EpochTypes
<1>3. EpochTypes'
  BY <1>1 DEF EpochInv, EpochTypes
<1>4. EpochsGrow'
  BY <1>1, <1>2 DEF EpochInv, EpochTypes, EpochsGrow
<1>5. HeldUnderLock'
  BY <1>1, <1>2 DEF EpochInv, EpochTypes, HeldUnderLock
<1>6. NothingHeldIsDeleted'
  BY <1>1, <1>2 DEF EpochInv, EpochTypes, NothingHeldIsDeleted
<1>7. ASSUME NEW s \in Thread, NEW u \in Thread, NEW b \in 0..2,
             my'[s].str \in to_delete'[u][b]
      PROVE  /\ Age(u, b)' = 0 /\ pc'[u] \in {"set", "reset"} => Recent(s, my[u].e)'
             /\ Age(u, b)' = 1 => Recent(s, epoch[u].n)'
             /\ Age(u, b)' = 2 => Stuck(s)' /\ epoch'[u].n = epoch_'
  <2>1. s # t
    BY <1>1, <1>2, <1>7, Retired DEF EpochInv
  <2>2. my[s].str \in to_delete[u][b]
    BY <1>1, <1>2, <1>7, <2>1
  <2>3. Age(u, b)' = Age(u, b) /\ (Stuck(s)' <=> Stuck(s)) /\ my'[u].e = my[u].e
    BY <1>1, <1>2 DEF Age, Rotated, Stuck
  <2>. QED  BY <1>1, <2>2, <2>3 DEF EpochInv, Young, Recent
<1>8. Young'
  BY <1>7 DEF Young
<1>. QED  BY <1>3, <1>4, <1>5, <1>6, <1>8 DEF EpochInv

LEMMA ReplaceInv ==
  ASSUME EpochInv, NEW t \in Thread, Replace(t) PROVE EpochInv'
<1>1. /\ pc[t] = "in" /\ my[t].str = cell /\ cell' = cell + 1
      /\ to_delete' = [to_delete EXCEPT ![t][bag_i[t]] = @ \cup {cell}]
      /\ my' = [my EXCEPT ![t].str = None]
      /\ UNCHANGED <<epoch_, epoch, to_skip, checked, bag_i, deleted, pc>>
  BY DEF Replace
<1>2. /\ my'[t].e = my[t].e /\ my'[t].str = None
      /\ \A u \in Thread \ {t} : my'[u] = my[u]
      /\ bag_i[t] \in 0..2
      /\ \A u \in Thread, b \in 0..2 :
           to_delete'[u][b] = IF u = t /\ b = bag_i[t] THEN to_delete[u][b] \cup {cell}
                              ELSE to_delete[u][b]
      /\ cell \in Nat \ {0}
  BY <1>1 DEF EpochInv, EpochTypes
<1>3. EpochTypes'
  <2>. DEFINE old == 1..cell - 1
              new == 1..cell
  <2>1. old \subseteq new /\ cell \in new /\ new = 1..cell' - 1 /\ cell' \in Nat \ {0}
    BY <1>1, <1>2
  <2>2. to_delete \in [Thread -> [0..2 -> SUBSET old]] /\ deleted \in SUBSET old
    BY DEF EpochInv, EpochTypes
  <2>. HIDE DEF old, new
  <2>3. to_delete \in [Thread -> [0..2 -> SUBSET new]] /\ deleted \in SUBSET new
    BY <2>1, <2>2
  <2>4. to_delete' \in [Thread -> [0..2 -> SUBSET new]]
    <3>. DEFINE bag == to_delete[t][bag_i[t]] \cup {cell}
                bags == [to_delete[t] EXCEPT ![bag_i[t]] = bag]
    <3>1. to_delete' = [to_delete EXCEPT ![t] = bags]
      BY <1>1
    <3>2. to_delete[t] \in [0..2 -> SUBSET new]
      BY <2>3
    <3>3. bag \in SUBSET new
      BY <1>2, <2>1, <3>2
    <3>. HIDE DEF bag
    <3>4. bags \in [0..2 -> SUBSET new]
      BY <3>2, <3>3
    <3>. HIDE DEF bags
    <3>. QED  BY <2>3, <3>1, <3>4
  <2>5. my' \in [Thread -> [call : {"none", "lock", "retire", "sync"}, e : Nat, str : Nat]]
    BY <1>1 DEF EpochInv, EpochTypes, None
  <2>6. to_delete' \in [Thread -> [0..2 -> SUBSET (1..cell' - 1)]]
        /\ deleted' \in SUBSET (1..cell' - 1) /\ cell' \in Nat \ {0}
    BY <1>1, <2>1, <2>3, <2>4
  <2>. QED  BY <1>1, <2>5, <2>6 DEF EpochInv, EpochTypes
<1>4. EpochsGrow'
  BY <1>1, <1>2 DEF EpochInv, EpochTypes, EpochsGrow
<1>5. HeldUnderLock'
  BY <1>1, <1>2 DEF EpochInv, EpochTypes, HeldUnderLock, None
<1>6. NothingHeldIsDeleted'
  BY <1>1, <1>2 DEF EpochInv, EpochTypes, NothingHeldIsDeleted, None
<1>7. ASSUME NEW s \in Thread, NEW u \in Thread, NEW b \in 0..2,
             my'[s].str \in to_delete'[u][b]
      PROVE  /\ Age(u, b)' = 0 /\ pc'[u] \in {"set", "reset"} => Recent(s, my[u].e)'
             /\ Age(u, b)' = 1 => Recent(s, epoch[u].n)'
             /\ Age(u, b)' = 2 => Stuck(s)' /\ epoch'[u].n = epoch_'
  <2>1. Age(u, b)' = Age(u, b) /\ (Stuck(s)' <=> Stuck(s)) /\ my'[u].e = my[u].e
    BY <1>1, <1>2 DEF Age, Rotated, Stuck
  <2>2. CASE u = t /\ b = bag_i[t]
    BY <1>1, <2>1, <2>2 DEF Age
  <2>3. CASE ~(u = t /\ b = bag_i[t])
    <3>1. my'[s].str \in to_delete[u][b]
      BY <1>2, <1>7, <2>3
    <3>2. my'[s].str = my[s].str
      BY <1>2, <3>1, Retired DEF EpochInv
    <3>. QED  BY <1>1, <2>1, <3>1, <3>2 DEF EpochInv, Young, Recent
  <2>. QED  BY <2>2, <2>3
<1>8. Young'
  BY <1>7 DEF Young
<1>. QED  BY <1>3, <1>4, <1>5, <1>6, <1>8 DEF EpochInv

LEMMA UnlockInv ==
  ASSUME EpochInv, NEW t \in Thread, Unlock(t) PROVE EpochInv'
<1>1. /\ pc[t] = "in" /\ pc' = [pc EXCEPT ![t] = "out"]
      /\ epoch' = [epoch EXCEPT ![t].idle = TRUE]
      /\ my' = [my EXCEPT ![t].str = None]
      /\ UNCHANGED <<epoch_, to_skip, checked, bag_i, to_delete, cell, deleted>>
  BY DEF Unlock, Goto
<1>2. /\ pc'[t] = "out" /\ my'[t].str = None /\ my'[t].e = my[t].e
      /\ \A u \in Thread \ {t} : pc'[u] = pc[u] /\ my'[u] = my[u] /\ epoch'[u] = epoch[u]
      /\ \A u \in Thread : epoch'[u].n = epoch[u].n
  BY <1>1 DEF EpochInv, EpochTypes
<1>3. EpochTypes'
  BY <1>1 DEF EpochInv, EpochTypes, None
<1>4. EpochsGrow'
  BY <1>1, <1>2 DEF EpochInv, EpochTypes, EpochsGrow
<1>5. HeldUnderLock'
  BY <1>1, <1>2 DEF EpochInv, EpochTypes, HeldUnderLock, None
<1>6. Young' /\ NothingHeldIsDeleted'
  <2>1. \A s \in Thread : Stuck(s) /\ epoch[t].n = epoch_ => checked'[t] <= s
    BY <1>1 DEF Stuck
  <2>. QED  BY <1>1, <1>2, <1>3, <2>1, QuietYoung
<1>. QED  BY <1>3, <1>4, <1>5, <1>6 DEF EpochInv

LEMMA EpochStepInv == EpochInv /\ [Next]_vars => EpochInv'
<1>. SUFFICES ASSUME EpochInv, [Next]_vars PROVE EpochInv'
  OBVIOUS
<1>1. CASE UNCHANGED vars
  BY <1>1
  DEF vars, data, EpochInv, EpochTypes, EpochsGrow, HeldUnderLock, Young, Stuck, Recent, Age,
      Rotated, NothingHeldIsDeleted
<1>2. ASSUME NEW t \in Thread, Step(t) PROVE EpochInv'
  BY <1>2, CallInv, SetEpochInv, StepCheckInv, AdvanceEpochInv, ResetInv, ResumeInv, RestInv,
     AgainInv, LoadInv, ReplaceInv, UnlockInv
  DEF Step
<1>. QED  BY <1>1, <1>2 DEF Next

\* EpochBasedMemoryReclamation: however many threads lock, retire and check at once,
\* nothing that one of them loaded under its lock is deleted while it may use it.
THEOREM NothingHeldIsDeletedAlways == Spec => []NothingHeldIsDeleted
<1>1. EpochInv => NothingHeldIsDeleted
  BY DEF EpochInv
<1>. QED  BY <1>1, EpochInitInv, EpochStepInv, PTL DEF Spec
-----------------------------------------------------------------------------
(***************************************************************************)
(* The chain buffer.  A node is final once the writer has left it; the     *)
(* reader leaves a node only after it has learnt that, and then looked at  *)
(* its bytes once more.                                                    *)
(***************************************************************************)
NodeType == [sync : BOOLEAN, base : Nat, end : Nat, has_writer : BOOLEAN, next : Nat]
Last == Len(node)

\* The nodes hold what was written without gaps; the writer is at the last node, or
\* about to leave the one before it.
NodesInv ==
  /\ node \in Seq(NodeType) /\ Last >= 1 /\ written \in Nat /\ room \in Nat
  /\ \A n \in 1..Last :
       /\ node[n].next = IF n < Last THEN n + 1 ELSE Null
       /\ n < Last => node[n + 1].base = node[n].base + node[n].end
       /\ node[n].base + node[n].end <= written
       /\ node[n].has_writer <=> tail # Null /\ tail <= n
  /\ node[1].base = 0 /\ node[Last].base + node[Last].end = written
  /\ tail \in {Null, Last - 1, Last}
  /\ room # 0 => node[Last].sync

\* An iterator is at a place that exists; it is past the end when the writer is gone and
\* all was read; and the nodes before it are left.
IteratorInv(i) ==
  LET h == it[i].head IN
  /\ h # Null =>
       /\ h <= Last /\ it[i].from <= it[i].to /\ it[i].to <= node[h].end
       /\ it[i].offset = node[h].base + it[i].from
       /\ ~node[h].sync => it[i].to = node[h].end
  /\ h = Null => tail = Null /\ it[i].offset = written
  /\ \A n \in 1..Last : h = Null \/ n < h => ~node[n].has_writer

\* Reading stays behind what was announced, and what was read is the beginning of what
\* was written.
ReadInv ==
  /\ it \in [{"begin", "end"} -> [head : Nat, from : Nat, to : Nat, offset : Nat]]
  /\ it["end"].head # Null => it["begin"].head # Null /\ it["begin"].head <= it["end"].head
  /\ it["begin"].offset <= it["end"].offset
  /\ out = [i \in 1..it["begin"].offset |-> i]

\* Where an operation of the reader is, and what alive tells.
OperationInv ==
  /\ op \in [kind : {"none", "sync", "read"}, with : {"begin", "end"}, left : Nat,
             last : BOOLEAN]
  /\ at \in {"idle", "look", "sync", "decide"} /\ alive \in BOOLEAN
  /\ at = "idle" => op = NoOp
  /\ at # "idle" => op.kind # "none"
  /\ op.kind = "sync" => op.with = "end"
  /\ op.kind = "read" =>
       op.with = "begin" /\ op.left > 0 /\ it["begin"].offset + op.left <= it["end"].offset
  /\ op.last => op.kind = "sync" /\ tail = Null
  /\ at \in {"sync", "decide"} =>
       /\ It.head # Null /\ It.from = It.to
       /\ ~alive => ~Here.has_writer
       /\ op.last => ~alive
  /\ at = "sync" /\ op.kind = "read" /\ alive => it["end"].head = it["begin"].head
  /\ at = "decide" => /\ ~alive => It.from = Here.end
                      /\ op.kind = "read" => ~alive

BufferInv ==
  NodesInv /\ IteratorInv("begin") /\ IteratorInv("end") /\ ReadInv /\ OperationInv

LEMMA BufferInitInv == BufferInit => BufferInv
<1>. SUFFICES ASSUME BufferInit PROVE BufferInv
  OBVIOUS
<1>. USE DEF BufferInit, SyncedNode, NoOp, Null
<1>1. NodesInv
  <2>1. SyncedNode \in NodeType
    BY DEF NodeType
  <2>2. node \in Seq(NodeType) /\ Len(node) = 1 /\ node[1] = SyncedNode
    BY <2>1
  <2>. QED  BY <2>2, BufferAssumption DEF NodesInv, Last
<1>2. IteratorInv("begin") /\ IteratorInv("end")
  BY DEF IteratorInv, Last
<1>3. ReadInv
  BY DEF ReadInv
<1>4. OperationInv
  BY DEF OperationInv
<1>. QED  BY <1>1, <1>2, <1>3, <1>4 DEF BufferInv

\* A step of the writer: nodes change only where it has not left them.
LEMMA WriterInv ==
  ASSUME BufferInv, NodesInv', UNCHANGED reader, tail # Null,
         Last <= Last',
         \A n \in 1..Last :
           /\ node'[n].base = node[n].base /\ node'[n].sync = node[n].sync
           /\ node[n].end <= node'[n].end
           /\ ~node[n].sync \/ ~node[n].has_writer => node'[n].end = node[n].end
           /\ ~node[n].has_writer => ~node'[n].has_writer
  PROVE  BufferInv'
<1>. USE DEF BufferInv, reader
<1>0. /\ Last \in Nat /\ Last' \in Nat
      /\ \A n \in 1..Last : node[n] \in NodeType
      /\ \A n \in 1..Last' : node'[n] \in NodeType
  BY LenProperties, ElementOfSeq DEF NodesInv, Last
<1>1. ASSUME NEW i \in {"begin", "end"}, IteratorInv(i)  PROVE IteratorInv(i)'
  <2>. DEFINE h == it[i].head
  <2>1. h # Null /\ h \in 1..Last /\ h \in Nat /\ it[i].to \in Nat /\ it' = it
    BY <1>1 DEF IteratorInv, ReadInv, Null
  <2>2. /\ h <= Last' /\ it[i].to <= node'[h].end
        /\ it[i].offset = node'[h].base + it[i].from
        /\ ~node'[h].sync => it[i].to = node'[h].end
    <3>1. node[h].end \in Nat /\ node'[h].end \in Nat
      BY <1>0, <2>1 DEF NodeType
    <3>. QED  BY <1>0, <1>1, <2>1, <3>1 DEF IteratorInv
  <2>3. \A n \in 1..Last' : n < h => ~node'[n].has_writer
    BY <1>0, <1>1, <2>1 DEF IteratorInv
  <2>. QED  BY <1>1, <2>1, <2>2, <2>3 DEF IteratorInv
<1>2. ReadInv'
  BY DEF ReadInv
<1>3. OperationInv'
  <2>1. ~op.last
    BY DEF OperationInv
  <2>2. It.head # Null => It.head \in 1..Last
    BY DEF IteratorInv, ReadInv, OperationInv, It, Null
  <2>3. It' = It
    BY DEF It
  <2>4. It.head # Null /\ ~Here.has_writer => ~Here'.has_writer /\ Here'.end = Here.end
    BY <2>2, <2>3 DEF Here
  <2>. QED  BY <2>1, <2>3, <2>4 DEF OperationInv
<1>4. IteratorInv("begin")' /\ IteratorInv("end")'
  BY <1>1
<1>. QED  BY <1>2, <1>3, <1>4

\* The last node grows.
LEMMA AppendInv ==
  ASSUME BufferInv, NEW n \in 1..Capacity, Append_(n) PROVE BufferInv'
<1>. USE DEF BufferInv
<1>1. /\ tail # Null /\ n <= room /\ n \in Nat \ {0} /\ node[tail].next = Null
      /\ node' = [node EXCEPT ![tail].end = @ + n]
      /\ room' = room - n /\ written' = written + n /\ tail' = tail
      /\ UNCHANGED reader
  BY BufferAssumption DEF Append_
<1>2. /\ Last \in Nat /\ \A m \in 1..Last : node[m] \in NodeType
      /\ room \in Nat /\ written \in Nat
  BY LenProperties, ElementOfSeq DEF NodesInv, Last
<1>3. tail = Last /\ tail \in 1..Last /\ node[Last].sync
  BY <1>1, <1>2 DEF NodesInv, Null
<1>. DEFINE new == [node[tail] EXCEPT !.end = @ + n]
<1>4. new \in NodeType /\ node' = [node EXCEPT ![tail] = new]
  BY <1>1, <1>2, <1>3 DEF NodeType
<1>5. /\ new.base = node[tail].base /\ new.sync = node[tail].sync
      /\ new.end = node[tail].end + n /\ new.next = node[tail].next
      /\ new.has_writer = node[tail].has_writer
  BY <1>2, <1>3 DEF NodeType
<1>. HIDE DEF new
<1>6. /\ node' \in Seq(NodeType) /\ Last' = Last
      /\ \A m \in 1..Last : node'[m] = IF m = tail THEN new ELSE node[m]
  BY <1>3, <1>4, ExceptSeq DEF NodesInv, Last
<1>7. NodesInv'
  <2>1. \A m \in 1..Last : node[m].base \in Nat /\ node[m].end \in Nat
    BY <1>2 DEF NodeType
  <2>2. room' \in Nat /\ written' \in Nat
    BY <1>1, <1>2
  <2>3. ASSUME NEW m \in 1..Last
        PROVE  /\ node'[m].next = IF m < Last THEN m + 1 ELSE Null
               /\ m < Last => node'[m + 1].base = node'[m].base + node'[m].end
               /\ node'[m].base + node'[m].end <= written'
               /\ node'[m].has_writer <=> tail # Null /\ tail <= m
    <3>1. /\ node[m].next = IF m < Last THEN m + 1 ELSE Null
          /\ m < Last => node[m + 1].base = node[m].base + node[m].end
          /\ node[m].base + node[m].end <= written
          /\ node[m].has_writer <=> tail # Null /\ tail <= m
      BY DEF NodesInv
    <3>2. m < Last => m + 1 \in 1..Last /\ m # tail
      BY <1>2, <1>3
    <3>3. node'[m].base = node[m].base /\ node'[m].next = node[m].next
          /\ node'[m].has_writer = node[m].has_writer
      BY <1>5, <1>6
    <3>4. m < Last => node'[m + 1].base = node[m + 1].base /\ node'[m].end = node[m].end
      BY <1>5, <1>6, <3>2
    <3>5. node'[m].end <= node[m].end + n /\ node'[m].end \in Nat
      BY <1>1, <1>5, <1>6, <2>1
    <3>6. node[m].base + node'[m].end <= written + n
      BY <1>1, <1>2, <2>1, <3>1, <3>5
    <3>. QED  BY <1>1, <3>1, <3>3, <3>4, <3>6
  <2>4. node'[1].base = 0
    BY <1>2, <1>3, <1>5, <1>6 DEF NodesInv
  <2>5. node'[Last].base + node'[Last].end = written'
    <3>1. node[Last].base + node[Last].end = written
      BY DEF NodesInv
    <3>2. node'[Last].base = node[Last].base /\ node'[Last].end = node[Last].end + n
      BY <1>3, <1>5, <1>6
    <3>3. node[Last].base + (node[Last].end + n) = written + n
      BY <1>1, <1>2, <1>3, <2>1, <3>1
    <3>. QED  BY <1>1, <3>2, <3>3
  <2>6. node'[Last].sync /\ Last >= 1
    BY <1>3, <1>5, <1>6 DEF NodesInv
  <2>. QED  BY <1>1, <1>3, <1>6, <2>2, <2>3, <2>4, <2>5, <2>6 DEF NodesInv
<1>8. /\ Last <= Last'
      /\ \A m \in 1..Last :
           /\ node'[m].base = node[m].base /\ node'[m].sync = node[m].sync
           /\ node[m].end <= node'[m].end
           /\ ~node[m].sync \/ ~node[m].has_writer => node'[m].end = node[m].end
           /\ ~node[m].has_writer => ~node'[m].has_writer
  <2>1. node[tail].has_writer /\ node[tail].sync
    BY <1>1, <1>2, <1>3 DEF NodesInv
  <2>2. \A m \in 1..Last : node[m].end \in Nat
    BY <1>2 DEF NodeType
  <2>. QED  BY <1>1, <1>2, <1>5, <1>6, <2>1, <2>2
<1>. QED  BY <1>1, <1>7, <1>8, WriterInv

\* The nodes are records, and there are some.
LEMMA NodesAre ==
  ASSUME NodesInv
  PROVE  /\ Last \in Nat /\ Last >= 1 /\ 1 \in 1..Last /\ Last \in 1..Last
         /\ node \in Seq(NodeType) /\ written \in Nat /\ room \in Nat
         /\ \A m \in 1..Last : /\ node[m] \in NodeType
                               /\ node[m].base \in Nat /\ node[m].end \in Nat
<1>1. node \in Seq(NodeType) /\ Last >= 1 /\ written \in Nat /\ room \in Nat
  BY DEF NodesInv
<1>2. Last \in Nat /\ \A m \in 1..Last : node[m] \in NodeType
  BY <1>1, LenProperties, ElementOfSeq DEF Last
<1>. QED  BY <1>1, <1>2 DEF NodeType

\* One node changes.
LEMMA NodeChanges ==
  ASSUME NodesInv, NEW n \in 1..Last, NEW r \in NodeType
  PROVE  /\ [node EXCEPT ![n] = r] \in Seq(NodeType) /\ Len([node EXCEPT ![n] = r]) = Last
         /\ \A m \in 1..Last : [node EXCEPT ![n] = r][m] = IF m = n THEN r ELSE node[m]
BY ExceptSeq DEF NodesInv, Last

\* A node is linked behind the last one.
LEMMA Links ==
  ASSUME NodesInv, tail = Last, NEW new \in NodeType,
         node' = Append([node EXCEPT ![tail].next = Len(node) + 1], new)
  PROVE  /\ node' \in Seq(NodeType) /\ Last' = Last + 1 /\ node'[Last + 1] = new
         /\ \A m \in 1..Last : /\ node'[m].base = node[m].base /\ node'[m].end = node[m].end
                               /\ node'[m].sync = node[m].sync
                               /\ node'[m].has_writer = node[m].has_writer
                               /\ m < Last => node'[m].next = node[m].next
                               /\ m = Last => node'[m].next = Last + 1
<1>. DEFINE old == [node[tail] EXCEPT !.next = Last + 1]
            linked == [node EXCEPT ![tail].next = Last + 1]
<1>1. node[tail] \in NodeType /\ tail \in 1..Last /\ Last + 1 \in Nat
  BY NodesAre
<1>2. /\ old \in NodeType
      /\ old.base = node[tail].base /\ old.sync = node[tail].sync
      /\ old.end = node[tail].end /\ old.next = Last + 1
      /\ old.has_writer = node[tail].has_writer
  BY <1>1 DEF NodeType
<1>3. linked = [node EXCEPT ![tail] = old]
  OBVIOUS
<1>4. node' = Append(linked, new)
  BY DEF Last
<1>. HIDE DEF old
<1>5. /\ linked \in Seq(NodeType) /\ Len(linked) = Last
      /\ \A m \in 1..Last : linked[m] = IF m = tail THEN old ELSE node[m]
  BY <1>1, <1>2, <1>3, NodeChanges
<1>. HIDE DEF linked
<1>. DEFINE s == Append(linked, new)
<1>6. /\ s \in Seq(NodeType) /\ Len(s) = Last + 1 /\ s[Last + 1] = new
      /\ \A m \in 1..Last : s[m] = linked[m]
  BY <1>5, AppendProperties
<1>. HIDE DEF s
<1>7. node' = s /\ Last' = Len(s)
  BY <1>4 DEF s, Last
<1>8. \A m \in 1..Last : m = tail <=> m = Last
  OBVIOUS
<1>9. \A m \in 1..Last : m < Last => m # tail
  BY NodesAre
<1>. QED  BY <1>2, <1>5, <1>6, <1>7, <1>9

LEMMA LinkInv ==
  ASSUME BufferInv, tail = Last, NEW new \in NodeType, NEW n \in Nat,
         new.base = written, new.end = n, new.has_writer, new.next = Null,
         node' \in Seq(NodeType), Last' = Last + 1, node'[Last + 1] = new,
         \A m \in 1..Last : /\ node'[m].base = node[m].base /\ node'[m].end = node[m].end
                            /\ node'[m].sync = node[m].sync
                            /\ node'[m].has_writer = node[m].has_writer
                            /\ m < Last => node'[m].next = node[m].next
                            /\ m = Last => node'[m].next = Last + 1,
         written' = written + n, room' \in Nat, room' # 0 => new.sync,
         tail' = tail, UNCHANGED reader
  PROVE  BufferInv'
<1>. USE DEF BufferInv
<1>2. /\ Last \in Nat /\ Last >= 1 /\ written \in Nat
      /\ \A m \in 1..Last : node[m].base \in Nat /\ node[m].end \in Nat
  BY NodesAre
<1>8. \A m \in 1..Last : /\ node'[m].base = node[m].base /\ node'[m].end = node[m].end
                         /\ node'[m].has_writer = node[m].has_writer
                         /\ node[m].base \in Nat /\ node[m].end \in Nat
  BY <1>2
<1>9. NodesInv'
  <2>1. node[Last].base + node[Last].end = written /\ 1 \in 1..Last /\ Last \in 1..Last
    BY <1>2 DEF NodesInv
  <2>2. ASSUME NEW m \in 1..Last
        PROVE  /\ node'[m].next = m + 1
               /\ node'[m + 1].base = node'[m].base + node'[m].end
               /\ node'[m].base + node'[m].end <= written'
               /\ node'[m].has_writer <=> tail <= m
    <3>1. /\ node[m].next = IF m < Last THEN m + 1 ELSE Null
          /\ m < Last => node[m + 1].base = node[m].base + node[m].end
          /\ node[m].base + node[m].end <= written
          /\ node[m].has_writer <=> tail <= m
      BY <1>2 DEF NodesInv, Null
    <3>0. m < Last \/ m = Last
      BY <1>2
    <3>2. node'[m].next = m + 1
      BY <3>0, <3>1
    <3>3. node'[m + 1].base = node'[m].base + node'[m].end
      <4>1. CASE m < Last
        <5>1. m + 1 \in 1..Last
          BY <1>2, <4>1
        <5>. QED  BY <1>8, <3>1, <4>1, <5>1
      <4>2. CASE m = Last
        BY <1>8, <2>1, <4>2
      <4>. QED  BY <3>0, <4>1, <4>2
    <3>4. node[m].base + node[m].end <= written + n
      BY <1>2, <1>8, <3>1
    <3>. QED  BY <1>8, <3>1, <3>2, <3>3, <3>4
  <2>3. /\ node'[Last + 1].next = Null /\ node'[Last + 1].has_writer
        /\ node'[Last + 1].base + node'[Last + 1].end = written'
        /\ tail <= Last + 1
        /\ room' # 0 => node'[Last + 1].sync
    BY <1>2
  <2>4. written' \in Nat /\ node'[1].base = 0
    <3>1. written + n \in Nat
      BY <1>2
    <3>. QED  BY <1>8, <2>1, <3>1 DEF NodesInv
  <2>5. ASSUME NEW m \in 1..Last'
        PROVE  /\ node'[m].next = IF m < Last' THEN m + 1 ELSE Null
               /\ m < Last' => node'[m + 1].base = node'[m].base + node'[m].end
               /\ node'[m].base + node'[m].end <= written'
               /\ node'[m].has_writer <=> tail' # Null /\ tail' <= m
    <3>1. CASE m = Last + 1
      <4>1. ~(m < Last') /\ node'[m] = new
        BY <1>2, <3>1
      <4>2. new.base + new.end = written' /\ written' <= written' /\ tail' # Null
        BY <1>2, <2>4 DEF Null
      <4>3. node'[m].base + node'[m].end <= written'
        BY <4>1, <4>2
      <4>4. node'[m].next = Null /\ node'[m].has_writer
        BY <2>3, <3>1
      <4>5. tail' <= m
        <5>1. tail <= Last + 1
          BY <2>3
        <5>. QED  BY <3>1, <5>1
      <4>. QED  BY <4>1, <4>2, <4>3, <4>4, <4>5
    <3>2. CASE m # Last + 1
      <4>1. m \in 1..Last /\ m < Last' /\ tail' # Null
        BY <1>2, <3>2 DEF Null
      <4>. QED  BY <2>2, <4>1
    <3>. QED  BY <3>1, <3>2
  <2>6. Last' >= 1 /\ tail' = Last' - 1
    BY <1>2
  <2>. QED  BY <2>3, <2>4, <2>5, <2>6 DEF NodesInv
<1>10. \A m \in 1..Last : node[m].end <= node'[m].end
  <2>1. \A m \in 1..Last : node[m].end <= node[m].end
    BY <1>2
  <2>. QED  BY <1>8, <2>1
<1>11. Last <= Last' /\ tail # Null
  BY <1>2 DEF Null
<1>. QED  BY <1>8, <1>9, <1>10, <1>11, WriterInv

\* The writer leaves a node; to is the next one or Null.
LEMMA LeaveInv ==
  ASSUME BufferInv, tail # Null, NEW to,
         to = IF node[tail].next = Null THEN Null ELSE tail + 1,
         node' = [node EXCEPT ![tail].has_writer = FALSE],
         tail' = to, room' \in {0, room}, written' = written, UNCHANGED reader
  PROVE  BufferInv'
<1>. USE DEF BufferInv
<1>1. /\ Last \in Nat /\ \A m \in 1..Last : node[m] \in NodeType
      /\ written \in Nat /\ Last >= 1 /\ node \in Seq(NodeType) /\ room \in Nat
  BY NodesAre
<1>2. tail \in 1..Last /\ tail \in {Last - 1, Last} /\ tail \in Nat
  BY <1>1 DEF NodesInv, Null
<1>3. node[tail].next = Null <=> tail = Last
  BY <1>1, <1>2 DEF NodesInv, Null
<1>. DEFINE old == [node[tail] EXCEPT !.has_writer = FALSE]
<1>4. old \in NodeType /\ node' = [node EXCEPT ![tail] = old]
  BY <1>1, <1>2 DEF NodeType
<1>5. /\ old.base = node[tail].base /\ old.sync = node[tail].sync
      /\ old.end = node[tail].end /\ old.next = node[tail].next /\ ~old.has_writer
  BY <1>1, <1>2 DEF NodeType
<1>. HIDE DEF old
<1>6. /\ node' \in Seq(NodeType) /\ Last' = Last
      /\ \A m \in 1..Last : node'[m] = IF m = tail THEN old ELSE node[m]
  <2>1. node' \in Seq(NodeType) /\ Len(node') = Last
        /\ \A m \in 1..Last : node'[m] = IF m = tail THEN old ELSE node[m]
    <3>. DEFINE s == [node EXCEPT ![tail] = old]
    <3>1. s \in Seq(NodeType) /\ Len(s) = Last
          /\ \A m \in 1..Last : s[m] = IF m = tail THEN old ELSE node[m]
      BY <1>2, <1>4, NodeChanges
    <3>. HIDE DEF s
    <3>2. node' = s
      BY <1>4 DEF s
    <3>. QED  BY <3>1, <3>2
  <2>. QED  BY <2>1 DEF Last
<1>7. \A m \in 1..Last : /\ node'[m].base = node[m].base /\ node'[m].end = node[m].end
                         /\ node'[m].sync = node[m].sync /\ node'[m].next = node[m].next
                         /\ node'[m].has_writer <=> node[m].has_writer /\ m # tail
                         /\ node[m].end \in Nat
  BY <1>1, <1>5, <1>6 DEF NodeType
<1>8. NodesInv'
  <2>1. ASSUME NEW m \in 1..Last
        PROVE  /\ node'[m].next = IF m < Last THEN m + 1 ELSE Null
               /\ m < Last => node'[m + 1].base = node'[m].base + node'[m].end
               /\ node'[m].base + node'[m].end <= written
               /\ node'[m].has_writer <=> to # Null /\ to <= m
    <3>1. /\ node[m].next = IF m < Last THEN m + 1 ELSE Null
          /\ m < Last => node[m + 1].base = node[m].base + node[m].end
          /\ node[m].base + node[m].end <= written
          /\ node[m].has_writer <=> tail <= m
      BY DEF NodesInv
    <3>2. m < Last => m + 1 \in 1..Last
      BY <1>1
    <3>3. tail <= m /\ m # tail <=> to # Null /\ to <= m
      BY <1>1, <1>2, <1>3 DEF Null
    <3>. QED  BY <1>7, <3>1, <3>2, <3>3
  <2>2. 1 \in 1..Last /\ Last \in 1..Last
    BY <1>1
  <2>3. /\ node'[1].base = 0 /\ node'[Last].base + node'[Last].end = written
        /\ room' # 0 => node'[Last].sync
    BY <1>7, <2>2 DEF NodesInv
  <2>4. to \in {Null, Last - 1, Last} /\ room' \in Nat
    BY <1>1, <1>2, <1>3
  <2>. QED  BY <1>1, <1>6, <2>1, <2>3, <2>4 DEF NodesInv
<1>9. \A m \in 1..Last : node[m].end <= node'[m].end
  BY <1>7
<1>. QED  BY <1>1, <1>6, <1>7, <1>8, <1>9, WriterInv

LEMMA WritesInv == ASSUME BufferInv, Writes PROVE BufferInv'
<1>0. tail # Null /\ node[tail].next = Null => tail = Last
  BY NodesAre DEF BufferInv, NodesInv, Null
<1>1. ASSUME NEW n \in 1..Bytes, AppendSlice(n) PROVE BufferInv'
  <2>. DEFINE new == FixedNode(n)
  <2>1. /\ new \in NodeType /\ n \in Nat /\ new.base = written /\ new.end = n
        /\ new.has_writer /\ new.next = Null
    BY NodesAre, BufferAssumption DEF FixedNode, NodeType, Null, BufferInv
  <2>. HIDE DEF new
  <2>2. /\ tail = Last /\ room' = 0 /\ written' = written + n /\ tail' = tail
        /\ UNCHANGED reader
        /\ node' = Append([node EXCEPT ![tail].next = Len(node) + 1], new)
    BY <1>0, <1>1 DEF AppendSlice, new
  <2>. QED  BY <2>1, <2>2, Links, LinkInv DEF BufferInv
<1>2. CASE Alloc
  <2>. DEFINE new == SyncedNode
  <2>1. /\ new \in NodeType /\ new.base = written /\ new.end = 0 /\ new.has_writer
        /\ new.next = Null /\ new.sync /\ written + 0 = written
    BY NodesAre DEF SyncedNode, NodeType, Null, BufferInv
  <2>. HIDE DEF new
  <2>2. /\ tail = Last /\ room' \in Nat /\ written' = written + 0 /\ tail' = tail
        /\ UNCHANGED reader
        /\ node' = Append([node EXCEPT ![tail].next = Len(node) + 1], new)
    BY <1>0, <1>2, <2>1, BufferAssumption DEF Alloc, new
  <2>3. /\ node' \in Seq(NodeType) /\ Last' = Last + 1 /\ node'[Last + 1] = new
        /\ \A m \in 1..Last : /\ node'[m].base = node[m].base /\ node'[m].end = node[m].end
                              /\ node'[m].sync = node[m].sync
                              /\ node'[m].has_writer = node[m].has_writer
                              /\ m < Last => node'[m].next = node[m].next
                              /\ m = Last => node'[m].next = Last + 1
    BY <2>1, <2>2, Links DEF BufferInv
  <2>4. 0 \in Nat
    OBVIOUS
  <2>. QED  BY ONLY BufferInv, <2>1, <2>2, <2>3, <2>4, LinkInv
<1>3. CASE ReleaseTail
  <2>1. tail \in 1..Last /\ node[tail].next # Null
    BY <1>3, LenProperties DEF ReleaseTail, BufferInv, NodesInv, Null, Last
  <2>2. node[tail].next = tail + 1
    BY <2>1 DEF BufferInv, NodesInv
  <2>. QED  BY <1>3, <2>1, <2>2, LeaveInv DEF ReleaseTail
<1>4. CASE Close
  BY <1>4, LeaveInv DEF Close
<1>. QED  BY <1>1, <1>2, <1>3, <1>4, AppendInv DEF Writes

\* No more is announced than is written.
LEMMA AnnouncedIsWritten ==
  ASSUME BufferInv PROVE it["end"].offset <= written
<1>. DEFINE h == it["end"].head
<1>0. IteratorInv("end") /\ ReadInv /\ NodesInv
  BY DEF BufferInv
<1>1. it["end"].offset \in Nat /\ it["end"].from \in Nat /\ it["end"].to \in Nat /\ h \in Nat
      /\ written \in Nat
  BY <1>0 DEF ReadInv, NodesInv
<1>2. CASE h = Null
  BY <1>0, <1>1, <1>2 DEF IteratorInv
<1>3. CASE h # Null
  <2>1. h \in 1..Last
    BY <1>0, <1>1, <1>3, NodesAre DEF BufferInv, IteratorInv, Null
  <2>2. /\ it["end"].from <= it["end"].to /\ it["end"].to <= node[h].end
        /\ it["end"].offset = node[h].base + it["end"].from
    BY <1>0, <1>3 DEF IteratorInv
  <2>3. node[h].base \in Nat /\ node[h].end \in Nat
    BY <1>0, <2>1, NodesAre
  <2>4. node[h].base + node[h].end <= written
    BY <1>0, <2>1 DEF NodesInv
  <2>. HIDE DEF h
  <2>. QED  BY <1>1, <2>2, <2>3, <2>4
<1>. QED  BY <1>2, <1>3

\* Nothing is being done.
LEMMA IdleInv == at' = "idle" /\ op' = NoOp /\ alive' = FALSE => OperationInv'
<1>1. /\ NoOp \in [kind : {"none", "sync", "read"}, with : {"begin", "end"}, left : Nat,
                   last : BOOLEAN]
      /\ NoOp.kind = "none" /\ ~NoOp.last /\ NoOp' = NoOp
  BY DEF NoOp
<1>. QED  BY <1>1 DEF OperationInv

\* The steps of the reader leave the nodes alone.
LEMMA ReaderKeepsNodes ==
  ASSUME BufferInv, UNCHANGED writer
  PROVE  /\ NodesInv'
         /\ \A i \in {"begin", "end"} : it'[i] = it[i] => IteratorInv(i)'
BY DEF BufferInv, NodesInv, IteratorInv, Last, writer

LEMMA CallsInv ==
  ASSUME BufferInv, SyncWithWriter \/ \E n \in 1..Bytes : Advance(n)
  PROVE  BufferInv'
<1>1. /\ UNCHANGED writer /\ UNCHANGED <<it, alive, out>> /\ at = "idle" /\ at' = "look"
      /\ \/ op' = [kind |-> "sync", with |-> "end", left |-> Bytes, last |-> tail = Null]
         \/ \E n \in 1..Bytes :
              /\ 0 < n /\ n <= Size
              /\ op' = [kind |-> "read", with |-> "begin", left |-> n, last |-> FALSE]
  BY DEF SyncWithWriter, Advance
<1>2. ReadInv'
  BY <1>1 DEF BufferInv, ReadInv
<1>3. OperationInv'
  <2>1. CASE op' = [kind |-> "sync", with |-> "end", left |-> Bytes, last |-> tail = Null]
    BY <1>1, <2>1, BufferAssumption DEF BufferInv, OperationInv, writer
  <2>2. ASSUME NEW n \in 1..Bytes, 0 < n, n <= Size,
               op' = [kind |-> "read", with |-> "begin", left |-> n, last |-> FALSE]
        PROVE  OperationInv'
    <3>1. n \in Nat /\ it["begin"].offset + n <= it["end"].offset
      BY <2>2, BufferAssumption DEF Size, BufferInv, ReadInv
    <3>. QED  BY <1>1, <2>2, <3>1 DEF BufferInv, OperationInv
  <2>. QED  BY <1>1, <2>1, <2>2
<1>. QED  BY <1>1, <1>2, <1>3, ReaderKeepsNodes DEF BufferInv

\* What an operation's iterator is.
LEMMA ItIs ==
  ASSUME BufferInv
  PROVE  /\ op.with \in {"begin", "end"} /\ IteratorInv(op.with)
         /\ It.head \in Nat /\ It.from \in Nat /\ It.to \in Nat /\ It.offset \in Nat
         /\ It.head # Null => It.head \in 1..Last /\ Here.base \in Nat /\ Here.end \in Nat
<1>1. op.with \in {"begin", "end"} /\ IteratorInv(op.with)
  BY DEF BufferInv, OperationInv
<1>2. /\ It.head \in Nat /\ It.from \in Nat /\ It.to \in Nat /\ It.offset \in Nat
  BY <1>1 DEF BufferInv, ReadInv, It
<1>3. It.head # Null => It.head \in 1..Last
  BY <1>1, <1>2, NodesAre DEF BufferInv, IteratorInv, It, Null
<1>. QED  BY <1>1, <1>2, <1>3, NodesAre DEF BufferInv, Here

\* Counting on from m.
LEMMA CountOn ==
  ASSUME NEW m \in Nat, NEW n \in Nat
  PROVE  [i \in 1..m |-> i] \o [i \in 1..n |-> m + i] = [i \in 1..m + n |-> i]
<1>. DEFINE a == [i \in 1..m |-> i]
            b == [i \in 1..n |-> m + i]
            c == [i \in 1..m + n |-> i]
<1>1. a \in Seq(Nat) /\ Len(a) = m
  OBVIOUS
<1>2. b \in Seq(Nat) /\ Len(b) = n
  OBVIOUS
<1>3. c \in Seq(Nat) /\ Len(c) = m + n
  OBVIOUS
<1>4. /\ \A i \in 1..m : a[i] = i
      /\ \A i \in 1..n : b[i] = m + i
      /\ \A i \in 1..m + n : c[i] = i
  OBVIOUS
<1>. HIDE DEF a, b, c
<1>5. /\ a \o b \in Seq(Nat) /\ Len(a \o b) = m + n
      /\ \A i \in 1..m + n : (a \o b)[i] = IF i <= m THEN a[i] ELSE b[i - m]
  BY <1>1, <1>2, ConcatProperties
<1>6. \A i \in 1..m + n : (a \o b)[i] = c[i]
  <2>1. \A i \in 1..m + n : ~(i <= m) => i - m \in 1..n /\ m + (i - m) = i
    OBVIOUS
  <2>. QED  BY <1>4, <1>5, <2>1
<1>7. a \o b = c
  BY <1>3, <1>5, <1>6, SeqEqual
<1>. QED  BY <1>7 DEF a, b, c

\* prepare_read has something: n bytes of it are confirmed.
LEMMA ConfirmInv == ASSUME BufferInv, Confirm PROVE BufferInv'
<1>. DEFINE n == Least(It.to - It.from, op.left)
<1>1. /\ UNCHANGED writer /\ at = "look" /\ It.head # Null /\ It.from < It.to
      /\ it' = [it EXCEPT ![op.with].from = @ + n, ![op.with].offset = @ + n]
      /\ out' = IF op.kind = "read"
                THEN out \o [i \in 1..n |-> Here.base + It.from + i] ELSE out
      /\ IF op.kind = "read" /\ n = op.left
         THEN at' = "idle" /\ op' = NoOp /\ alive' = FALSE
         ELSE /\ op' = [op EXCEPT !.left = IF op.kind = "read" THEN @ - n ELSE @]
              /\ UNCHANGED <<at, alive>>
  BY DEF Confirm, Return
<1>2. /\ op.with \in {"begin", "end"} /\ IteratorInv(op.with)
      /\ It.head \in Nat /\ It.from \in Nat /\ It.to \in Nat /\ It.offset \in Nat
      /\ It.head \in 1..Last /\ Here.base \in Nat /\ Here.end \in Nat /\ op.left \in Nat
  BY <1>1, ItIs DEF BufferInv, OperationInv
<1>3. n \in Nat /\ n <= op.left /\ It.from + n <= It.to
  BY <1>1, <1>2 DEF Least
<1>. HIDE DEF n
<1>. DEFINE moved == [It EXCEPT !.from = @ + n, !.offset = @ + n]
<1>4. /\ moved \in [head : Nat, from : Nat, to : Nat, offset : Nat]
      /\ moved.head = It.head /\ moved.to = It.to
      /\ moved.from = It.from + n /\ moved.offset = It.offset + n
  <2>1. It \in [head : Nat, from : Nat, to : Nat, offset : Nat]
    BY <1>2 DEF BufferInv, ReadInv, It
  <2>. DEFINE first == [It EXCEPT !.from = It.from + n]
  <2>2. /\ first \in [head : Nat, from : Nat, to : Nat, offset : Nat]
        /\ first.head = It.head /\ first.to = It.to
        /\ first.from = It.from + n /\ first.offset = It.offset
    BY <1>2, <1>3, <2>1
  <2>3. moved = [first EXCEPT !.offset = It.offset + n]
    BY <2>1
  <2>. HIDE DEF first, moved
  <2>. QED  BY <1>2, <1>3, <2>2, <2>3
<1>5. it' = [it EXCEPT ![op.with] = moved]
  BY <1>1, <1>2 DEF It, BufferInv, ReadInv
<1>. HIDE DEF moved
<1>6. /\ it' \in [{"begin", "end"} -> [head : Nat, from : Nat, to : Nat, offset : Nat]]
      /\ it'[op.with] = moved
      /\ \A i \in {"begin", "end"} : i # op.with => it'[i] = it[i]
  BY <1>2, <1>4, <1>5 DEF BufferInv, ReadInv
<1>7. ASSUME NEW w \in {"begin", "end"}, w = op.with PROVE IteratorInv(w)'
  <2>1. /\ It.from <= It.to /\ It.to <= Here.end /\ It.offset = Here.base + It.from
        /\ ~Here.sync => It.to = Here.end
        /\ \A m \in 1..Last : m < It.head => ~node[m].has_writer
        /\ It.head <= Last
    BY <1>1, <1>2 DEF IteratorInv, It, Here
  <2>2. /\ It.offset + n = Here.base + (It.from + n)
        /\ It.from + n <= It.to
    BY <1>2, <1>3, <2>1
  <2>3. /\ it'[w].head = It.head /\ it'[w].to = It.to /\ it'[w].from = It.from + n
        /\ it'[w].offset = It.offset + n /\ Last' = Last /\ node' = node
    BY <1>1, <1>4, <1>6, <1>7 DEF Last, writer
  <2>4. Here = node[It.head]
    BY DEF Here
  <2>. QED  BY <1>1, <2>1, <2>2, <2>3, <2>4 DEF IteratorInv
<1>8. IteratorInv("begin")' /\ IteratorInv("end")'
  BY <1>1, <1>6, <1>7, ReaderKeepsNodes
<1>9. CASE op.kind = "read"
  <2>1. /\ op.with = "begin" /\ it["begin"].offset + op.left <= it["end"].offset
        /\ It = it["begin"] /\ it["end"].offset \in Nat /\ it["begin"].offset \in Nat
        /\ ~op.last
    BY <1>9 DEF BufferInv, OperationInv, ReadInv, It
  <2>2. /\ it'["begin"].head = it["begin"].head /\ it'["end"] = it["end"]
        /\ it'["begin"].offset = it["begin"].offset + n
    BY <1>4, <1>6, <2>1
  <2>3. it["begin"].offset + n <= it["end"].offset
    BY <1>2, <1>3, <2>1
  <2>4. out' = [i \in 1..it["begin"].offset + n |-> i]
    <3>. DEFINE o == it["begin"].offset
    <3>1. out = [i \in 1..o |-> i] /\ o = Here.base + It.from /\ o \in Nat
      BY <1>1, <1>2, <2>1 DEF BufferInv, ReadInv, IteratorInv, It, Here
    <3>2. out' = out \o [i \in 1..n |-> o + i]
      BY <1>1, <1>9, <3>1
    <3>. QED  BY <1>3, <3>1, <3>2, CountOn
  <2>5. ReadInv'
    BY <1>6, <2>2, <2>3, <2>4 DEF BufferInv, ReadInv
  <2>6. CASE n = op.left
    <3>1. at' = "idle" /\ op' = NoOp /\ alive' = FALSE
      BY <1>1, <1>9, <2>6
    <3>. QED  BY <1>1, <1>8, <2>5, <3>1, IdleInv, ReaderKeepsNodes DEF BufferInv
  <2>7. CASE n # op.left
    <3>1. /\ op' = [op EXCEPT !.left = @ - n] /\ at' = "look" /\ alive' = alive
      BY <1>1, <1>9, <2>7
    <3>2. op.left - n \in Nat /\ op.left - n > 0
          /\ it["begin"].offset + n + (op.left - n) <= it["end"].offset
      BY <1>2, <1>3, <2>1, <2>7
    <3>3. /\ op' \in [kind : {"none", "sync", "read"}, with : {"begin", "end"}, left : Nat,
                      last : BOOLEAN]
          /\ op'.kind = "read" /\ op'.with = "begin" /\ op'.left = op.left - n /\ ~op'.last
      BY <1>9, <2>1, <3>1, <3>2 DEF BufferInv, OperationInv
    <3>. QED
      BY <2>2, <2>5, <3>1, <3>2, <3>3, <1>1, <1>8, ReaderKeepsNodes
      DEF BufferInv, OperationInv
  <2>8. OperationInv'
    BY <2>6, <2>7 DEF BufferInv
  <2>. QED  BY <1>1, <1>8, <2>5, <2>8, ReaderKeepsNodes DEF BufferInv
<1>10. CASE op.kind = "sync"
  <2>1. /\ op.with = "end" /\ It = it["end"]
        /\ it["end"].offset \in Nat /\ it["begin"].offset \in Nat
    BY <1>10 DEF BufferInv, OperationInv, ReadInv, It
  <2>2. /\ it'["end"].head = it["end"].head /\ it'["begin"] = it["begin"]
        /\ it'["end"].offset = it["end"].offset + n
    BY <1>4, <1>6, <2>1
  <2>3. it["begin"].offset <= it["end"].offset + n
    BY <1>3, <2>1 DEF BufferInv, ReadInv
  <2>4. out' = out
    BY <1>1, <1>10
  <2>5. ReadInv'
    BY <1>6, <2>2, <2>3, <2>4 DEF BufferInv, ReadInv
  <2>6. /\ op' = op /\ at' = "look" /\ alive' = alive /\ tail' = tail
    BY <1>1, <1>10 DEF BufferInv, OperationInv, writer
  <2>7. OperationInv'
    BY <1>10, <2>6 DEF BufferInv, OperationInv
  <2>. QED  BY <1>1, <1>8, <2>5, <2>7, ReaderKeepsNodes DEF BufferInv
<1>. QED  BY <1>1, <1>9, <1>10 DEF BufferInv, OperationInv

\* prepare_read has nothing.
LEMMA HasWriterInv == ASSUME BufferInv, HasWriter PROVE BufferInv'
<1>. USE DEF BufferInv
<1>1. UNCHANGED writer /\ UNCHANGED <<it, out>> /\ at = "look"
  BY DEF HasWriter
<1>2. /\ It' = It \/ op' # op
      /\ op.with \in {"begin", "end"} /\ IteratorInv(op.with)
  BY <1>1, ItIs DEF It
<1>3. ReadInv'
  BY <1>1 DEF ReadInv
<1>4. NodesInv' /\ IteratorInv("begin")' /\ IteratorInv("end")'
  BY <1>1, ReaderKeepsNodes
<1>5. CASE It.head = Null
  <2>1. tail = Null /\ It.offset = written
    BY <1>2, <1>5 DEF IteratorInv, It
  <2>2. op.kind = "sync"
    <3>. SUFFICES ASSUME op.kind = "read" PROVE FALSE
      BY <1>1 DEF OperationInv
    <3>1. it["begin"].offset = written /\ it["end"].offset > written
      BY <2>1 DEF OperationInv, ReadInv, It, NodesInv
    <3>2. it["end"].offset <= written
      BY AnnouncedIsWritten
    <3>. QED  BY <3>1, <3>2 DEF ReadInv, NodesInv
  <2>3. at' = "idle" /\ op' = NoOp /\ alive' = FALSE
    BY <1>5, <2>2 DEF HasWriter, Return
  <2>. QED  BY <1>3, <1>4, <2>3, IdleInv
<1>6. CASE It.head # Null
  <2>1. /\ It.from = It.to /\ alive' = Here.has_writer /\ at' = "sync" /\ op' = op
        /\ It' = It /\ Here' = Here
    BY <1>1, <1>6 DEF HasWriter, It, Here, writer
  <2>2. alive' \in BOOLEAN
    BY <1>6, <2>1, ItIs, NodesAre DEF NodeType, Here
  <2>3. op.last => ~alive'
    BY <1>6, <2>1, ItIs, NodesAre DEF OperationInv, NodesInv, Here, Null
  <2>4. ASSUME op.kind = "read", alive' PROVE it["end"].head = it["begin"].head
    <3>1. It = it["begin"] /\ it["begin"].head \in 1..Last /\ it["end"].head \in Nat
      BY <1>6, <2>4, ItIs DEF OperationInv, ReadInv, It
    <3>2. it["end"].head # Null /\ ~(it["begin"].head < it["end"].head)
      BY <2>1, <2>4, <3>1 DEF IteratorInv, Here
    <3>3. it["begin"].head <= it["end"].head /\ it["begin"].head \in Nat
      BY <3>1, <3>2 DEF ReadInv
    <3>. QED  BY <3>1, <3>2, <3>3
  <2>5. OperationInv'
    BY <1>1, <1>6, <2>1, <2>2, <2>3, <2>4 DEF OperationInv, writer
  <2>. QED  BY <1>3, <1>4, <2>5
<1>. QED  BY <1>5, <1>6

\* What has been confirmed since.
LEMMA SyncSliceInv == ASSUME BufferInv, SyncSlice PROVE BufferInv'
<1>. USE DEF BufferInv
<1>1. /\ UNCHANGED writer /\ UNCHANGED <<op, alive, out>> /\ at = "sync"
      /\ it' = IF Here.sync THEN [it EXCEPT ![op.with].to = Here.end] ELSE it
      /\ at' = IF Here.sync /\ Here.end > It.from THEN "look" ELSE "decide"
  BY DEF SyncSlice
<1>2. /\ op.with \in {"begin", "end"} /\ It.head # Null /\ It.from = It.to
      /\ It.head \in 1..Last /\ It.from \in Nat /\ Here.base \in Nat /\ Here.end \in Nat
      /\ It \in [head : Nat, from : Nat, to : Nat, offset : Nat]
      /\ It.offset = Here.base + It.from /\ It.to <= Here.end
      /\ ~Here.sync => It.to = Here.end
      /\ \A m \in 1..Last : m < It.head => ~node[m].has_writer
  BY <1>1, ItIs DEF OperationInv, IteratorInv, ReadInv, It, Here
<1>3. /\ It' = [It EXCEPT !.to = Here.end] /\ Here' = Here
      /\ it' \in [{"begin", "end"} -> [head : Nat, from : Nat, to : Nat, offset : Nat]]
      /\ \A i \in {"begin", "end"} :
           it'[i].head = it[i].head /\ it'[i].offset = it[i].offset /\ it'[i].from = it[i].from
      /\ \A i \in {"begin", "end"} : i # op.with => it'[i] = it[i]
  <2>1. CASE Here.sync
    BY <1>1, <1>2, <2>1 DEF ReadInv, It, Here, writer
  <2>2. CASE ~Here.sync
    BY <1>1, <1>2, <2>2 DEF ReadInv, It, Here, writer
  <2>. QED  BY <2>1, <2>2
<1>4. ASSUME NEW w \in {"begin", "end"}, w = op.with PROVE IteratorInv(w)'
  <2>1. /\ it'[w].head = It.head /\ it'[w].from = It.from /\ it'[w].to = Here.end
        /\ it'[w].offset = It.offset /\ Last' = Last /\ node' = node
    <3>1. it'[w] = [It EXCEPT !.to = Here.end]
      BY <1>1, <1>3, <1>4 DEF It
    <3>. QED  BY <1>1, <1>2, <3>1 DEF Last, writer
  <2>2. Here = node[It.head] /\ It.from <= Here.end /\ Here.end <= Here.end /\ It.head <= Last
    BY <1>2 DEF Here
  <2>. QED  BY <1>1, <1>2, <2>1, <2>2 DEF IteratorInv
<1>5. IteratorInv("begin")' /\ IteratorInv("end")'
  BY <1>1, <1>2, <1>3, <1>4, ReaderKeepsNodes
<1>6. ReadInv'
  BY <1>1, <1>3 DEF ReadInv
<1>7. /\ It'.head = It.head /\ It'.from = It.from /\ It'.to = Here.end
      /\ Here'.end = Here.end /\ Here'.has_writer = Here.has_writer /\ tail' = tail
      /\ op' = op /\ alive' = alive /\ It'.head # Null
  <2>1. It' = [It EXCEPT !.to = Here.end] /\ Here' = Here
    BY <1>3
  <2>. QED  BY <1>1, <1>2, <2>1 DEF writer
<1>8. ASSUME at' = "look" PROVE OperationInv'
  BY <1>1, <1>3, <1>7, <1>8 DEF OperationInv
<1>9. ASSUME at' = "decide" PROVE OperationInv'
  <2>1. It.from = Here.end
    <3>1. Here.sync => ~(Here.end > It.from)
      BY <1>1, <1>9
    <3>2. It.to \in Nat
      BY <1>2
    <3>. QED  BY <1>2, <3>1, <3>2
  <2>2. ASSUME op.kind = "read", alive PROVE FALSE
    <3>. DEFINE e == it["end"]
    <3>1. /\ It = it["begin"] /\ e.head = It.head /\ It.offset + op.left <= e.offset
          /\ op.left > 0 /\ op.left \in Nat
      BY <1>1, <2>2 DEF OperationInv, It
    <3>2. /\ e.from <= e.to /\ e.to <= Here.end /\ e.offset = Here.base + e.from
      BY <1>2, <3>1 DEF IteratorInv, Here
    <3>3. e.from \in Nat /\ e.to \in Nat /\ e.offset \in Nat /\ It.offset \in Nat
      BY <1>2 DEF ReadInv
    <3>. HIDE DEF e
    <3>. QED  BY <1>2, <2>1, <3>1, <3>2, <3>3
  <2>3. ~alive => ~Here.has_writer
    BY <1>1 DEF OperationInv
  <2>. QED  BY <1>1, <1>3, <1>7, <1>9, <2>1, <2>2, <2>3 DEF OperationInv
<1>10. OperationInv' /\ NodesInv'
  BY <1>1, <1>8, <1>9, ReaderKeepsNodes
<1>. QED  BY <1>5, <1>6, <1>10

\* The node is left, and all of it was read.
LEMMA NextNodeInv == ASSUME BufferInv, NextNode PROVE BufferInv'
<1>. USE DEF BufferInv
<1>1. /\ UNCHANGED writer /\ out' = out /\ at = "decide" /\ ~Alive = ~alive
      /\ op.with \in {"begin", "end"} /\ IteratorInv(op.with)
      /\ It.head # Null /\ It.head \in 1..Last
      /\ op.kind \in {"sync", "read"}
      /\ op.kind = "read" => ~alive
  BY ItIs DEF NextNode, Alive, OperationInv
<1>2. CASE alive
  <2>1. at' = "idle" /\ op' = NoOp /\ alive' = FALSE /\ it' = it
    BY <1>1, <1>2 DEF NextNode, Return, Alive
  <2>2. ReadInv'
    BY <1>1, <2>1 DEF ReadInv
  <2>. QED  BY <1>1, <2>1, <2>2, IdleInv, ReaderKeepsNodes
<1>3. CASE ~alive
  <2>. DEFINE next == IF Here.next = Null THEN [It EXCEPT !.head = Null]
                      ELSE AtHead(op.with, Here.next, It.offset)
  <2>1. /\ It \in [head : Nat, from : Nat, to : Nat, offset : Nat]
        /\ It.offset = Here.base + Here.end /\ ~Here.has_writer
        /\ \A m \in 1..Last : m < It.head => ~node[m].has_writer
    BY <1>1, <1>3 DEF OperationInv, IteratorInv, ReadInv, It, Here
  <2>2. /\ it' = [it EXCEPT ![op.with] = next] /\ at' = "look" /\ op' = op /\ alive' = alive
    <3>1. it' = [it EXCEPT ![op.with] =
                   IF Here.next = Null THEN [@ EXCEPT !.head = Null]
                   ELSE AtHead(op.with, Here.next, It.offset)]
          /\ at' = "look" /\ op' = op /\ alive' = alive
      BY <1>1, <1>3 DEF NextNode, Alive
    <3>. QED  BY <1>1, <3>1 DEF It, ReadInv
  <2>3. /\ Here.next = IF It.head < Last THEN It.head + 1 ELSE Null
        /\ It.head < Last => node[It.head + 1].base = Here.base + Here.end
        /\ Here.has_writer <=> tail # Null /\ tail <= It.head
        /\ node[Last].base + node[Last].end = written
        /\ tail \in {Null, Last - 1, Last} /\ Last \in Nat /\ It.head \in Nat
    <3>1. Last \in Nat /\ It.head \in Nat /\ Here = node[It.head]
      BY <1>1, NodesAre DEF Here
    <3>. QED  BY <1>1, <3>1 DEF NodesInv
  <2>4. /\ next.offset = It.offset
        /\ next \in [head : Nat, from : Nat, to : Nat, offset : Nat]
        /\ next.head = IF It.head < Last THEN It.head + 1 ELSE Null
        /\ next.head # Null =>
             /\ next.from = 0
             /\ next.to = IF node[next.head].sync THEN 0 ELSE node[next.head].end
             /\ next.head \in 1..Last /\ node[next.head].end \in Nat
             /\ node[next.head].base \in Nat
             /\ next.offset = node[next.head].base
    <3>1. CASE It.head < Last
      <4>1. It.head + 1 \in 1..Last /\ It.head + 1 # Null
        BY <1>1, <2>3, <3>1 DEF Null
      <4>2. next = [head |-> It.head + 1, from |-> 0,
                    to |-> IF node[It.head + 1].sync THEN 0 ELSE node[It.head + 1].end,
                    offset |-> It.offset]
        BY <2>3, <3>1, <4>1 DEF AtHead
      <4>3. node[It.head + 1].end \in Nat /\ node[It.head + 1].base \in Nat
        BY <4>1, NodesAre
      <4>. HIDE DEF next
      <4>. QED  BY <2>1, <2>3, <3>1, <4>1, <4>2, <4>3
    <3>2. CASE ~(It.head < Last)
      BY <2>1, <2>3, <3>2 DEF Null
    <3>. QED  BY <3>1, <3>2
  <2>. HIDE DEF next
  <2>5. /\ it' \in [{"begin", "end"} -> [head : Nat, from : Nat, to : Nat, offset : Nat]]
        /\ it'[op.with] = next
        /\ \A i \in {"begin", "end"} : i # op.with => it'[i] = it[i]
        /\ Last' = Last /\ node' = node /\ tail' = tail /\ written' = written
    BY <1>1, <2>2, <2>4 DEF ReadInv, Last, writer
  <2>6. ASSUME NEW m \in 1..Last, next.head = Null \/ m < next.head
        PROVE  ~node[m].has_writer
    <3>1. m < It.head \/ m = It.head
      BY <1>1, <2>3, <2>4, <2>6 DEF Null
    <3>. QED  BY <2>1, <3>1 DEF Here
  <2>7. ASSUME next.head = Null PROVE tail = Null /\ next.offset = written
    <3>1. It.head = Last
      BY <1>1, <2>3, <2>4, <2>7 DEF Null
    <3>. QED  BY <1>1, <2>1, <2>3, <2>4, <3>1 DEF Here, Null
  <2>8. ASSUME NEW w \in {"begin", "end"}, w = op.with PROVE IteratorInv(w)'
    <3>1. next.head # Null =>
            /\ next.head <= Last /\ next.from <= next.to /\ next.to <= node[next.head].end
            /\ next.offset = node[next.head].base + next.from
            /\ ~node[next.head].sync => next.to = node[next.head].end
      <4>. SUFFICES ASSUME next.head # Null
                    PROVE  /\ next.head <= Last /\ next.from <= next.to
                           /\ next.to <= node[next.head].end
                           /\ next.offset = node[next.head].base + next.from
                           /\ ~node[next.head].sync => next.to = node[next.head].end
        OBVIOUS
      <4>. QED  BY <2>3, <2>4
    <3>2. it'[w] = next
      BY <2>5, <2>8
    <3>. QED  BY <2>5, <2>6, <2>7, <3>1, <3>2 DEF IteratorInv
  <2>9. IteratorInv("begin")' /\ IteratorInv("end")' /\ NodesInv'
    BY <1>1, <2>5, <2>8, ReaderKeepsNodes
  <2>10. it'["begin"].offset = it["begin"].offset /\ it'["end"].offset = it["end"].offset
    BY <2>4, <2>5 DEF It
  <2>11. it'["end"].head # Null =>
           it'["begin"].head # Null /\ it'["begin"].head <= it'["end"].head
    <3>1. CASE op.kind = "sync"
      <4>1. op.with = "end" /\ It = it["end"] /\ it'["begin"] = it["begin"]
            /\ it'["end"].head = next.head
        BY <2>5, <3>1 DEF OperationInv, It
      <4>2. it["begin"].head # Null /\ it["begin"].head <= It.head
            /\ it["begin"].head \in Nat
        BY <1>1, <4>1 DEF ReadInv
      <4>. QED  BY <2>3, <2>4, <4>1, <4>2
    <3>2. CASE op.kind = "read"
      <4>. SUFFICES ASSUME it["end"].head # Null
                    PROVE  next.head # Null /\ next.head <= it["end"].head
        BY <2>5, <3>2 DEF OperationInv
      <4>. DEFINE e == it["end"]
      <4>1. /\ It = it["begin"] /\ It.head <= e.head /\ It.offset + op.left <= e.offset
            /\ op.left > 0 /\ op.left \in Nat
        BY <3>2 DEF OperationInv, ReadInv, It
      <4>2. /\ e.from <= e.to /\ e.to <= node[e.head].end
            /\ e.offset = node[e.head].base + e.from /\ e.head <= Last
        BY DEF IteratorInv
      <4>3. e.from \in Nat /\ e.to \in Nat /\ e.offset \in Nat /\ e.head \in Nat
        BY DEF ReadInv
      <4>4. Here.base \in Nat /\ Here.end \in Nat /\ It.offset \in Nat
        BY <1>1, ItIs
      <4>5. e.head # It.head
        <5>. SUFFICES ASSUME e.head = It.head PROVE FALSE
          OBVIOUS
        <5>1. e.to <= Here.end /\ e.offset = Here.base + e.from
          BY <4>2 DEF Here
        <5>. HIDE DEF e
        <5>. QED  BY <2>1, <4>1, <4>2, <4>3, <4>4, <5>1
      <4>6. It.head < e.head
        BY <2>3, <4>1, <4>3, <4>5
      <4>. QED  BY <2>3, <2>4, <4>2, <4>3, <4>6 DEF Null
    <3>. QED  BY <1>1, <3>1, <3>2
  <2>12. ReadInv'
    BY <1>1, <2>5, <2>10, <2>11 DEF ReadInv
  <2>13. OperationInv'
    BY <1>1, <1>3, <2>2, <2>5, <2>10 DEF OperationInv
  <2>. QED  BY <2>9, <2>12, <2>13
<1>. QED  BY <1>2, <1>3

LEMMA BufferStepInv == BufferInv /\ [BufferNext]_bufferVars => BufferInv'
<1>1. ASSUME BufferInv, UNCHANGED bufferVars PROVE BufferInv'
  BY <1>1 DEF BufferInv, NodesInv, IteratorInv, ReadInv, OperationInv, Last, It, Here, NoOp,
     bufferVars, writer, reader
<1>. QED
  BY <1>1, WritesInv, CallsInv, ConfirmInv, HasWriterInv, SyncSliceInv, NextNodeInv
  DEF BufferNext, Reads

\* The reader is where it was told it is.
ReadsInOrder ==
  /\ out = [i \in 1..Len(out) |-> i] /\ Len(out) <= it["end"].offset
  /\ it["end"].offset <= written
  /\ at # "short"

LEMMA InOrder == BufferInv => ReadsInOrder
<1>. SUFFICES ASSUME BufferInv PROVE ReadsInOrder
  OBVIOUS
<1>1. /\ out = [i \in 1..it["begin"].offset |-> i] /\ it["begin"].offset \in Nat
      /\ it["begin"].offset <= it["end"].offset /\ at # "short"
  BY DEF BufferInv, ReadInv, OperationInv
<1>2. Len(out) = it["begin"].offset
  <2>. DEFINE o == it["begin"].offset
           s == [i \in 1..o |-> i]
  <2>1. s \in Seq(Nat) /\ Len(s) = o
    BY <1>1
  <2>. HIDE DEF s
  <2>2. out = s
    BY <1>1 DEF s
  <2>. QED  BY <2>1, <2>2
<1>. QED  BY <1>1, <1>2, AnnouncedIsWritten DEF ReadsInOrder

\* A sync that began when the writer was gone ends at the end of what was written.
LEMMA LastSyncTellsAll ==
  BufferInv /\ [BufferNext]_bufferVars
    => [op.last /\ at' = "idle" => it["end"].offset = written]_bufferVars
<1>. SUFFICES ASSUME BufferInv, BufferNext, op.last, at' = "idle"
              PROVE  it["end"].offset = written
  OBVIOUS
<1>1. op.kind = "sync" /\ op.with = "end" /\ at # "idle"
  BY DEF BufferInv, OperationInv, NoOp
<1>2. CASE Writes
  BY <1>1, <1>2 DEF Writes, Append_, AppendSlice, Alloc, ReleaseTail, Close, reader
<1>3. CASE HasWriter
  <2>1. It.head = Null /\ It = it["end"]
    BY <1>1, <1>3 DEF HasWriter, It
  <2>. QED  BY <2>1 DEF BufferInv, IteratorInv
<1>4. CASE NextNode
  BY <1>1, <1>4 DEF NextNode, Alive, BufferInv, OperationInv
<1>. QED
  BY <1>1, <1>2, <1>3, <1>4
  DEF BufferNext, Reads, SyncWithWriter, Advance, Confirm, SyncSlice

\* ChainBuffer, ReadsWhatWasWritten: however long the writer and the reader go on, the
\* reader reads what was written, in order and without gaps; it gets what it was told is
\* there; and a sync that begins when the writer is gone tells it of all there will be.
THEOREM ReadsWhatWasWrittenAlways == BufferSpec => ReadsWhatWasWritten
<1>1. BufferSpec => []ReadsInOrder
  BY BufferInitInv, BufferStepInv, InOrder, PTL DEF BufferSpec
<1>2. BufferSpec => [][op.last /\ at' = "idle" => it["end"].offset = written]_bufferVars
  BY BufferInitInv, BufferStepInv, LastSyncTellsAll, PTL DEF BufferSpec
<1>. QED  BY <1>1, <1>2, PTL DEF ReadsWhatWasWritten, ReadsInOrder
-----------------------------------------------------------------------------
(***************************************************************************)
(* The stealing queue for any number of workers and any size of the ring.  *)
(*                                                                         *)
(* A thief copies into slots behind its tail that no ring reaches, and     *)
(* what it has copied is what the victim's slots hold for as long as the   *)
(* victim's head is the one it has read: those slots are then in the ring, *)
(* and nobody writes to a slot in a ring (ThiefInv).  So the               *)
(* compare_exchange that moves that head moves the values from one ring to *)
(* the other, and each value stays in one place (PlacesInv).               *)
(***************************************************************************)
\* A slot is used again only N pushes later.
LEMMA Apart ==
  ASSUME NEW i \in Nat, NEW j \in Nat, i < j, j < i + N
  PROVE  i % N # j % N
<1>1. N \in Nat /\ N > 0
  BY SizeAssumption
<1>. SUFFICES ASSUME i % N = j % N PROVE FALSE
  OBVIOUS
<1>. DEFINE p == i \div N
            q == j \div N
<1>2. p \in Int /\ q \in Int /\ i = (N * p) + (i % N) /\ j = (N * q) + (j % N) /\ i % N \in Int
  BY <1>1
<1>. HIDE DEF p, q
<1>3. j - i = N * (q - p)
  BY <1>1, <1>2
<1>4. q - p >= 1
  <2>. SUFFICES ASSUME q - p <= 0 PROVE FALSE
    BY <1>2
  <2>. DEFINE d == p - q
  <2>1. d \in Nat
    BY <1>2
  <2>2. i - j = N * d
    BY <1>1, <1>2
  <2>. HIDE DEF d
  <2>3. N * d >= 0
    BY <1>1, <2>1
  <2>. QED  BY <2>2, <2>3
<1>5. N * (q - p) >= N
  BY <1>1, <1>2, <1>4
<1>. QED  BY <1>1, <1>3, <1>5
LEMMA InBuf == ASSUME NEW i \in Nat PROVE i % N \in 0..N - 1
BY SizeAssumption

Doings == {"idle", "push", "fill", "publish", "overflow", "pop", "other", "size", "copy", "take",
           "retry", "keep"}
Locals == [head : Nat, victim : Worker \cup {"none"}, from : Nat, to : Nat, n : Nat, i : Nat,
           value : Nat]

StealingTypes ==
  /\ head_ \in [Worker -> Nat] /\ tail_ \in [Worker -> Nat]
  /\ buf_ \in [Worker -> [0..N - 1 -> Nat]]
  /\ place \in [Worker -> Doings] /\ local \in [Worker -> Locals]
  /\ given \in Nat /\ overflown \in SUBSET Nat /\ got \in [Worker -> SUBSET Nat]

\* A ring with what its owner has just stolen behind it: never more than N slots, all with
\* different values.
End(w) == tail_[w] + (IF place[w] = "keep" THEN local[w].n ELSE 0)
Window(w) == head_[w]..End(w) - 1
RingInv(w) ==
  /\ head_[w] <= tail_[w] /\ End(w) <= head_[w] + N
  /\ \A j, k \in Window(w) : Slot(w, j) = Slot(w, k) => j = k

\* The owner: thieves only make room.
OwnerInv(w) ==
  /\ local[w].head <= head_[w]
  /\ place[w] \in {"fill", "publish"} => tail_[w] < head_[w] + N
  /\ place[w] = "publish" => Slot(w, tail_[w]) = local[w].value
  /\ place[w] = "overflow" => local[w].head + N <= tail_[w]
  /\ place[w] = "pop" => local[w].head < tail_[w]

\* The thief: while the head it has read is the head, what it has copied is what is there.
ThiefInv(w) ==
  LET at_ == place[w]
      l   == local[w]
  IN /\ at_ \in {"other", "size", "copy", "take", "retry"} => l.victim \in Worker
     /\ at_ \in {"other", "size", "copy", "take", "keep"} => tail_[w] <= l.head + N
     /\ at_ \in {"size", "copy", "take"} => l.from <= head_[l.victim]
     /\ at_ \in {"copy", "take", "keep"} => 1 <= l.n /\ tail_[w] + l.n <= l.head + N
     /\ at_ \in {"copy", "take"} =>
          /\ l.from + l.n <= tail_[l.victim]
          /\ head_[l.victim] = l.from =>
               \A k \in 0..l.i - 1 : Slot(w, tail_[w] + k) = Slot(l.victim, l.from + k)
     /\ at_ = "copy" => l.i < l.n
     /\ at_ = "take" => l.i = l.n

\* Where the values are: each in one place.
Ring(w) == {Slot(w, j) : j \in Window(w)}
Hand(w) == IF place[w] \in {"push", "fill", "publish", "overflow"} THEN {local[w].value} ELSE {}
Places == ({"ring", "hand", "got"} \X Worker) \cup {<<"overflown", "none">>}
contents == [p \in Places |-> CASE p[1] = "ring" -> Ring(p[2])
                                [] p[1] = "hand" -> Hand(p[2])
                                [] p[1] = "got"  -> got[p[2]]
                                [] OTHER         -> overflown]
PlacesInv == /\ \A p, q \in Places : p # q => contents[p] \cap contents[q] = {}
             /\ UNION {contents[p] : p \in Places} = 1..given

StealingInv ==
  /\ StealingTypes
  /\ \A w \in Worker : RingInv(w) /\ OwnerInv(w) /\ ThiefInv(w)
  /\ PlacesInv

LEMMA StealingInitInv == StealingInit => StealingInv
<1>. SUFFICES ASSUME StealingInit PROVE StealingInv
  OBVIOUS
<1>. USE SizeAssumption DEF StealingInit, NoLocals
<1>1. StealingTypes
  BY DEF StealingTypes, Doings, Locals
<1>2. ASSUME NEW w \in Worker PROVE RingInv(w) /\ OwnerInv(w) /\ ThiefInv(w) /\ Ring(w) = {}
  BY DEF RingInv, OwnerInv, ThiefInv, Ring, Window, End
<1>3. ASSUME NEW p \in Places PROVE contents[p] = {}
  BY <1>2 DEF contents, Places, Hand
<1>4. PlacesInv
  BY <1>3 DEF PlacesInv
<1>. QED  BY <1>1, <1>2, <1>4 DEF StealingInv

\* What there is of a worker.
LEMMA Typed ==
  ASSUME StealingInv, NEW w \in Worker
  PROVE  /\ N \in Nat /\ N > 0 /\ head_[w] \in Nat /\ tail_[w] \in Nat /\ End(w) \in Nat
         /\ buf_[w] \in [0..N - 1 -> Nat] /\ place[w] \in Doings /\ local[w] \in Locals
         /\ local[w].head \in Nat /\ local[w].victim \in Worker \cup {"none"}
         /\ local[w].from \in Nat /\ local[w].n \in Nat /\ local[w].i \in Nat
         /\ local[w].value \in Nat
         /\ tail_[w] <= End(w)
         /\ place[w] # "keep" => End(w) = tail_[w]
<1>1. /\ N \in Nat /\ N > 0 /\ head_[w] \in Nat /\ tail_[w] \in Nat
      /\ buf_[w] \in [0..N - 1 -> Nat] /\ place[w] \in Doings /\ local[w] \in Locals
  BY SizeAssumption DEF StealingInv, StealingTypes
<1>2. /\ local[w].head \in Nat /\ local[w].victim \in Worker \cup {"none"}
      /\ local[w].from \in Nat /\ local[w].n \in Nat /\ local[w].i \in Nat
      /\ local[w].value \in Nat
  BY <1>1 DEF Locals
<1>. QED  BY <1>1, <1>2 DEF End

\* The contents of each place.
LEMMA ContentsAre ==
  /\ DOMAIN contents = Places
  /\ \A w \in Worker : /\ <<"ring", w>> \in Places /\ contents[<<"ring", w>>] = Ring(w)
                       /\ <<"hand", w>> \in Places /\ contents[<<"hand", w>>] = Hand(w)
                       /\ <<"got", w>> \in Places /\ contents[<<"got", w>>] = got[w]
  /\ <<"overflown", "none">> \in Places /\ contents[<<"overflown", "none">>] = overflown
  /\ \A p \in Places : \/ \E w \in Worker : p \in {<<"ring", w>>, <<"hand", w>>, <<"got", w>>}
                       \/ p = <<"overflown", "none">>
BY DEF contents, Places

\* A step that puts X in q, wherever it was.
LEMMA PlacesStep ==
  ASSUME PlacesInv, NEW X, NEW q \in Places,
         1..given' = 1..given \cup X,
         contents'[q] = contents[q] \cup X,
         \A p \in Places : p # q => contents'[p] = contents[p] \ X
  PROVE  PlacesInv'
<1>. DEFINE c == contents
            d == contents'
<1>1. /\ \A p, r \in Places : p # r => c[p] \cap c[r] = {}
      /\ UNION {c[p] : p \in Places} = 1..given
      /\ d[q] = c[q] \cup X
      /\ \A p \in Places : p # q => d[p] = c[p] \ X
  BY DEF PlacesInv
<1>. HIDE DEF c, d
<1>2. ASSUME NEW p \in Places, NEW r \in Places, p # r PROVE d[p] \cap d[r] = {}
  <2>1. c[p] \cap c[r] = {}
    BY <1>1, <1>2
  <2>2. CASE p = q
    BY <1>1, <1>2, <2>1, <2>2
  <2>3. CASE r = q
    BY <1>1, <1>2, <2>1, <2>3
  <2>4. CASE p # q /\ r # q
    BY <1>1, <1>2, <2>1, <2>4
  <2>. QED  BY <2>2, <2>3, <2>4
<1>3. ASSUME NEW v PROVE (\E p \in Places : v \in d[p]) <=> v \in 1..given'
  <2>1. v \in 1..given <=> \E p \in Places : v \in c[p]
    BY <1>1
  <2>2. ASSUME NEW p \in Places, v \in d[p] PROVE v \in 1..given \cup X
    BY <1>1, <2>1, <2>2
  <2>3. ASSUME v \in X PROVE v \in d[q]
    BY <1>1, <2>3
  <2>4. ASSUME NEW p \in Places, v \in c[p], v \notin X PROVE v \in d[p]
    BY <1>1, <2>4
  <2>5. v \in 1..given' <=> v \in 1..given \cup X
    OBVIOUS
  <2>. QED  BY <2>1, <2>2, <2>3, <2>4, <2>5
<1>4. Places' = Places
  BY DEF Places
<1>5. UNION {d[p] : p \in Places} = 1..given'
  BY <1>3
<1>. QED  BY <1>2, <1>4, <1>5 DEF PlacesInv, d

\* A step that puts nothing anywhere.
LEMMA PlacesStay ==
  ASSUME PlacesInv, UNCHANGED given, \A p \in Places : contents'[p] = contents[p]
  PROVE  PlacesInv'
<1>. DEFINE q == <<"overflown", "none">>
<1>1. q \in Places
  BY ContentsAre
<1>. HIDE DEF q
<1>2. contents'[q] = contents[q] \cup {} /\ 1..given' = 1..given \cup {}
  BY <1>1
<1>3. \A p \in Places : p # q => contents'[p] = contents[p] \ {}
  OBVIOUS
<1>. QED  BY <1>1, <1>2, <1>3, PlacesStep

\* What a step of w leaves as it is: thieves only make room, and nobody writes to a slot
\* that holds a value.
StepOf(w) ==
  /\ StealingTypes'
  /\ \A u \in Worker : u # w =>
       /\ place'[u] = place[u] /\ local'[u] = local[u]
       /\ tail_'[u] = tail_[u] /\ buf_'[u] = buf_[u]
  /\ \A u \in Worker : /\ head_[u] <= head_'[u] /\ tail_[u] <= tail_'[u]
                       /\ \A j \in Window(u) : Slot(u, j)' = Slot(u, j)

LEMMA Aside ==
  ASSUME StealingInv, NEW w \in Worker, StepOf(w), NEW u \in Worker, u # w,
         head_'[u] <= tail_[u]
  PROVE  /\ RingInv(u)' /\ OwnerInv(u)' /\ ThiefInv(u)'
         /\ Hand(u)' = Hand(u)
         /\ head_'[u] = head_[u] => Ring(u)' = Ring(u)
         /\ Window(u)' = head_'[u]..End(u) - 1
         /\ \A j \in Window(u)' : j \in Window(u) /\ Slot(u, j)' = Slot(u, j)
<1>1. /\ place'[u] = place[u] /\ local'[u] = local[u] /\ tail_'[u] = tail_[u]
      /\ buf_'[u] = buf_[u] /\ head_[u] <= head_'[u] /\ head_'[u] \in Nat
      /\ \A j : Slot(u, j)' = Slot(u, j)
  BY DEF StepOf, StealingTypes, Slot
<1>2. /\ N \in Nat /\ head_[u] \in Nat /\ tail_[u] \in Nat /\ End(u) \in Nat
      /\ local[u].head \in Nat /\ local[u].from \in Nat /\ local[u].n \in Nat
      /\ local[u].i \in Nat /\ tail_[u] <= End(u)
  BY Typed
<1>3. RingInv(u) /\ OwnerInv(u) /\ ThiefInv(u)
  BY DEF StealingInv
<1>4. End(u)' = End(u)
  BY <1>1 DEF End
<1>5. Window(u)' = head_'[u]..End(u) - 1
  BY <1>4 DEF Window
<1>6. \A j \in Window(u)' : j \in Window(u)
  BY <1>1, <1>2, <1>4 DEF Window
<1>7. RingInv(u)'
  <2>1. head_'[u] <= tail_'[u] /\ End(u)' <= head_'[u] + N
    BY <1>1, <1>2, <1>3, <1>4 DEF RingInv
  <2>2. \A j, k \in Window(u)' : Slot(u, j)' = Slot(u, k)' => j = k
    BY <1>1, <1>3, <1>6 DEF RingInv
  <2>. QED  BY <2>1, <2>2 DEF RingInv
<1>8. OwnerInv(u)'
  BY <1>1, <1>2, <1>3 DEF OwnerInv
<1>9. ThiefInv(u)'
  <2>1. ASSUME place[u] \in {"size", "copy", "take"},
               NEW l \in Locals, l = local[u], NEW v \in Worker, v = l.victim
        PROVE  ThiefInv(u)'
    <3>1. /\ head_[v] \in Nat /\ head_'[v] \in Nat /\ tail_[v] \in Nat
          /\ tail_'[v] \in Nat /\ head_[v] <= head_'[v] /\ tail_[v] <= tail_'[v]
          /\ tail_[v] <= End(v) /\ End(v) \in Nat
          /\ \A j \in Window(v) : Slot(v, j)' = Slot(v, j)
          /\ l.from <= head_[v]
      BY <1>3, <2>1, Typed DEF ThiefInv, StepOf, StealingTypes
    <3>2. l.from <= head_'[v]
      BY <1>2, <2>1, <3>1
    <3>3. CASE place[u] \in {"copy", "take"}
      <4>1. /\ l.from + l.n <= tail_[v] /\ l.i <= l.n
            /\ head_[v] = l.from =>
                 \A k \in 0..l.i - 1 : Slot(u, tail_[u] + k) = Slot(v, l.from + k)
        BY <1>2, <1>3, <2>1, <3>3 DEF ThiefInv
      <4>2. l.from + l.n <= tail_'[v]
        BY <1>2, <2>1, <3>1, <4>1
      <4>3. ASSUME head_'[v] = l.from, NEW k \in 0..l.i - 1
            PROVE  Slot(u, tail_[u] + k)' = Slot(v, l.from + k)'
        <5>1. head_[v] = l.from
          BY <1>2, <2>1, <3>1, <4>3
        <5>2. l.from + k \in Window(v)
          BY <1>2, <2>1, <3>1, <4>1, <5>1 DEF Window
        <5>3. Slot(u, tail_[u] + k)' = Slot(u, tail_[u] + k)
          BY <1>1 DEF Slot
        <5>4. Slot(v, l.from + k)' = Slot(v, l.from + k)
          BY <3>1, <5>2
        <5>. QED  BY <4>1, <5>1, <5>3, <5>4
      <4>. QED
        BY <1>1, <1>3, <2>1, <3>2, <3>3, <4>2, <4>3 DEF ThiefInv
    <3>4. CASE place[u] = "size"
      BY <1>1, <1>3, <2>1, <3>2, <3>4 DEF ThiefInv
    <3>. QED  BY <2>1, <3>3, <3>4
  <2>2. CASE place[u] \notin {"size", "copy", "take"}
    BY <1>1, <1>3, <2>2 DEF ThiefInv
  <2>3. local[u] \in Locals
    BY Typed
  <2>4. place[u] \in {"size", "copy", "take"} => local[u].victim \in Worker
    BY <1>3 DEF ThiefInv
  <2>. QED  BY <2>1, <2>2, <2>3, <2>4
<1>10. Hand(u)' = Hand(u)
  BY <1>1 DEF Hand
<1>11. head_'[u] = head_[u] => Ring(u)' = Ring(u)
  <2>. SUFFICES ASSUME head_'[u] = head_[u] PROVE Ring(u)' = Ring(u)
    OBVIOUS
  <2>1. Window(u)' = Window(u)
    BY <1>5 DEF Window
  <2>. QED  BY <1>1, <2>1 DEF Ring
<1>. QED  BY <1>1, <1>5, <1>6, <1>7, <1>8, <1>9, <1>10, <1>11

\* With it only w's own part is left to show.
LEMMA StepInv ==
  ASSUME StealingInv, NEW w \in Worker, StepOf(w),
         \A u \in Worker : u # w => head_'[u] <= tail_[u],
         RingInv(w)', OwnerInv(w)', ThiefInv(w)', PlacesInv'
  PROVE  StealingInv'
<1>1. ASSUME NEW u \in Worker PROVE RingInv(u)' /\ OwnerInv(u)' /\ ThiefInv(u)'
  <2>1. CASE u = w
    BY <2>1
  <2>2. CASE u # w
    BY <2>2, Aside
  <2>. QED  BY <2>1, <2>2
<1>. QED  BY <1>1 DEF StealingInv, StepOf

\* A step that changes w's locals only.
LEMMA QuietStep ==
  ASSUME StealingInv, NEW w \in Worker, NEW l \in Doings, NEW m \in Locals,
         UNCHANGED <<rings, overflown, got>>, given' \in Nat,
         place' = [place EXCEPT ![w] = l], local' = [local EXCEPT ![w] = m],
         place[w] # "keep", l # "keep"
  PROVE  /\ StepOf(w) /\ RingInv(w)' /\ Ring(w)' = Ring(w)
         /\ place'[w] = l /\ local'[w] = m
         /\ \A u \in Worker : head_'[u] <= tail_[u]
         /\ \A u, j : Slot(u, j)' = Slot(u, j)
         /\ \A u \in Worker : u # w => Ring(u)' = Ring(u) /\ Hand(u)' = Hand(u)
<1>1. /\ head_' = head_ /\ tail_' = tail_ /\ buf_' = buf_ /\ overflown' = overflown /\ got' = got
      /\ place'[w] = l /\ local'[w] = m
      /\ \A u \in Worker : u # w => place'[u] = place[u] /\ local'[u] = local[u]
  BY DEF rings, StealingInv, StealingTypes
<1>2. StealingTypes'
  BY <1>1 DEF StealingInv, StealingTypes
<1>3. \A u, j : Slot(u, j)' = Slot(u, j)
  BY <1>1 DEF Slot
<1>4. \A u \in Worker : /\ End(u)' = End(u) /\ head_[u] <= head_'[u] /\ tail_[u] <= tail_'[u]
                        /\ head_'[u] <= tail_[u]
  <2>1. ASSUME NEW u \in Worker PROVE End(u)' = End(u)
    BY <1>1 DEF End
  <2>. QED  BY <1>1, <2>1, Typed DEF StealingInv, RingInv
<1>5. StepOf(w)
  BY <1>1, <1>2, <1>3, <1>4 DEF StepOf
<1>6. \A u \in Worker : Window(u)' = Window(u) /\ Ring(u)' = Ring(u)
  <2>1. \A u \in Worker : Window(u)' = Window(u)
    BY <1>1, <1>4 DEF Window
  <2>. QED  BY <1>3, <2>1 DEF Ring
<1>7. RingInv(w)'
  BY <1>1, <1>3, <1>4, <1>6 DEF StealingInv, RingInv
<1>8. \A u \in Worker : u # w => Hand(u)' = Hand(u)
  BY <1>1 DEF Hand
<1>. QED  BY <1>1, <1>3, <1>4, <1>5, <1>6, <1>7, <1>8

LEMMA QuietInv ==
  ASSUME StealingInv, NEW w \in Worker, NEW l \in Doings, NEW m \in Locals,
         UNCHANGED <<rings, given, overflown, got>>,
         place' = [place EXCEPT ![w] = l], local' = [local EXCEPT ![w] = m],
         place[w] # "keep", l # "keep",
         OwnerInv(w)', ThiefInv(w)', Hand(w)' = Hand(w)
  PROVE  StealingInv'
<1>1. given' \in Nat /\ PlacesInv
  BY DEF StealingInv, StealingTypes
<1>2. /\ StepOf(w) /\ RingInv(w)' /\ Ring(w)' = Ring(w)
      /\ \A u \in Worker : head_'[u] <= tail_[u]
      /\ \A u \in Worker : u # w => Ring(u)' = Ring(u) /\ Hand(u)' = Hand(u)
  BY <1>1, QuietStep
<1>3. \A p \in Places : contents'[p] = contents[p]
  <2>1. \A u \in Worker : Ring(u)' = Ring(u) /\ Hand(u)' = Hand(u)
    BY <1>2
  <2>2. overflown' = overflown /\ got' = got
    OBVIOUS
  <2>3. Places' = Places
    BY DEF Places
  <2>. QED  BY <2>1, <2>2, <2>3 DEF contents, Places
<1>. QED  BY <1>1, <1>2, <1>3, PlacesStay, StepInv

\* local_push is called: a value comes into w's hand.
LEMMA PushInv == ASSUME StealingInv, NEW w \in Worker, Push(w) PROVE StealingInv'
<1>. DEFINE m == [local[w] EXCEPT !.value = given + 1]
<1>1. given \in Nat /\ local[w] \in Locals /\ OwnerInv(w) /\ PlacesInv
  BY Typed DEF StealingInv, StealingTypes
<1>2. /\ m \in Locals /\ m.head = local[w].head /\ m.value = given + 1
  BY <1>1 DEF Locals
<1>3. local' = [local EXCEPT ![w] = m]
  BY <1>1 DEF Push
<1>. HIDE DEF m
<1>4. /\ UNCHANGED <<rings, overflown, got>> /\ given' = given + 1 /\ given' \in Nat
      /\ place[w] = "idle" /\ place' = [place EXCEPT ![w] = "push"]
      /\ "push" \in Doings /\ "push" # "keep" /\ place[w] # "keep"
  BY <1>1 DEF Push, GoesTo, Doings
<1>5. /\ StepOf(w) /\ RingInv(w)' /\ Ring(w)' = Ring(w)
      /\ place'[w] = "push" /\ local'[w] = m
      /\ \A u \in Worker : head_'[u] <= tail_[u]
      /\ \A u \in Worker : u # w => Ring(u)' = Ring(u) /\ Hand(u)' = Hand(u)
  BY <1>2, <1>3, <1>4, QuietStep
<1>6. OwnerInv(w)' /\ ThiefInv(w)'
  BY <1>1, <1>2, <1>4, <1>5 DEF OwnerInv, ThiefInv, rings
<1>. DEFINE q == <<"hand", w>>
<1>7. /\ q \in Places /\ contents'[q] = contents[q] \cup {given + 1}
      /\ \A p \in Places : p # q => contents'[p] = contents[p]
  <2>1. Hand(w) = {} /\ Hand(w)' = {given + 1}
    BY <1>2, <1>4, <1>5 DEF Hand
  <2>2. overflown' = overflown /\ got' = got /\ Places' = Places
    BY <1>4 DEF Places
  <2>. QED  BY <1>5, <2>1, <2>2 DEF contents, Places
<1>. HIDE DEF q
<1>8. 1..given' = 1..given \cup {given + 1}
  BY <1>1, <1>4
<1>9. given + 1 \notin 1..given
  BY <1>1
<1>10. \A p \in Places : contents[p] \ {given + 1} = contents[p]
  BY <1>1, <1>9 DEF PlacesInv
<1>11. PlacesInv'
  <2>1. \A p \in Places : p # q => contents'[p] = contents[p] \ {given + 1}
    BY <1>7, <1>10
  <2>. QED  BY <1>1, <1>7, <1>8, <2>1, PlacesStep
<1>. QED  BY <1>5, <1>6, <1>11, StepInv

LEMMA LoadHeadInv == ASSUME StealingInv, NEW w \in Worker, LoadHead(w) PROVE StealingInv'
<1>. DEFINE m == [local[w] EXCEPT !.head = head_[w]]
            l == IF tail_[w] - head_[w] < N THEN "fill" ELSE "overflow"
<1>1. /\ N \in Nat /\ head_[w] \in Nat /\ tail_[w] \in Nat
      /\ local[w] \in Locals /\ place[w] = "push"
  BY Typed DEF LoadHead
<1>2. m \in Locals /\ m.head = head_[w] /\ m.value = local[w].value
  BY <1>1 DEF Locals
<1>3. local' = [local EXCEPT ![w] = m]
  BY DEF LoadHead
<1>4. /\ l \in Doings /\ l # "keep" /\ place[w] # "keep" /\ place' = [place EXCEPT ![w] = l]
      /\ UNCHANGED <<rings, given, overflown, got>>
      /\ given' \in Nat
  BY <1>1 DEF LoadHead, GoesTo, Doings, StealingInv, StealingTypes
<1>5. l \in {"fill", "overflow"} /\ l = "fill" => tail_[w] < head_[w] + N
  BY <1>1
<1>6. l = "overflow" => head_[w] + N <= tail_[w]
  BY <1>1
<1>. HIDE DEF m, l
<1>7. place'[w] = l /\ local'[w] = m
  BY <1>1, <1>2, <1>3, <1>4, QuietStep
<1>8. /\ OwnerInv(w)' /\ ThiefInv(w)' /\ Hand(w)' = Hand(w)
  <2>1. head_' = head_ /\ tail_' = tail_ /\ head_[w] <= head_[w]
    BY <1>1, <1>4 DEF rings
  <2>2. l \in {"fill", "overflow"} /\ (l = "fill" => tail_[w] < head_[w] + N)
    BY <1>1, <1>4, <1>5 DEF l
  <2>. QED  BY <1>1, <1>2, <1>6, <1>7, <2>1, <2>2 DEF OwnerInv, ThiefInv, Hand
<1>. QED  BY <1>2, <1>3, <1>4, <1>8, QuietInv

LEMMA PopInv == ASSUME StealingInv, NEW w \in Worker, Pop(w) PROVE StealingInv'
<1>. DEFINE m == [local[w] EXCEPT !.head = head_[w]]
<1>1. /\ head_[w] \in Nat /\ tail_[w] \in Nat /\ head_[w] <= tail_[w]
      /\ local[w] \in Locals /\ place[w] = "idle" /\ head_[w] # tail_[w]
  BY Typed DEF Pop, StealingInv, RingInv
<1>2. m \in Locals /\ m.head = head_[w]
  BY <1>1 DEF Locals
<1>3. local' = [local EXCEPT ![w] = m]
  BY DEF Pop
<1>. HIDE DEF m
<1>4. /\ "pop" \in Doings /\ "pop" # "keep" /\ place[w] # "keep"
      /\ place' = [place EXCEPT ![w] = "pop"]
      /\ UNCHANGED <<rings, given, overflown, got>>
      /\ given' \in Nat
  BY <1>1 DEF Pop, GoesTo, Doings, StealingInv, StealingTypes
<1>5. place'[w] = "pop" /\ local'[w] = m
  BY <1>1, <1>2, <1>3, <1>4, QuietStep
<1>6. /\ OwnerInv(w)' /\ ThiefInv(w)' /\ Hand(w)' = Hand(w)
  <2>1. head_' = head_ /\ tail_' = tail_ /\ head_[w] <= head_[w] /\ head_[w] < tail_[w]
    BY <1>1, <1>4 DEF rings
  <2>. QED  BY <1>1, <1>2, <1>5, <2>1 DEF OwnerInv, ThiefInv, Hand
<1>. QED  BY <1>2, <1>3, <1>4, <1>6, QuietInv

LEMMA StealInv ==
  ASSUME StealingInv, NEW w \in Worker, NEW victim \in Worker, Steal(w, victim)
  PROVE  StealingInv'
<1>. DEFINE m == [local[w] EXCEPT !.victim = victim, !.head = head_[w]]
<1>1. /\ N \in Nat /\ head_[w] \in Nat /\ tail_[w] \in Nat /\ tail_[w] <= head_[w] + N
      /\ local[w] \in Locals /\ place[w] = "idle"
  <2>1. End(w) <= head_[w] + N /\ place[w] = "idle"
    BY DEF Steal, StealingInv, RingInv
  <2>. QED  BY <2>1, Typed
<1>2. m \in Locals /\ m.head = head_[w] /\ m.victim = victim
  BY <1>1 DEF Locals
<1>3. local' = [local EXCEPT ![w] = m]
  BY <1>1 DEF Steal, StealingInv, StealingTypes
<1>. HIDE DEF m
<1>4. /\ "other" \in Doings /\ "other" # "keep" /\ place[w] # "keep"
      /\ place' = [place EXCEPT ![w] = "other"]
      /\ UNCHANGED <<rings, given, overflown, got>>
      /\ given' \in Nat
  BY <1>1 DEF Steal, GoesTo, Doings, StealingInv, StealingTypes
<1>5. place'[w] = "other" /\ local'[w] = m
  BY <1>1, <1>2, <1>3, <1>4, QuietStep
<1>6. /\ OwnerInv(w)' /\ ThiefInv(w)' /\ Hand(w)' = Hand(w)
  <2>1. head_' = head_ /\ tail_' = tail_ /\ head_[w] <= head_[w]
    BY <1>1, <1>4 DEF rings
  <2>. QED  BY <1>1, <1>2, <1>5, <2>1 DEF OwnerInv, ThiefInv, Hand
<1>. QED  BY <1>2, <1>3, <1>4, <1>6, QuietInv

LEMMA LoadOtherInv == ASSUME StealingInv, NEW w \in Worker, LoadOther(w) PROVE StealingInv'
<1>1. /\ local[w] \in Locals /\ place[w] = "other" /\ OwnerInv(w) /\ ThiefInv(w)
      /\ local[w].victim \in Worker /\ head_[local[w].victim] \in Nat
  BY Typed DEF LoadOther, StealingInv, ThiefInv
<1>. DEFINE m == [local[w] EXCEPT !.from = head_[local[w].victim]]
<1>2. /\ m \in Locals /\ m.head = local[w].head /\ m.victim = local[w].victim
      /\ m.from = head_[m.victim] /\ m.from \in Nat
  BY <1>1 DEF Locals
<1>3. local' = [local EXCEPT ![w] = m]
  BY DEF LoadOther
<1>. HIDE DEF m
<1>4. /\ "size" \in Doings /\ "size" # "keep" /\ place[w] # "keep"
      /\ place' = [place EXCEPT ![w] = "size"]
      /\ UNCHANGED <<rings, given, overflown, got>>
      /\ given' \in Nat
  BY <1>1 DEF LoadOther, GoesTo, Doings, StealingInv, StealingTypes
<1>5. place'[w] = "size" /\ local'[w] = m
  BY <1>1, <1>2, <1>3, <1>4, QuietStep
<1>6. /\ OwnerInv(w)' /\ ThiefInv(w)' /\ Hand(w)' = Hand(w)
  <2>1. head_' = head_ /\ tail_' = tail_ /\ m.from <= head_[m.victim]
    BY <1>2, <1>4 DEF rings
  <2>. QED  BY <1>1, <1>2, <1>5, <2>1 DEF OwnerInv, ThiefInv, Hand
<1>. QED  BY <1>2, <1>3, <1>4, <1>6, QuietInv

\* What w's part is when it does nothing.
LEMMA IdleWorker ==
  ASSUME StealingInv, NEW w \in Worker, StealingTypes',
         place'[w] = "idle", local'[w] = NoLocals
  PROVE  OwnerInv(w)' /\ ThiefInv(w)' /\ Hand(w)' = {}
<1>1. head_'[w] \in Nat
  BY DEF StealingTypes
<1>. QED  BY <1>1 DEF OwnerInv, ThiefInv, Hand, NoLocals

LEMMA RetryInv ==
  ASSUME StealingInv, NEW w \in Worker,
         UNCHANGED <<rings, given, overflown, got>>,
         place[w] \in {"size", "take"}, place' = [place EXCEPT ![w] = "retry"], local' = local
  PROVE  StealingInv'
<1>1. local[w] \in Locals /\ OwnerInv(w) /\ ThiefInv(w) /\ given' \in Nat
  BY Typed DEF StealingInv, StealingTypes
<1>2. /\ "retry" \in Doings /\ "retry" # "keep" /\ place[w] # "keep"
      /\ local' = [local EXCEPT ![w] = local[w]]
  BY DEF Doings, StealingInv, StealingTypes
<1>3. place'[w] = "retry" /\ local'[w] = local[w]
  BY <1>1, <1>2, QuietStep
<1>4. OwnerInv(w)' /\ ThiefInv(w)' /\ Hand(w)' = Hand(w)
  BY <1>1, <1>3 DEF OwnerInv, ThiefInv, Hand, rings
<1>. QED  BY <1>1, <1>2, <1>4, QuietInv

LEMMA RereadInv == ASSUME StealingInv, NEW w \in Worker, Retry(w) PROVE StealingInv'
<1>. DEFINE m == [NoLocals EXCEPT !.victim = local[w].victim, !.head = head_[w]]
<1>1. /\ N \in Nat /\ head_[w] \in Nat /\ tail_[w] \in Nat /\ tail_[w] <= head_[w] + N
      /\ local[w] \in Locals /\ place[w] = "retry" /\ local[w].victim \in Worker
  <2>1. End(w) <= head_[w] + N /\ place[w] = "retry" /\ local[w].victim \in Worker
    BY DEF Retry, StealingInv, RingInv, ThiefInv
  <2>. QED  BY <2>1, Typed
<1>2. m \in Locals /\ m.head = head_[w] /\ m.victim = local[w].victim
  BY <1>1 DEF Locals, NoLocals
<1>3. local' = [local EXCEPT ![w] = m]
  BY DEF Retry
<1>. HIDE DEF m
<1>4. /\ "other" \in Doings /\ "other" # "keep" /\ place[w] # "keep"
      /\ place' = [place EXCEPT ![w] = "other"]
      /\ UNCHANGED <<rings, given, overflown, got>>
      /\ given' \in Nat
  BY <1>1 DEF Retry, GoesTo, Doings, StealingInv, StealingTypes
<1>5. place'[w] = "other" /\ local'[w] = m
  BY <1>1, <1>2, <1>3, <1>4, QuietStep
<1>6. /\ OwnerInv(w)' /\ ThiefInv(w)' /\ Hand(w)' = Hand(w)
  <2>1. head_' = head_ /\ tail_' = tail_ /\ head_[w] <= head_[w]
    BY <1>1, <1>4 DEF rings
  <2>. QED  BY <1>1, <1>2, <1>5, <2>1 DEF OwnerInv, ThiefInv, Hand
<1>. QED  BY <1>2, <1>3, <1>4, <1>6, QuietInv

\* The call ends, and nothing came of it.
LEMMA ReturnInv ==
  ASSUME StealingInv, NEW w \in Worker, Done(w), place[w] \in {"pop", "size"},
         UNCHANGED <<rings, given, overflown, got>>
  PROVE  StealingInv'
<1>1. /\ NoLocals \in Locals /\ given' \in Nat
      /\ "idle" \in Doings /\ "idle" # "keep" /\ place[w] # "keep"
      /\ place' = [place EXCEPT ![w] = "idle"] /\ local' = [local EXCEPT ![w] = NoLocals]
  BY DEF Done, GoesTo, NoLocals, Locals, Doings, StealingInv, StealingTypes
<1>2. place'[w] = "idle" /\ local'[w] = NoLocals /\ StealingTypes'
  BY <1>1, QuietStep DEF StepOf
<1>3. OwnerInv(w)' /\ ThiefInv(w)' /\ Hand(w)' = Hand(w)
  BY <1>2, IdleWorker DEF Hand
<1>. QED  BY <1>1, <1>3, QuietInv

LEMMA LoadTailInv == ASSUME StealingInv, NEW w \in Worker, LoadTail(w) PROVE StealingInv'
<1>1. /\ N \in Nat /\ head_[w] \in Nat /\ tail_[w] \in Nat /\ local[w] \in Locals
      /\ local[w].head \in Nat /\ local[w].from \in Nat
      /\ place[w] = "size" /\ OwnerInv(w) /\ ThiefInv(w)
      /\ local[w].victim \in Worker /\ tail_[local[w].victim] \in Nat
      /\ tail_[w] <= local[w].head + N /\ local[w].from <= head_[local[w].victim]
      /\ given' \in Nat /\ UNCHANGED <<rings, given, overflown, got>>
  BY Typed DEF LoadTail, StealingInv, StealingTypes, ThiefInv
<1>. DEFINE to   == tail_[local[w].victim]
            all  == to - local[w].from
            half == all - all \div 2
            n    == Least(half, local[w].head + N - tail_[w])
            m    == [local[w] EXCEPT !.n = n, !.i = 0]
<1>2. \/ GoesTo(w, "retry") /\ UNCHANGED local
      \/ Done(w)
      \/ /\ ~(to < local[w].from \/ all > N) /\ n # 0
         /\ GoesTo(w, "copy") /\ local' = [local EXCEPT ![w].n = n, ![w].i = 0]
  BY DEF LoadTail
<1>3. CASE GoesTo(w, "retry") /\ UNCHANGED local
  BY <1>1, <1>3, RetryInv DEF GoesTo
<1>4. CASE Done(w)
  BY <1>1, <1>4, ReturnInv
<1>5. CASE /\ ~(to < local[w].from \/ all > N) /\ n # 0
           /\ GoesTo(w, "copy") /\ local' = [local EXCEPT ![w].n = n, ![w].i = 0]
  <2>1. all \in Nat /\ local[w].from + all = to
    <3>1. to \in Nat /\ local[w].from \in Nat /\ ~(to < local[w].from)
      BY <1>1, <1>5
    <3>. HIDE DEF to
    <3>. QED  BY <3>1
  <2>2. half \in Nat /\ half <= all
    <3>. HIDE DEF all
    <3>. QED  BY <2>1
  <2>3. n \in Nat /\ n >= 1 /\ n <= half /\ n <= local[w].head + N - tail_[w]
    <3>. HIDE DEF half
    <3>. QED  BY <1>1, <1>5, <2>2 DEF Least
  <2>4. local[w].from + n <= to /\ tail_[w] + n <= local[w].head + N
    <3>. HIDE DEF half, n, all
    <3>. QED  BY <1>1, <2>1, <2>2, <2>3
  <2>5. local' = [local EXCEPT ![w] = m]
    BY <1>5 DEF StealingInv, StealingTypes
  <2>. HIDE DEF n
  <2>6. /\ m \in Locals /\ m.head = local[w].head /\ m.victim = local[w].victim
        /\ m.from = local[w].from /\ m.n = n /\ m.i = 0
    BY <1>1, <2>3 DEF Locals
  <2>. HIDE DEF m
  <2>7. /\ "copy" \in Doings /\ "copy" # "keep" /\ place[w] # "keep"
        /\ place' = [place EXCEPT ![w] = "copy"]
    BY <1>1, <1>5 DEF GoesTo, Doings
  <2>8. place'[w] = "copy" /\ local'[w] = m
    BY <1>1, <2>5, <2>6, <2>7, QuietStep
  <2>9. OwnerInv(w)' /\ Hand(w)' = Hand(w)
    BY <1>1, <2>6, <2>8 DEF OwnerInv, Hand, rings
  <2>10. ThiefInv(w)'
    <3>1. head_' = head_ /\ tail_' = tail_ /\ 0..m.i - 1 = {} /\ m.i < m.n /\ 1 <= m.n
      BY <1>1, <2>3, <2>6 DEF rings
    <3>. QED  BY <1>1, <2>4, <2>6, <2>8, <3>1 DEF ThiefInv
  <2>. QED  BY <1>1, <2>5, <2>6, <2>7, <2>9, <2>10, QuietInv
<1>. QED  BY <1>2, <1>3, <1>4, <1>5

\* The slots that a value is written to are not those that hold one.
LEMMA Written ==
  ASSUME StealingInv, NEW w \in Worker, NEW k \in Nat, NEW x \in Nat,
         End(w) <= k, k < head_[w] + N,
         buf_' = [buf_ EXCEPT ![w][k % N] = x]
  PROVE  /\ buf_' \in [Worker -> [0..N - 1 -> Nat]]
         /\ \A u \in Worker : u # w => buf_'[u] = buf_[u]
         /\ Slot(w, k)' = x
         /\ \A j \in Nat : j < k /\ k < j + N => Slot(w, j)' = Slot(w, j)
         /\ \A u \in Worker : \A j \in Window(u) : Slot(u, j)' = Slot(u, j)
<1>1. buf_ \in [Worker -> [0..N - 1 -> Nat]] /\ k % N \in 0..N - 1
  BY InBuf DEF StealingInv, StealingTypes
<1>2. /\ buf_' \in [Worker -> [0..N - 1 -> Nat]]
      /\ \A u \in Worker : u # w => buf_'[u] = buf_[u]
      /\ buf_'[w] = [buf_[w] EXCEPT ![k % N] = x]
  BY <1>1
<1>3. Slot(w, k)' = x
  BY <1>1, <1>2 DEF Slot
<1>4. ASSUME NEW j \in Nat, j < k, k < j + N PROVE Slot(w, j)' = Slot(w, j)
  <2>1. j % N # k % N /\ j % N \in 0..N - 1
    BY <1>4, Apart, InBuf
  <2>. QED  BY <1>1, <1>2, <2>1 DEF Slot
<1>5. ASSUME NEW u \in Worker, NEW j \in Window(u) PROVE Slot(u, j)' = Slot(u, j)
  <2>1. CASE u = w
    <3>1. j \in Nat /\ head_[w] <= j /\ j < End(w)
      BY <2>1, Typed DEF Window
    <3>2. j < k /\ k < j + N
      BY <3>1, Typed
    <3>. QED  BY <1>4, <2>1, <3>1, <3>2
  <2>2. CASE u # w
    BY <1>2, <2>2 DEF Slot
  <2>. QED  BY <2>1, <2>2
<1>. QED  BY <1>2, <1>3, <1>4, <1>5

LEMMA WriteInv ==
  ASSUME StealingInv, NEW w \in Worker, NEW l \in Doings, NEW m \in Locals,
         UNCHANGED <<head_, tail_, given, overflown, got>>,
         place' = [place EXCEPT ![w] = l], local' = [local EXCEPT ![w] = m],
         place[w] # "keep", l # "keep",
         buf_' \in [Worker -> [0..N - 1 -> Nat]],
         \A u \in Worker : u # w => buf_'[u] = buf_[u],
         \A u \in Worker : \A j \in Window(u) : Slot(u, j)' = Slot(u, j),
         OwnerInv(w)', ThiefInv(w)', Hand(w)' = Hand(w)
  PROVE  StealingInv'
<1>1. /\ place'[w] = l /\ local'[w] = m
      /\ \A u \in Worker : u # w => place'[u] = place[u] /\ local'[u] = local[u]
  BY DEF StealingInv, StealingTypes
<1>2. StealingTypes' /\ PlacesInv
  BY DEF StealingInv, StealingTypes
<1>3. \A u \in Worker : /\ head_[u] <= head_'[u] /\ tail_[u] <= tail_'[u]
                        /\ head_'[u] <= tail_[u]
  BY Typed DEF StealingInv, RingInv
<1>4. StepOf(w)
  BY <1>1, <1>2, <1>3 DEF StepOf
<1>5. \A u \in Worker : Window(u)' = Window(u) /\ End(u)' = End(u)
  <2>1. ASSUME NEW u \in Worker PROVE End(u)' = End(u)
    BY <1>1 DEF End
  <2>. QED  BY <2>1 DEF Window
<1>6. \A u \in Worker : Ring(u)' = Ring(u) /\ Hand(u)' = Hand(u)
  <2>1. \A u \in Worker : Ring(u)' = Ring(u)
    BY <1>5 DEF Ring
  <2>2. \A u \in Worker : u # w => Hand(u)' = Hand(u)
    BY <1>1 DEF Hand
  <2>. QED  BY <2>1, <2>2
<1>7. RingInv(w)'
  <2>1. RingInv(w)
    BY DEF StealingInv
  <2>. QED  BY <1>5, <2>1 DEF RingInv
<1>8. \A p \in Places : contents'[p] = contents[p]
  <2>1. Places' = Places
    BY DEF Places
  <2>. QED  BY <1>6, <2>1 DEF contents, Places
<1>. QED  BY <1>2, <1>3, <1>4, <1>7, <1>8, PlacesStay, StepInv

LEMMA FillInv == ASSUME StealingInv, NEW w \in Worker, Fill(w) PROVE StealingInv'
<1>1. /\ place[w] = "fill" /\ End(w) = tail_[w] /\ tail_[w] < head_[w] + N /\ tail_[w] \in Nat
      /\ head_[w] \in Nat
      /\ local[w] \in Locals /\ local[w].value \in Nat /\ OwnerInv(w) /\ End(w) <= tail_[w]
  BY Typed DEF Fill, StealingInv, OwnerInv
<1>2. /\ "publish" \in Doings /\ "publish" # "keep" /\ place[w] # "keep"
      /\ place' = [place EXCEPT ![w] = "publish"] /\ local' = [local EXCEPT ![w] = local[w]]
      /\ UNCHANGED <<head_, tail_, given, overflown, got>>
      /\ buf_' = [buf_ EXCEPT ![w][tail_[w] % N] = local[w].value]
  BY <1>1 DEF Fill, GoesTo, Doings, StealingInv, StealingTypes
<1>3. /\ buf_' \in [Worker -> [0..N - 1 -> Nat]]
      /\ \A u \in Worker : u # w => buf_'[u] = buf_[u]
      /\ Slot(w, tail_[w])' = local[w].value
      /\ \A u \in Worker : \A j \in Window(u) : Slot(u, j)' = Slot(u, j)
  <2>. DEFINE k == tail_[w]
  <2>1. k \in Nat /\ End(w) <= k /\ k < head_[w] + N
        /\ buf_' = [buf_ EXCEPT ![w][k % N] = local[w].value]
    BY <1>1, <1>2
  <2>2. Slot(w, k)' = buf_'[w][tail_[w] % N]
    BY <1>2 DEF Slot
  <2>3. buf_'[w][tail_[w] % N] = local[w].value
    BY <1>1, <1>2, InBuf DEF StealingInv, StealingTypes
  <2>4. ASSUME NEW i \in Nat, i = k
        PROVE  /\ buf_' \in [Worker -> [0..N - 1 -> Nat]]
               /\ \A u \in Worker : u # w => buf_'[u] = buf_[u]
               /\ \A u \in Worker : \A j \in Window(u) : Slot(u, j)' = Slot(u, j)
    BY <1>1, <2>1, <2>4, Written
  <2>. QED  BY <2>1, <2>2, <2>3, <2>4
<1>4. place'[w] = "publish" /\ local'[w] = local[w]
  BY <1>2 DEF StealingInv, StealingTypes
<1>5. OwnerInv(w)' /\ ThiefInv(w)' /\ Hand(w)' = Hand(w)
  BY <1>1, <1>2, <1>3, <1>4 DEF OwnerInv, ThiefInv, Hand
<1>. QED  BY <1>1, <1>2, <1>3, <1>5, WriteInv

LEMMA CopyInv == ASSUME StealingInv, NEW w \in Worker, Copy(w) PROVE StealingInv'
<1>. SUFFICES ASSUME NEW o \in Locals, o = local[w], NEW v \in Worker, v = o.victim,
                     NEW k \in Nat, k = tail_[w] + o.i
              PROVE  StealingInv'
  <2>1. local[w] \in Locals /\ local[w].victim \in Worker /\ tail_[w] + local[w].i \in Nat
    BY Typed DEF Copy, StealingInv, ThiefInv
  <2>. QED  BY <2>1
<1>1. /\ place[w] = "copy" /\ OwnerInv(w) /\ ThiefInv(w)
      /\ o.i < o.n /\ o.i \in Nat /\ o.n \in Nat /\ o.from \in Nat /\ o.head \in Nat
      /\ o.head <= head_[w] /\ tail_[w] + o.n <= o.head + N /\ head_[w] <= tail_[w]
      /\ o.from <= head_[v] /\ o.from + o.n <= tail_[v]
      /\ N \in Nat /\ tail_[w] \in Nat /\ head_[w] \in Nat /\ head_[v] \in Nat
      /\ tail_[v] \in Nat /\ End(w) = tail_[w] /\ tail_[v] <= End(v) /\ End(v) \in Nat
  BY Typed DEF Copy, StealingInv, OwnerInv, ThiefInv, RingInv
<1>. DEFINE x == Slot(v, o.from + o.i)
            m == [o EXCEPT !.i = @ + 1]
            l == IF o.i + 1 < o.n THEN "copy" ELSE "take"
<1>2. x \in Nat
  <2>1. o.from + o.i \in Nat
    BY <1>1
  <2>3. buf_[v] \in [0..N - 1 -> Nat]
    BY Typed
  <2>2. (o.from + o.i) % N \in 0..N - 1
    BY <2>1, InBuf
  <2>. QED  BY <2>2, <2>3 DEF Slot
<1>3. /\ buf_' = [buf_ EXCEPT ![w][k % N] = x]
      /\ local' = [local EXCEPT ![w] = m] /\ place' = [place EXCEPT ![w] = l]
      /\ UNCHANGED <<head_, tail_, given, overflown, got>>
  BY DEF Copy, GoesTo, StealingInv, StealingTypes
<1>4. /\ m \in Locals /\ m.head = o.head /\ m.victim = v /\ m.from = o.from /\ m.n = o.n
      /\ m.i = o.i + 1
  BY <1>1 DEF Locals
<1>5. /\ l \in Doings /\ l # "keep" /\ place[w] # "keep" /\ l \in {"copy", "take"}
      /\ l = "copy" => m.i < m.n
      /\ l = "take" => m.i = m.n
  BY <1>1, <1>4 DEF Doings
<1>6. End(w) <= k /\ k < head_[w] + N
  BY <1>1
<1>. HIDE DEF x, m, l
<1>7. /\ buf_' \in [Worker -> [0..N - 1 -> Nat]]
      /\ \A u \in Worker : u # w => buf_'[u] = buf_[u]
      /\ Slot(w, k)' = x
      /\ \A j \in Nat : j < k /\ k < j + N => Slot(w, j)' = Slot(w, j)
      /\ \A u \in Worker : \A j \in Window(u) : Slot(u, j)' = Slot(u, j)
  BY <1>2, <1>3, <1>6, Written
<1>8. place'[w] = l /\ local'[w] = m
  BY <1>3 DEF StealingInv, StealingTypes
<1>9. OwnerInv(w)' /\ Hand(w)' = Hand(w)
  BY <1>1, <1>3, <1>4, <1>5, <1>8 DEF OwnerInv, Hand
<1>10. ASSUME head_[v] = m.from, NEW i \in 0..m.i - 1
       PROVE  Slot(w, tail_[w] + i)' = Slot(v, m.from + i)'
  <2>1. i \in Nat /\ i <= o.i /\ m.from + i \in Nat /\ m.from + i \in Window(v)
    BY <1>1, <1>4, <1>10 DEF Window
  <2>2. Slot(v, m.from + i)' = Slot(v, m.from + i)
    <3>. SUFFICES ASSUME NEW j \in Nat, j = m.from + i PROVE Slot(v, j)' = Slot(v, j)
      BY <1>3, <1>4, <1>8, <2>1 DEF Slot
    <3>. QED  BY <1>7, <2>1
  <2>3. CASE i = o.i
    <3>1. Slot(w, tail_[w] + i)' = Slot(w, k)'
      BY <1>3, <2>3 DEF Slot
    <3>. QED  BY <1>4, <1>7, <2>2, <2>3, <3>1 DEF x
  <2>4. CASE i < o.i
    <3>1. tail_[w] + i \in Nat /\ tail_[w] + i < k /\ k < (tail_[w] + i) + N
      BY <1>1, <2>1, <2>4
    <3>2. Slot(w, tail_[w] + i)' = Slot(w, tail_[w] + i)
      <4>. SUFFICES ASSUME NEW j \in Nat, j = tail_[w] + i PROVE Slot(w, j)' = Slot(w, j)
        BY <1>3, <3>1 DEF Slot
      <4>. QED  BY <1>7, <3>1
    <3>3. Slot(w, tail_[w] + i) = Slot(v, o.from + i)
      BY <1>1, <1>4, <1>10, <2>1, <2>4 DEF ThiefInv
    <3>. QED  BY <1>4, <2>2, <3>2, <3>3
  <2>. QED  BY <1>1, <2>1, <2>3, <2>4
<1>11. ThiefInv(w)'
  <2>1. head_' = head_ /\ tail_' = tail_
    BY <1>3
  <2>2. \A i \in 0..m.i - 1 :
          head_'[v] = m.from => Slot(w, tail_[w] + i)' = Slot(v, m.from + i)'
    BY <1>10, <2>1
  <2>. QED  BY <1>1, <1>4, <1>5, <1>8, <2>1, <2>2 DEF ThiefInv
<1>. QED  BY <1>3, <1>4, <1>5, <1>7, <1>9, <1>11, WriteInv

\* A value that is in one place is not in another.
LEMMA Elsewhere ==
  ASSUME PlacesInv, NEW p \in Places, NEW r \in Places, p # r, NEW X, X \subseteq contents[p]
  PROVE  contents[r] \ X = contents[r]
<1>1. contents[p] \cap contents[r] = {}
  BY DEF PlacesInv
<1>. QED  BY <1>1

LEMMA OnePlace ==
  ASSUME PlacesInv, NEW w \in Worker
  PROVE  /\ Hand(w) \cap Ring(w) = {}
         /\ \A u \in Worker : u # w => Ring(u) \cap Ring(w) = {}
<1>1. ASSUME NEW p \in Places, NEW q \in Places, p # q PROVE contents[p] \cap contents[q] = {}
  BY <1>1 DEF PlacesInv
<1>2. <<"hand", w>> # <<"ring", w>>
  OBVIOUS
<1>3. Hand(w) \cap Ring(w) = {}
  <2>. DEFINE p == <<"hand", w>>
              q == <<"ring", w>>
  <2>1. p \in Places /\ q \in Places /\ contents[p] = Hand(w) /\ contents[q] = Ring(w)
    BY ContentsAre
  <2>. HIDE DEF p, q
  <2>2. p # q
    BY <1>2 DEF p, q
  <2>. QED  BY <1>1, <2>1, <2>2
<1>4. ASSUME NEW u \in Worker, u # w PROVE Ring(u) \cap Ring(w) = {}
  <2>. DEFINE p == <<"ring", u>>
              q == <<"ring", w>>
  <2>1. p \in Places /\ q \in Places /\ contents[p] = Ring(u) /\ contents[q] = Ring(w)
    BY ContentsAre
  <2>2. p # q
    BY <1>4
  <2>. HIDE DEF p, q
  <2>. QED  BY <1>1, <2>1, <2>2
<1>. QED  BY <1>3, <1>4

\* X moves from a to q.
LEMMA PlacesMove ==
  ASSUME PlacesInv, UNCHANGED given, NEW a \in Places, NEW q \in Places, a # q,
         NEW X, X \subseteq contents[a],
         contents'[q] = contents[q] \cup X, contents'[a] = contents[a] \ X,
         \A p \in Places : p \notin {a, q} => contents'[p] = contents[p]
  PROVE  PlacesInv'
<1>1. \A p \in Places : p # q => contents'[p] = contents[p] \ X
  <2>1. ASSUME NEW p \in Places, p \notin {a, q} PROVE contents'[p] = contents[p] \ X
    BY <2>1, Elsewhere
  <2>. QED  BY <2>1
<1>2. 1..given' = 1..given \cup X
  <2>1. contents[a] \subseteq UNION {contents[p] : p \in Places}
    OBVIOUS
  <2>. QED  BY <2>1 DEF PlacesInv
<1>. QED  BY <1>1, <1>2, PlacesStep

\* A step of w that moves its tail and v's head on.
LEMMA RingStep ==
  ASSUME StealingInv, NEW w \in Worker, NEW l \in Doings, NEW m \in Locals, NEW v \in Worker,
         head_' \in [Worker -> Nat], tail_' \in [Worker -> Nat],
         \A u \in Worker : u # v => head_'[u] = head_[u],
         \A u \in Worker : u # w => tail_'[u] = tail_[u],
         head_[v] <= head_'[v], tail_[w] <= tail_'[w],
         UNCHANGED <<buf_, given>>,
         overflown' \in SUBSET Nat, got' \in [Worker -> SUBSET Nat],
         place' = [place EXCEPT ![w] = l], local' = [local EXCEPT ![w] = m]
  PROVE  /\ StepOf(w) /\ place'[w] = l /\ local'[w] = m
         /\ \A u \in Worker : u # w => Hand(u)' = Hand(u)
         /\ \A u, j : Slot(u, j)' = Slot(u, j)
<1>1. /\ place'[w] = l /\ local'[w] = m
      /\ \A u \in Worker : u # w => place'[u] = place[u] /\ local'[u] = local[u]
  BY DEF StealingInv, StealingTypes
<1>2. StealingTypes'
  BY DEF StealingInv, StealingTypes
<1>3. \A u, j : Slot(u, j)' = Slot(u, j)
  BY DEF Slot
<1>4. \A u \in Worker : head_[u] <= head_'[u] /\ tail_[u] <= tail_'[u]
  <2>1. ASSUME NEW u \in Worker PROVE head_[u] <= head_[u] /\ tail_[u] <= tail_[u]
    BY Typed
  <2>. QED  BY <2>1
<1>5. StepOf(w)
  BY <1>1, <1>2, <1>3, <1>4 DEF StepOf
<1>6. \A u \in Worker : u # w => Hand(u)' = Hand(u)
  BY <1>1 DEF Hand
<1>. QED  BY <1>1, <1>3, <1>5, <1>6

\* What goes when a head goes on to h, and what stays.
Slots(u, g, h) == {Slot(u, j) : j \in g..h - 1}
LEMMA RingParts ==
  ASSUME StealingInv, NEW u \in Worker, NEW g \in Nat, NEW h \in Nat,
         head_[u] <= g, g <= h, h <= End(u)
  PROVE  /\ Ring(u) = Slots(u, head_[u], End(u))
         /\ Slots(u, g, h) \subseteq Ring(u) /\ Slots(u, g, h) \subseteq Nat
         /\ g = head_[u] => Slots(u, h, End(u)) = Ring(u) \ Slots(u, g, h)
         /\ h = End(u) => Slots(u, head_[u], g) = Ring(u) \ Slots(u, g, h)
<1>. USE DEF Slots
<1>. DEFINE X == Slots(u, g, h)
            e == End(u)
            s == head_[u]
<1>1. s \in Nat /\ e \in Nat /\ buf_[u] \in [0..N - 1 -> Nat]
  BY Typed
<1>2. \A j, k \in s..e - 1 : Slot(u, j) = Slot(u, k) => j = k
  BY DEF StealingInv, RingInv, Window
<1>3. Ring(u) = {Slot(u, j) : j \in s..e - 1}
  BY DEF Ring, Window
<1>4. ASSUME NEW j \in Nat PROVE Slot(u, j) \in Nat
  BY <1>1, InBuf DEF Slot
<1>. HIDE DEF e, s
<1>5. s <= g /\ h <= e
  BY DEF s, e
<1>6. X \subseteq Ring(u) /\ X \subseteq Nat
  <2>1. \A j \in g..h - 1 : j \in Nat /\ j \in s..e - 1
    BY <1>1, <1>5
  <2>. QED  BY <1>3, <1>4, <2>1
<1>7. ASSUME g = s PROVE {Slot(u, j) : j \in h..e - 1} = Ring(u) \ X
  <2>1. ASSUME NEW j \in h..e - 1 PROVE Slot(u, j) \in Ring(u) \ X
    BY <1>1, <1>2, <1>3, <1>5, <1>7, <2>1
  <2>2. ASSUME NEW x \in Ring(u) \ X PROVE x \in {Slot(u, j) : j \in h..e - 1}
    BY <1>1, <1>3, <1>5, <1>7, <2>2
  <2>. QED  BY <2>1, <2>2
<1>8. ASSUME h = e PROVE {Slot(u, j) : j \in s..g - 1} = Ring(u) \ X
  <2>1. ASSUME NEW j \in s..g - 1 PROVE Slot(u, j) \in Ring(u) \ X
    BY <1>1, <1>2, <1>3, <1>5, <1>8, <2>1
  <2>2. ASSUME NEW x \in Ring(u) \ X PROVE x \in {Slot(u, j) : j \in s..g - 1}
    BY <1>1, <1>3, <1>5, <1>8, <2>2
  <2>. QED  BY <2>1, <2>2
<1>. QED  BY <1>3, <1>6, <1>7, <1>8 DEF s, e

LEMMA PublishInv == ASSUME StealingInv, NEW w \in Worker, Publish(w) PROVE StealingInv'
<1>. SUFFICES ASSUME NEW h \in Nat, h = head_[w], NEW t \in Nat, t = tail_[w]
              PROVE  StealingInv'
  BY Typed
<1>1. /\ place[w] = "publish" /\ OwnerInv(w) /\ RingInv(w) /\ PlacesInv /\ N \in Nat
      /\ Slot(w, t) = local[w].value /\ local[w].value \in Nat
      /\ h <= t /\ t < h + N /\ End(w) = t
  BY Typed DEF Publish, StealingInv, OwnerInv, RingInv
<1>2. /\ "idle" \in Doings /\ NoLocals \in Locals
      /\ head_' = head_ /\ head_' \in [Worker -> Nat] /\ tail_' \in [Worker -> Nat]
      /\ \A u \in Worker : u # w => tail_'[u] = tail_[u]
      /\ tail_'[w] = t + 1
      /\ UNCHANGED <<buf_, given>>
      /\ overflown' \in SUBSET Nat /\ got' \in [Worker -> SUBSET Nat]
      /\ place' = [place EXCEPT ![w] = "idle"] /\ local' = [local EXCEPT ![w] = NoLocals]
  BY DEF Publish, Done, GoesTo, Doings, Locals, NoLocals, StealingInv, StealingTypes
<1>3. head_[w] <= head_'[w] /\ tail_[w] <= tail_'[w]
  BY <1>2
<1>4. /\ StepOf(w)
      /\ place'[w] = "idle" /\ local'[w] = NoLocals /\ head_'[w] = h /\ tail_'[w] = t + 1
      /\ \A u \in Worker : head_'[u] = head_[u]
      /\ \A u \in Worker : u # w => Hand(u)' = Hand(u)
      /\ \A u, j : Slot(u, j)' = Slot(u, j)
  BY <1>2, <1>3, RingStep
<1>5. StealingTypes' /\ OwnerInv(w)' /\ ThiefInv(w)' /\ Hand(w)' = {}
  BY <1>4, IdleWorker DEF StepOf
<1>6. Hand(w) = {Slot(w, t)} /\ Slot(w, t) \notin Ring(w)
  <2>1. Hand(w) = {Slot(w, t)}
    BY <1>1 DEF Hand
  <2>2. Hand(w) \cap Ring(w) = {}
    BY <1>1, OnePlace
  <2>. QED  BY <2>1, <2>2
<1>7. Window(w) = h..t - 1 /\ Window(w)' = h..t /\ End(w)' = t + 1
  <2>1. End(w)' = t + 1
    BY <1>4 DEF End
  <2>. QED  BY <1>1, <1>4, <2>1 DEF Window
<1>8. Ring(w)' = Ring(w) \cup {Slot(w, t)}
  <2>1. Ring(w)' = {Slot(w, j) : j \in h..t}
    BY <1>4, <1>7 DEF Ring
  <2>2. h..t = h..t - 1 \cup {t}
    BY <1>1
  <2>. QED  BY <1>7, <2>1, <2>2 DEF Ring
<1>9. RingInv(w)'
  <2>1. \A j, k \in h..t : Slot(w, j) = Slot(w, k) => j = k
    <3>1. \A j, k \in h..t - 1 : Slot(w, j) = Slot(w, k) => j = k
      BY <1>1, <1>7 DEF RingInv
    <3>2. \A j \in h..t - 1 : Slot(w, j) # Slot(w, t)
      BY <1>6, <1>7 DEF Ring
    <3>3. h..t = h..t - 1 \cup {t}
      BY <1>1
    <3>. QED  BY <3>1, <3>2, <3>3
  <2>2. h <= t + 1 /\ t + 1 <= h + N
    BY <1>1
  <2>. QED  BY <1>4, <1>7, <2>1, <2>2 DEF RingInv
<1>10. \A u \in Worker : u # w => head_'[u] <= tail_[u] /\ Ring(u)' = Ring(u)
  <2>1. ASSUME NEW u \in Worker, u # w PROVE head_'[u] <= tail_[u]
    BY <1>4, <2>1 DEF StealingInv, RingInv
  <2>. QED  BY <1>4, <2>1, Aside
<1>11. PlacesInv'
  <2>. DEFINE a == <<"hand", w>>
              q == <<"ring", w>>
              X == {Slot(w, t)}
  <2>1. /\ a \in Places /\ q \in Places /\ a # q
        /\ contents[a] = Hand(w) /\ contents[q] = Ring(w)
    BY ContentsAre
  <2>2. /\ contents'[a] = Hand(w)' /\ contents'[q] = Ring(w)'
        /\ \A p \in Places : p \notin {a, q} => contents'[p] = contents[p]
    <3>1. UNCHANGED <<overflown, got>> /\ Places' = Places
      BY DEF Publish, Places
    <3>. QED  BY <1>4, <1>10, <3>1 DEF contents, Places
  <2>. HIDE DEF a, q
  <2>. QED  BY <1>1, <1>2, <1>5, <1>6, <1>8, <2>1, <2>2, PlacesMove
<1>. QED  BY <1>4, <1>5, <1>9, <1>10, <1>11, StepInv

\* The head of w's own ring goes on to h: what it leaves goes to q.
LEMMA HeadInv ==
  ASSUME StealingInv, NEW w \in Worker, NEW X,
         place[w] \in {"pop", "overflow"}, Done(w),
         head_' \in [Worker -> Nat], \A u \in Worker : u # w => head_'[u] = head_[u],
         head_[w] <= head_'[w], head_'[w] <= tail_[w], X = Slots(w, head_[w], head_'[w]),
         UNCHANGED <<tail_, buf_, given>>,
         overflown' \in SUBSET Nat, got' \in [Worker -> SUBSET Nat]
  PROVE  /\ StepOf(w) /\ RingInv(w)' /\ OwnerInv(w)' /\ ThiefInv(w)'
         /\ \A u \in Worker : u # w => /\ head_'[u] <= tail_[u]
                                       /\ Ring(u)' = Ring(u) /\ Hand(u)' = Hand(u)
         /\ Ring(w)' = Ring(w) \ X /\ Hand(w)' = {}
         /\ X \subseteq Ring(w) /\ X \subseteq Nat
<1>. SUFFICES ASSUME NEW h \in Nat, h = head_'[w]
              PROVE  /\ StepOf(w) /\ RingInv(w)' /\ OwnerInv(w)' /\ ThiefInv(w)'
                     /\ \A u \in Worker : u # w => /\ head_'[u] <= tail_[u]
                                                   /\ Ring(u)' = Ring(u) /\ Hand(u)' = Hand(u)
                     /\ Ring(w)' = Ring(w) \ X /\ Hand(w)' = {}
                     /\ X \subseteq Ring(w) /\ X \subseteq Nat
  OBVIOUS
<1>1. /\ "idle" \in Doings /\ NoLocals \in Locals
      /\ tail_' = tail_ /\ tail_' \in [Worker -> Nat]
      /\ head_'[w] = h /\ X = Slots(w, head_[w], h)
      /\ place' = [place EXCEPT ![w] = "idle"] /\ local' = [local EXCEPT ![w] = NoLocals]
  BY DEF Done, GoesTo, Doings, Locals, NoLocals, StealingInv, StealingTypes
<1>2. head_[w] <= head_'[w] /\ tail_[w] <= tail_'[w]
  BY <1>1, Typed
<1>3. /\ StepOf(w) /\ place'[w] = "idle" /\ local'[w] = NoLocals
      /\ \A u \in Worker : u # w => Hand(u)' = Hand(u)
      /\ \A u, j : Slot(u, j)' = Slot(u, j)
  BY <1>1, <1>2, RingStep
<1>4. StealingTypes' /\ OwnerInv(w)' /\ ThiefInv(w)' /\ Hand(w)' = {}
  BY <1>3, IdleWorker DEF StepOf
<1>5. \A u \in Worker : u # w => head_'[u] <= tail_[u] /\ Ring(u)' = Ring(u)
  <2>1. ASSUME NEW u \in Worker, u # w PROVE head_'[u] <= tail_[u]
    BY <1>1, <2>1 DEF StealingInv, RingInv
  <2>. QED  BY <1>1, <1>3, <2>1, Aside
<1>6. /\ head_[w] \in Nat /\ tail_[w] \in Nat /\ N \in Nat /\ End(w) = tail_[w]
      /\ RingInv(w)
  BY Typed DEF StealingInv
<1>7. Window(w)' = h..tail_[w] - 1 /\ End(w)' = tail_[w]
  BY <1>1, <1>3 DEF Window, End
<1>8. /\ X \subseteq Ring(w) /\ X \subseteq Nat
      /\ Slots(w, h, End(w)) = Ring(w) \ X
  <2>1. head_[w] <= head_[w] /\ head_[w] <= h /\ h <= End(w)
    BY <1>1, <1>6
  <2>2. /\ Slots(w, head_[w], h) \subseteq Ring(w) /\ Slots(w, head_[w], h) \subseteq Nat
        /\ Slots(w, h, End(w)) = Ring(w) \ Slots(w, head_[w], h)
    BY <1>6, <2>1, RingParts
  <2>. QED  BY <1>1, <2>2
<1>9. Ring(w)' = Ring(w) \ X
  <2>1. Ring(w)' = {Slot(w, j) : j \in h..tail_[w] - 1}
    BY <1>3, <1>7 DEF Ring
  <2>. QED  BY <1>6, <1>8, <2>1 DEF Slots
<1>10. RingInv(w)'
  <2>1. \A j, k \in h..tail_[w] - 1 : Slot(w, j) = Slot(w, k) => j = k
    BY <1>6 DEF RingInv, Window
  <2>2. h <= tail_[w] /\ tail_[w] <= h + N
    BY <1>6 DEF RingInv
  <2>. QED  BY <1>1, <1>3, <1>7, <2>1, <2>2 DEF RingInv
<1>. QED  BY <1>3, <1>4, <1>5, <1>8, <1>9, <1>10

LEMMA PopHeadInv == ASSUME StealingInv, NEW w \in Worker, PopHead(w) PROVE StealingInv'
<1>1. /\ place[w] = "pop" /\ local[w].head \in Nat /\ local[w].head < tail_[w]
      /\ head_[w] \in Nat /\ tail_[w] \in Nat /\ PlacesInv
  BY Typed DEF PopHead, StealingInv, OwnerInv
<1>2. CASE head_[w] # local[w].head
  BY <1>1, <1>2, ReturnInv DEF PopHead, rings
<1>3. CASE head_[w] = local[w].head
  <2>. SUFFICES ASSUME NEW X, X = {Slot(w, head_[w])} PROVE StealingInv'
    OBVIOUS
  <2>1. X = Slots(w, head_[w], head_[w] + 1)
    <3>1. head_[w]..(head_[w] + 1) - 1 = {head_[w]}
      BY <1>1
    <3>. QED  BY <3>1 DEF Slots
  <2>2. Slot(w, head_[w]) \in Nat
    BY <1>1, Typed, InBuf DEF Slot
  <2>3. /\ Done(w) /\ UNCHANGED <<tail_, buf_, given, overflown>>
        /\ head_' \in [Worker -> Nat] /\ \A u \in Worker : u # w => head_'[u] = head_[u]
        /\ head_'[w] = head_[w] + 1
        /\ got' = [got EXCEPT ![w] = @ \cup X]
    BY <1>1, <1>3 DEF PopHead, StealingInv, StealingTypes
  <2>4. head_[w] <= head_'[w] /\ head_'[w] <= tail_[w] /\ X = Slots(w, head_[w], head_'[w])
    BY <1>1, <1>3, <2>1, <2>3
  <2>5. overflown' \in SUBSET Nat /\ got' \in [Worker -> SUBSET Nat] /\ got'[w] = got[w] \cup X
        /\ \A u \in Worker : u # w => got'[u] = got[u]
    BY <2>2, <2>3 DEF StealingInv, StealingTypes
  <2>6. /\ StepOf(w) /\ RingInv(w)' /\ OwnerInv(w)' /\ ThiefInv(w)'
        /\ \A u \in Worker : u # w => /\ head_'[u] <= tail_[u]
                                      /\ Ring(u)' = Ring(u) /\ Hand(u)' = Hand(u)
        /\ Ring(w)' = Ring(w) \ X /\ Hand(w)' = {} /\ X \subseteq Ring(w)
    BY <1>1, <2>3, <2>5, <2>4, HeadInv
  <2>7. PlacesInv'
    <3>. DEFINE a == <<"ring", w>>
                q == <<"got", w>>
    <3>1. /\ a \in Places /\ q \in Places /\ a # q
          /\ contents[a] = Ring(w) /\ contents[q] = got[w]
      BY ContentsAre
    <3>2. /\ contents'[a] = Ring(w)' /\ contents'[q] = got'[w]
          /\ \A p \in Places : p \notin {a, q} => contents'[p] = contents[p]
      <4>1. Hand(w) = {} /\ Places' = Places /\ overflown' = overflown
        BY <1>1, <2>3 DEF Hand, Places
      <4>2. \A u \in Worker : Hand(u)' = Hand(u)
        BY <2>6, <4>1
      <4>. QED  BY <2>5, <2>6, <4>1, <4>2 DEF contents, Places
    <3>. HIDE DEF a, q
    <3>. QED  BY <1>1, <2>3, <2>5, <2>6, <3>1, <3>2, PlacesMove
  <2>. QED  BY <2>6, <2>7, StepInv
<1>. QED  BY <1>2, <1>3

LEMMA OverflowInv == ASSUME StealingInv, NEW w \in Worker, Overflow(w) PROVE StealingInv'
<1>. SUFFICES ASSUME NEW n \in Nat, n = N \div 2 + 1, n <= N PROVE StealingInv'
  BY SizeAssumption
<1>1. /\ place[w] = "overflow" /\ local[w].head \in Nat /\ local[w].head + N <= tail_[w]
      /\ head_[w] \in Nat /\ tail_[w] \in Nat /\ N \in Nat /\ PlacesInv
      /\ local[w].value \in Nat /\ local[w] \in Locals
  BY Typed DEF Overflow, StealingInv, OwnerInv
<1>2. CASE head_[w] # local[w].head
  <2>1. /\ UNCHANGED <<rings, given, overflown, got>> /\ given' \in Nat
        /\ "push" \in Doings /\ "push" # "keep" /\ place[w] # "keep"
        /\ place' = [place EXCEPT ![w] = "push"] /\ local' = [local EXCEPT ![w] = local[w]]
    BY <1>1, <1>2 DEF Overflow, GoesTo, rings, Doings, StealingInv, StealingTypes
  <2>2. place'[w] = "push" /\ local'[w] = local[w] /\ OwnerInv(w)
    BY <2>1 DEF StealingInv, StealingTypes
  <2>3. OwnerInv(w)' /\ ThiefInv(w)' /\ Hand(w)' = Hand(w)
    BY <1>1, <2>1, <2>2 DEF OwnerInv, ThiefInv, Hand, rings
  <2>. QED  BY <1>1, <2>1, <2>3, QuietInv
<1>3. CASE head_[w] = local[w].head
  <2>. SUFFICES ASSUME NEW X, X = Slots(w, head_[w], head_[w] + n),
                       NEW x, x \in Nat, x = local[w].value
                PROVE  StealingInv'
    BY <1>1
  <2>1. {Slot(w, local[w].head + i) : i \in 0..n - 1} = X
    <3>1. ASSUME NEW i \in 0..n - 1 PROVE local[w].head + i \in head_[w]..(head_[w] + n) - 1
      BY <1>1, <1>3
    <3>2. ASSUME NEW j \in head_[w]..(head_[w] + n) - 1
          PROVE  j - head_[w] \in 0..n - 1 /\ local[w].head + (j - head_[w]) = j
      BY <1>1, <1>3
    <3>. QED  BY <3>1, <3>2 DEF Slots
  <2>2. /\ Done(w) /\ UNCHANGED <<tail_, buf_, given, got>>
        /\ head_' \in [Worker -> Nat] /\ \A u \in Worker : u # w => head_'[u] = head_[u]
        /\ head_'[w] = head_[w] + n
        /\ overflown' = overflown \cup ({x} \cup X)
    BY <1>1, <1>3, <2>1 DEF Overflow, StealingInv, StealingTypes
  <2>3. head_[w] <= head_'[w] /\ head_'[w] <= tail_[w] /\ X = Slots(w, head_[w], head_'[w])
    BY <1>1, <1>3, <2>2
  <2>4. X \subseteq Nat
    <3>1. /\ head_[w] + n \in Nat /\ head_[w] + n <= End(w) /\ head_[w] <= head_[w]
          /\ head_[w] <= head_[w] + n
      <4>1. End(w) = tail_[w]
        BY <1>1, Typed
      <4>. QED  BY <1>1, <2>2, <2>3, <4>1
    <3>. QED  BY <1>1, <3>1, RingParts
  <2>5. overflown' \in SUBSET Nat /\ got' \in [Worker -> SUBSET Nat]
    BY <2>2, <2>4 DEF StealingInv, StealingTypes
  <2>6. /\ StepOf(w) /\ RingInv(w)' /\ OwnerInv(w)' /\ ThiefInv(w)'
        /\ \A u \in Worker : u # w => /\ head_'[u] <= tail_[u]
                                      /\ Ring(u)' = Ring(u) /\ Hand(u)' = Hand(u)
        /\ Ring(w)' = Ring(w) \ X /\ Hand(w)' = {} /\ X \subseteq Ring(w)
    BY <1>1, <2>2, <2>5, <2>3, HeadInv
  <2>7. PlacesInv'
    <3>. DEFINE a == <<"ring", w>>
                b == <<"hand", w>>
                q == <<"overflown", "none">>
                Y == {x} \cup X
    <3>1. /\ a \in Places /\ b \in Places /\ q \in Places /\ a # q /\ b # q /\ a # b
          /\ contents[a] = Ring(w) /\ contents[b] = {x} /\ contents[q] = overflown
      <4>1. Hand(w) = {x}
        BY <1>1 DEF Hand
      <4>. QED  BY <4>1, ContentsAre
    <3>2. /\ contents'[a] = Ring(w) \ X /\ contents'[b] = {} /\ contents'[q] = overflown'
          /\ \A p \in Places : p \notin {a, b, q} => contents'[p] = contents[p]
      <4>1. Places' = Places /\ got' = got
        BY <2>2 DEF Places
      <4>. QED  BY <2>6, <4>1 DEF contents, Places
    <3>. HIDE DEF a, b, q
    <3>3. \A p, r \in Places : p # r => contents[p] \cap contents[r] = {}
      BY <1>1 DEF PlacesInv
    <3>4. \A p \in Places : p # q => contents'[p] = contents[p] \ Y
      <4>1. contents'[a] = contents[a] \ Y
        BY <3>1, <3>2, <3>3
      <4>2. contents'[b] = contents[b] \ Y
        BY <3>1, <3>2
      <4>3. ASSUME NEW p \in Places, p \notin {a, b, q} PROVE contents'[p] = contents[p] \ Y
        <5>1. contents[p] \cap contents[a] = {} /\ contents[p] \cap contents[b] = {}
          BY <3>1, <3>3, <4>3
        <5>. QED  BY <2>6, <3>1, <3>2, <4>3, <5>1
      <4>. QED  BY <4>1, <4>2, <4>3
    <3>5. Y \subseteq 1..given
      <4>1. contents[a] \subseteq 1..given /\ contents[b] \subseteq 1..given
        BY <1>1, <3>1 DEF PlacesInv
      <4>. QED  BY <2>6, <3>1, <4>1
    <3>6. 1..given' = 1..given \cup Y
      BY <2>2, <3>5
    <3>7. contents'[q] = contents[q] \cup Y
      BY <2>2, <3>1, <3>2
    <3>. HIDE DEF Y
    <3>. QED  BY <1>1, <3>1, <3>4, <3>6, <3>7, PlacesStep
  <2>. QED  BY <2>6, <2>7, StepInv
<1>. QED  BY <1>2, <1>3

\* The last one stolen is returned, the others are in the ring.
LEMMA KeepInv == ASSUME StealingInv, NEW w \in Worker, Keep(w) PROVE StealingInv'
<1>. SUFFICES ASSUME NEW h \in Nat, h = head_[w], NEW t \in Nat, t = tail_[w] + local[w].n - 1,
                     NEW X, X = {Slot(w, t)}
              PROVE  StealingInv'
  <2>1. 1 <= local[w].n
    BY DEF Keep, StealingInv, ThiefInv
  <2>2. head_[w] \in Nat /\ tail_[w] \in Nat /\ local[w].n \in Nat
    BY Typed
  <2>3. tail_[w] + local[w].n - 1 \in Nat
    BY <2>1, <2>2
  <2>. QED  BY <2>2, <2>3
<1>1. /\ place[w] = "keep" /\ RingInv(w) /\ PlacesInv /\ N \in Nat
      /\ End(w) = t + 1 /\ h <= t /\ t <= h + N /\ tail_[w] <= t /\ tail_[w] \in Nat
      /\ got \in [Worker -> SUBSET Nat]
  <2>1. place[w] = "keep" /\ RingInv(w) /\ ThiefInv(w) /\ 1 <= local[w].n
    BY DEF Keep, StealingInv, ThiefInv
  <2>2. End(w) = tail_[w] + local[w].n
    BY <2>1 DEF End
  <2>. QED  BY <2>1, <2>2, Typed DEF RingInv, StealingInv, StealingTypes
<1>2. /\ "idle" \in Doings /\ NoLocals \in Locals
      /\ head_' = head_ /\ head_' \in [Worker -> Nat] /\ tail_' \in [Worker -> Nat]
      /\ \A u \in Worker : u # w => tail_'[u] = tail_[u]
      /\ tail_'[w] = t
      /\ UNCHANGED <<buf_, given>>
      /\ place' = [place EXCEPT ![w] = "idle"] /\ local' = [local EXCEPT ![w] = NoLocals]
      /\ overflown' = overflown /\ overflown' \in SUBSET Nat
      /\ got' = [got EXCEPT ![w] = @ \cup X]
  BY DEF Keep, Done, GoesTo, Doings, Locals, NoLocals, StealingInv, StealingTypes
<1>3. X = Slots(w, t, t + 1) /\ X \subseteq Nat
  <2>1. Slot(w, t) \in Nat
    BY Typed, InBuf DEF Slot
  <2>2. t..(t + 1) - 1 = {t}
    OBVIOUS
  <2>. QED  BY <2>1, <2>2 DEF Slots
<1>4. /\ got' \in [Worker -> SUBSET Nat] /\ got'[w] = got[w] \cup X
      /\ \A u \in Worker : u # w => got'[u] = got[u]
  BY <1>1, <1>2, <1>3
<1>5. head_[w] <= head_'[w] /\ tail_[w] <= tail_'[w]
  BY <1>1, <1>2
<1>6. /\ StepOf(w) /\ place'[w] = "idle" /\ local'[w] = NoLocals
      /\ \A u \in Worker : u # w => Hand(u)' = Hand(u)
      /\ \A u, j : Slot(u, j)' = Slot(u, j)
  BY <1>2, <1>4, <1>5, RingStep
<1>7. StealingTypes' /\ OwnerInv(w)' /\ ThiefInv(w)' /\ Hand(w)' = {}
  BY <1>6, IdleWorker DEF StepOf
<1>8. \A u \in Worker : u # w => head_'[u] <= tail_[u] /\ Ring(u)' = Ring(u)
  <2>1. ASSUME NEW u \in Worker, u # w PROVE head_'[u] <= tail_[u]
    BY <1>2, <2>1 DEF StealingInv, RingInv
  <2>. QED  BY <1>2, <1>6, <2>1, Aside
<1>9. /\ Window(w) = h..t /\ Window(w)' = h..t - 1 /\ End(w)' = t
  BY <1>1, <1>2, <1>6 DEF Window, End
<1>10. Ring(w)' = Ring(w) \ X /\ X \subseteq Ring(w)
  <2>1. head_[w] <= t /\ t <= t + 1 /\ t + 1 <= End(w) /\ t + 1 \in Nat
    BY <1>1
  <2>2. /\ Slots(w, t, t + 1) \subseteq Ring(w)
        /\ Slots(w, head_[w], t) = Ring(w) \ Slots(w, t, t + 1)
    BY <1>1, <2>1, RingParts
  <2>3. Ring(w)' = {Slot(w, j) : j \in h..t - 1}
    BY <1>6, <1>9 DEF Ring
  <2>. QED  BY <1>3, <2>2, <2>3 DEF Slots
<1>11. RingInv(w)'
  <2>1. \A j, k \in h..t - 1 : Slot(w, j) = Slot(w, k) => j = k
    BY <1>1, <1>9 DEF RingInv
  <2>. QED  BY <1>1, <1>2, <1>6, <1>9, <2>1 DEF RingInv
<1>12. PlacesInv'
  <2>. DEFINE a == <<"ring", w>>
              q == <<"got", w>>
  <2>1. /\ a \in Places /\ q \in Places /\ a # q
        /\ contents[a] = Ring(w) /\ contents[q] = got[w]
    BY ContentsAre
  <2>2. /\ contents'[a] = Ring(w)' /\ contents'[q] = got'[w]
        /\ \A p \in Places : p \notin {a, q} => contents'[p] = contents[p]
    <3>1. Hand(w) = {} /\ Places' = Places
      BY <1>1 DEF Hand, Places
    <3>2. \A u \in Worker : Hand(u)' = Hand(u)
      BY <1>6, <1>7, <3>1
    <3>. QED  BY <1>2, <1>4, <1>8, <3>1, <3>2 DEF contents, Places
  <2>. HIDE DEF a, q
  <2>. QED  BY <1>1, <1>2, <1>4, <1>10, <2>1, <2>2, PlacesMove
<1>. QED  BY <1>6, <1>7, <1>8, <1>11, <1>12, StepInv

\* The compare_exchange that validates: what was copied is now the thief's, and no longer the
\* victim's.
LEMMA TakeInv == ASSUME StealingInv, NEW w \in Worker, Take(w) PROVE StealingInv'
<1>1. /\ place[w] = "take" /\ ThiefInv(w) /\ OwnerInv(w) /\ RingInv(w) /\ PlacesInv
      /\ local[w].victim \in Worker /\ local[w] \in Locals
  BY Typed DEF Take, StealingInv, ThiefInv
<1>2. CASE ~Valid(w)
  BY <1>1, <1>2, RetryInv DEF Take, GoesTo, rings
<1>3. CASE Valid(w)
  <2>. SUFFICES ASSUME NEW v \in Worker, v = local[w].victim,
                       NEW g \in Nat, g = head_[v], NEW n \in Nat, n = local[w].n,
                       NEW t \in Nat, t = tail_[w]
                PROVE  StealingInv'
    BY <1>1, Typed
  <2>1. /\ g = local[w].from /\ 1 <= n /\ g + n <= tail_[v] /\ tail_[v] \in Nat
        /\ t + n <= local[w].head + N /\ local[w].head <= head_[w]
        /\ local[w].head \in Nat /\ head_[w] \in Nat /\ N \in Nat /\ t + n <= head_[w] + N
        /\ head_[w] <= t /\ End(w) = t
        /\ \A k \in 0..n - 1 : Slot(w, t + k) = Slot(v, g + k)
    <3>1. /\ local[w].head \in Nat /\ head_[w] \in Nat /\ N \in Nat /\ tail_[v] \in Nat
          /\ End(w) = t
      BY <1>1, Typed
    <3>2. /\ g = local[w].from /\ 1 <= n /\ g + n <= tail_[v]
          /\ t + n <= local[w].head + N /\ local[w].i = n
      BY <1>1, <1>3 DEF Valid, ThiefInv
    <3>3. \A k \in 0..n - 1 : Slot(w, t + k) = Slot(v, g + k)
      BY <1>1, <1>3, <3>2 DEF Valid, ThiefInv
    <3>4. local[w].head <= head_[w] /\ head_[w] <= t
      BY <1>1 DEF OwnerInv, RingInv
    <3>. QED  BY <3>1, <3>2, <3>3, <3>4
  <2>2. /\ "keep" \in Doings /\ local' = [local EXCEPT ![w] = local[w]]
        /\ place' = [place EXCEPT ![w] = "keep"]
        /\ tail_' = tail_ /\ UNCHANGED <<buf_, given>> /\ tail_' \in [Worker -> Nat]
        /\ overflown' = overflown /\ got' = got
        /\ overflown' \in SUBSET Nat /\ got' \in [Worker -> SUBSET Nat]
        /\ head_' \in [Worker -> Nat] /\ \A u \in Worker : u # v => head_'[u] = head_[u]
        /\ head_'[v] = g + n
    <3>1. /\ head_' = [head_ EXCEPT ![v] = g + n] /\ g + n \in Nat
      BY <1>3, <2>1 DEF Take
    <3>2. /\ head_' \in [Worker -> Nat] /\ \A u \in Worker : u # v => head_'[u] = head_[u]
          /\ head_'[v] = g + n
      BY <3>1 DEF StealingInv, StealingTypes
    <3>. QED  BY <1>3, <3>2 DEF Take, GoesTo, Doings, StealingInv, StealingTypes
  <2>3. head_[v] <= head_'[v] /\ tail_[w] <= tail_'[w]
    BY <2>1, <2>2
  <2>4. /\ StepOf(w) /\ place'[w] = "keep" /\ local'[w] = local[w]
        /\ \A u \in Worker : u # w => Hand(u)' = Hand(u)
        /\ \A u, j : Slot(u, j)' = Slot(u, j)
    BY <1>1, <2>2, <2>3, RingStep
  <2>5. \A u \in Worker : head_'[u] <= tail_[u] /\ head_[u] <= head_'[u]
    <3>1. ASSUME NEW u \in Worker PROVE head_[u] <= tail_[u] /\ head_[u] <= head_[u]
      BY Typed DEF StealingInv, RingInv
    <3>. QED  BY <2>1, <2>2, <2>3, <3>1
  <2>6. OwnerInv(w)' /\ ThiefInv(w)' /\ Hand(w)' = {} /\ Hand(w) = {}
    <3>1. local[w].head <= head_'[w] /\ t <= local[w].head + N
      BY <2>1, <2>2, <2>5
    <3>. QED  BY <1>1, <2>1, <2>2, <2>4, <3>1 DEF OwnerInv, ThiefInv, Hand
  <2>7. /\ End(w)' = t + n /\ Window(w)' = head_'[w]..(t + n) - 1 /\ Window(w) = head_[w]..t - 1
    <3>1. End(w)' = t + n
      BY <2>2, <2>4 DEF End
    <3>. QED  BY <2>1, <3>1 DEF Window
  <2>8. \A u \in Worker : u # w /\ u # v => Ring(u)' = Ring(u)
    BY <2>2, <2>4, <2>5, Aside
  <2>. DEFINE X == Slots(v, g, g + n)
  <2>9. /\ X \subseteq Ring(v)
        /\ Slots(v, g + n, End(v)) = Ring(v) \ X
        /\ \A j, k \in g..(g + n) - 1 : Slot(v, j) = Slot(v, k) => j = k
    <3>1. head_[v] <= g /\ g <= g + n /\ g + n <= End(v) /\ g + n \in Nat /\ End(v) \in Nat
      BY <2>1, Typed
    <3>2. \A j \in g..(g + n) - 1 : j \in Window(v)
      BY <3>1 DEF Window
    <3>. QED  BY <3>1, <3>2, RingParts DEF StealingInv, RingInv
  <2>10. X = {Slot(w, j) : j \in t..(t + n) - 1}
    <3>1. ASSUME NEW j \in g..(g + n) - 1
          PROVE  \E k \in t..(t + n) - 1 : Slot(w, k) = Slot(v, j)
      <4>1. j - g \in 0..n - 1 /\ t + (j - g) \in t..(t + n) - 1 /\ g + (j - g) = j
        OBVIOUS
      <4>. QED  BY <2>1, <4>1
    <3>2. ASSUME NEW j \in t..(t + n) - 1
          PROVE  \E k \in g..(g + n) - 1 : Slot(w, j) = Slot(v, k)
      <4>1. j - t \in 0..n - 1 /\ g + (j - t) \in g..(g + n) - 1 /\ t + (j - t) = j
        OBVIOUS
      <4>. QED  BY <2>1, <4>1
    <3>. QED  BY <3>1, <3>2 DEF Slots
  <2>11. \A j, k \in t..(t + n) - 1 : Slot(w, j) = Slot(w, k) => j = k
    <3>. SUFFICES ASSUME NEW j \in t..(t + n) - 1, NEW k \in t..(t + n) - 1,
                         Slot(w, j) = Slot(w, k)
                  PROVE  j = k
      OBVIOUS
    <3>1. /\ j - t \in 0..n - 1 /\ g + (j - t) \in g..(g + n) - 1 /\ t + (j - t) = j
          /\ k - t \in 0..n - 1 /\ g + (k - t) \in g..(g + n) - 1 /\ t + (k - t) = k
      OBVIOUS
    <3>2. Slot(v, g + (j - t)) = Slot(v, g + (k - t))
      BY <2>1, <3>1
    <3>3. g + (j - t) = g + (k - t)
      BY <2>9, <3>1, <3>2
    <3>. QED  BY <3>3
  <2>12. \A j, k \in head_[w]..t - 1 : Slot(w, j) = Slot(w, k) => j = k
    BY <1>1, <2>7 DEF RingInv
  <2>. HIDE DEF X
  <2>13. CASE v # w
    <3>1. Ring(v) \cap Ring(w) = {}
      BY <1>1, <2>13, OnePlace
    <3>2. head_'[w] = head_[w] /\ head_[w]..(t + n) - 1 = (head_[w]..t - 1) \cup (t..(t + n) - 1)
      BY <2>1, <2>2, <2>13
    <3>3. Ring(w) = {Slot(w, j) : j \in head_[w]..t - 1}
      BY <2>7 DEF Ring
    <3>4. Ring(w)' = Ring(w) \cup X
      <4>1. Ring(w)' = {Slot(w, j) : j \in head_[w]..(t + n) - 1}
        BY <2>4, <2>7, <3>2 DEF Ring
      <4>. QED  BY <2>10, <3>2, <3>3, <4>1
    <3>5. Ring(v)' = Ring(v) \ X
      <4>1. Window(v)' = g + n..End(v) - 1
        BY <2>2, <2>4, <2>5, <2>13, Aside
      <4>2. Ring(v)' = {Slot(v, j) : j \in g + n..End(v) - 1}
        BY <2>4, <4>1 DEF Ring
      <4>. QED  BY <2>9, <4>2 DEF Slots
    <3>6. RingInv(w)'
      <4>1. \A j, k \in head_[w]..(t + n) - 1 : Slot(w, j) = Slot(w, k) => j = k
        <5>1. ASSUME NEW j \in head_[w]..t - 1, NEW k \in t..(t + n) - 1
              PROVE  Slot(w, j) # Slot(w, k)
          <6>1. Slot(w, j) \in Ring(w) /\ Slot(w, k) \in Ring(v)
            BY <2>9, <2>10, <3>3
          <6>. QED  BY <3>1, <6>1
        <5>. QED  BY <2>11, <2>12, <3>2, <5>1
      <4>. QED  BY <2>1, <2>2, <2>4, <2>7, <3>2, <4>1 DEF RingInv
    <3>7. PlacesInv'
      <4>. DEFINE a == <<"ring", v>>
                  q == <<"ring", w>>
      <4>1. /\ a \in Places /\ q \in Places /\ contents[a] = Ring(v) /\ contents[q] = Ring(w)
            /\ a # q
        BY <2>13, ContentsAre
      <4>2. /\ contents'[a] = Ring(v)' /\ contents'[q] = Ring(w)'
            /\ \A p \in Places : p \notin {a, q} => contents'[p] = contents[p]
        <5>1. \A u \in Worker : Hand(u)' = Hand(u)
          BY <2>4, <2>6
        <5>2. Places' = Places
          BY DEF Places
        <5>. QED  BY <2>2, <2>8, <5>1, <5>2 DEF contents, Places
      <4>. HIDE DEF a, q
      <4>. QED  BY <1>1, <2>2, <2>9, <3>4, <3>5, <4>1, <4>2, PlacesMove
    <3>. QED  BY <2>4, <2>5, <2>6, <3>6, <3>7, StepInv
  <2>14. CASE v = w
    <3>1. /\ g = head_[w] /\ head_'[w] = g + n /\ g + n <= t
      BY <2>1, <2>2, <2>14
    <3>2. (g + n)..(t + n) - 1 = ((g + n)..t - 1) \cup (t..(t + n) - 1)
      BY <3>1
    <3>3. Ring(w)' = Ring(w)
      <4>1. Ring(w)' = {Slot(w, j) : j \in (g + n)..(t + n) - 1}
        BY <2>4, <2>7, <3>1 DEF Ring
      <4>2. Ring(w)' = {Slot(w, j) : j \in (g + n)..t - 1} \cup X
        BY <2>10, <3>2, <4>1
      <4>3. {Slot(w, j) : j \in (g + n)..t - 1} = Ring(w) \ X
        BY <2>1, <2>9, <2>14 DEF Slots
      <4>. QED  BY <2>9, <2>14, <4>2, <4>3
    <3>4. RingInv(w)'
      <4>1. \A j, k \in (g + n)..(t + n) - 1 : Slot(w, j) = Slot(w, k) => j = k
        <5>1. ASSUME NEW j \in (g + n)..t - 1, NEW k \in t..(t + n) - 1
              PROVE  Slot(w, j) # Slot(w, k)
          <6>1. Slot(w, j) \in Slots(v, g + n, End(v)) /\ Slot(w, k) \in X
            BY <2>1, <2>10, <2>14 DEF Slots
          <6>. QED  BY <2>9, <6>1
        <5>2. \A j \in (g + n)..t - 1 : j \in head_[w]..t - 1
          BY <2>1, <3>1
        <5>. QED  BY <2>11, <2>12, <3>2, <5>1, <5>2
      <4>2. g + n <= t /\ t + n <= (g + n) + N
        BY <2>1, <3>1
      <4>. QED  BY <2>2, <2>4, <2>7, <3>1, <4>1, <4>2 DEF RingInv
    <3>5. PlacesInv'
      <4>1. \A u \in Worker : Ring(u)' = Ring(u) /\ Hand(u)' = Hand(u)
        BY <2>4, <2>6, <2>8, <2>14, <3>3
      <4>2. Places' = Places
        BY DEF Places
      <4>3. \A p \in Places : contents'[p] = contents[p]
        BY <2>2, <4>1, <4>2 DEF contents, Places
      <4>. QED  BY <1>1, <2>2, <4>3, PlacesStay
    <3>. QED  BY <2>4, <2>5, <2>6, <3>4, <3>5, StepInv
  <2>. QED  BY <2>13, <2>14
<1>. QED  BY <1>2, <1>3

LEMMA StealingStepInv == StealingInv /\ [StealingNext]_stealingVars => StealingInv'
<1>. SUFFICES ASSUME StealingInv, [StealingNext]_stealingVars PROVE StealingInv'
  OBVIOUS
<1>1. ASSUME NEW w \in Worker, WorkerStep(w) PROVE StealingInv'
  <2>1. CASE Push(w)
    BY <2>1, PushInv
  <2>2. CASE LoadHead(w)
    BY <2>2, LoadHeadInv
  <2>3. CASE Fill(w)
    BY <2>3, FillInv
  <2>4. CASE Publish(w)
    BY <2>4, PublishInv
  <2>5. CASE Overflow(w)
    BY <2>5, OverflowInv
  <2>6. CASE Pop(w)
    BY <2>6, PopInv
  <2>7. CASE PopHead(w)
    BY <2>7, PopHeadInv
  <2>8. ASSUME NEW victim \in Worker, Steal(w, victim) PROVE StealingInv'
    BY <2>8, StealInv
  <2>9. CASE LoadOther(w)
    BY <2>9, LoadOtherInv
  <2>10. CASE LoadTail(w)
    BY <2>10, LoadTailInv
  <2>11. CASE Copy(w)
    BY <2>11, CopyInv
  <2>12. CASE Take(w)
    BY <2>12, TakeInv
  <2>13. CASE Retry(w)
    BY <2>13, RereadInv
  <2>14. CASE Keep(w)
    BY <2>14, KeepInv
  <2>. QED
    BY <1>1, <2>1, <2>2, <2>3, <2>4, <2>5, <2>6, <2>7, <2>8, <2>9, <2>10, <2>11, <2>12, <2>13,
       <2>14 DEF WorkerStep
<1>2. CASE UNCHANGED stealingVars
  <2>. USE <1>2 DEF stealingVars, rings
  <2>1. StealingTypes'
    BY DEF StealingInv, StealingTypes
  <2>2. ASSUME NEW w \in Worker PROVE /\ RingInv(w)' /\ OwnerInv(w)' /\ ThiefInv(w)'
                                      /\ Ring(w)' = Ring(w) /\ Hand(w)' = Hand(w)
    <3>1. \A u, j : Slot(u, j)' = Slot(u, j)
      BY DEF Slot
    <3>2. End(w)' = End(w) /\ Window(w)' = Window(w)
      BY DEF Window, End
    <3>3. RingInv(w) /\ OwnerInv(w) /\ ThiefInv(w)
      BY DEF StealingInv
    <3>4. RingInv(w)'
      BY <3>1, <3>2, <3>3 DEF RingInv
    <3>5. OwnerInv(w)' /\ ThiefInv(w)'
      BY <3>1, <3>3 DEF OwnerInv, ThiefInv
    <3>6. Ring(w)' = Ring(w) /\ Hand(w)' = Hand(w)
      BY <3>1, <3>2 DEF Ring, Hand
    <3>. QED  BY <3>4, <3>5, <3>6
  <2>3. PlacesInv'
    <3>1. Places' = Places
      BY DEF Places
    <3>2. \A p \in Places : contents'[p] = contents[p]
      BY <2>2, <3>1 DEF contents, Places
    <3>3. PlacesInv
      BY DEF StealingInv
    <3>. QED  BY <3>2, <3>3, PlacesStay
  <2>. QED  BY <2>1, <2>2, <2>3 DEF StealingInv
<1>. QED  BY <1>1, <1>2 DEF StealingNext

LEMMA StealingInvAlways == StealingSpec => []StealingInv
<1>. QED  BY StealingInitInv, StealingStepInv, PTL DEF StealingSpec

\* Where a value is, it is nowhere else.
LEMMA AllApart ==
  ASSUME PlacesInv, NEW w \in Worker, NEW u \in Worker
  PROVE  /\ Ring(w) \cap Hand(u) = {} /\ Ring(w) \cap got[u] = {} /\ Hand(w) \cap got[u] = {}
         /\ Ring(w) \cap overflown = {} /\ Hand(w) \cap overflown = {}
         /\ got[w] \cap overflown = {}
         /\ w # u => /\ Ring(w) \cap Ring(u) = {} /\ Hand(w) \cap Hand(u) = {}
                     /\ got[w] \cap got[u] = {}
<1>1. ASSUME NEW p \in Places, NEW q \in Places, p # q PROVE contents[p] \cap contents[q] = {}
  BY <1>1 DEF PlacesInv
<1>. DEFINE r  == <<"ring", w>>
            s  == <<"ring", u>>
            h  == <<"hand", w>>
            k  == <<"hand", u>>
            g  == <<"got", w>>
            f  == <<"got", u>>
            o  == <<"overflown", "none">>
<1>2. /\ r \in Places /\ contents[r] = Ring(w) /\ s \in Places /\ contents[s] = Ring(u)
      /\ h \in Places /\ contents[h] = Hand(w) /\ k \in Places /\ contents[k] = Hand(u)
      /\ g \in Places /\ contents[g] = got[w] /\ f \in Places /\ contents[f] = got[u]
      /\ o \in Places /\ contents[o] = overflown
  BY ContentsAre
<1>3. /\ r # k /\ r # f /\ h # f /\ r # o /\ h # o /\ g # o
      /\ w # u => r # s /\ h # k /\ g # f
  OBVIOUS
<1>. HIDE DEF r, s, h, k, g, f, o
<1>. QED  BY <1>1, <1>2, <1>3

\* What is in the ring, and what the owner is still to put there.
LEMMA HeldIs ==
  ASSUME StealingInv, NEW w \in Worker
  PROVE  /\ InRing(w) = Slots(w, head_[w], tail_[w])
         /\ InRing(w) \cup InHand(w) = Ring(w) \cup Hand(w)
         /\ InRing(w) \cap InHand(w) = {}
<1>1. /\ head_[w] \in Nat /\ tail_[w] \in Nat /\ End(w) \in Nat /\ tail_[w] <= End(w)
      /\ head_[w] <= tail_[w] /\ local[w].n \in Nat /\ PlacesInv
  BY Typed DEF StealingInv, RingInv
<1>2. InRing(w) = Slots(w, head_[w], tail_[w])
  <2>1. {j \in 0..tail_[w] : head_[w] <= j /\ j < tail_[w]} = head_[w]..tail_[w] - 1
    BY <1>1
  <2>. QED  BY <2>1 DEF InRing, Slots
<1>3. CASE place[w] = "keep"
  <2>1. End(w) = tail_[w] + local[w].n /\ Hand(w) = {}
    BY <1>3 DEF End, Hand
  <2>2. InHand(w) = Slots(w, tail_[w], End(w))
    <3>1. InHand(w) = {Slot(w, tail_[w] + i) : i \in 0..local[w].n - 1}
      BY <1>3 DEF InHand
    <3>2. ASSUME NEW i \in 0..local[w].n - 1 PROVE tail_[w] + i \in tail_[w]..End(w) - 1
      BY <1>1, <2>1
    <3>3. ASSUME NEW j \in tail_[w]..End(w) - 1
          PROVE  j - tail_[w] \in 0..local[w].n - 1 /\ tail_[w] + (j - tail_[w]) = j
      BY <1>1, <2>1
    <3>. QED  BY <3>1, <3>2, <3>3 DEF Slots
  <2>3. /\ Slots(w, tail_[w], End(w)) \subseteq Ring(w)
        /\ Slots(w, head_[w], tail_[w]) = Ring(w) \ Slots(w, tail_[w], End(w))
    <3>1. End(w) <= End(w)
      BY <1>1
    <3>. QED  BY <1>1, <3>1, RingParts
  <2>. QED  BY <1>2, <2>1, <2>2, <2>3
<1>4. CASE place[w] # "keep"
  <2>1. End(w) = tail_[w]
    BY <1>4, Typed
  <2>2. Ring(w) = Slots(w, head_[w], tail_[w])
    BY <2>1 DEF Ring, Window, Slots
  <2>3. InHand(w) = Hand(w)
    BY <1>4 DEF InHand, Hand
  <2>. QED  BY <1>1, <1>2, <2>2, <2>3, OnePlace
<1>. QED  BY <1>2, <1>3, <1>4

LEMMA RingSize ==
  ASSUME StealingInv, NEW w \in Worker
  PROVE  Cardinality(InRing(w)) = Size_(w)
<1>1. /\ head_[w] \in Nat /\ tail_[w] \in Nat /\ head_[w] <= tail_[w] /\ tail_[w] <= End(w)
      /\ End(w) \in Nat /\ RingInv(w)
  BY Typed DEF StealingInv, RingInv
<1>. DEFINE J == head_[w]..tail_[w] - 1
            f == [j \in J |-> Slot(w, j)]
<1>2. InRing(w) = {Slot(w, j) : j \in J}
  BY HeldIs DEF Slots
<1>3. f \in Bijection(J, InRing(w))
  <2>1. \A j \in J : j \in Window(w)
    BY <1>1 DEF Window
  <2>2. \A j, k \in J : Slot(w, j) = Slot(w, k) => j = k
    BY <1>1, <2>1 DEF RingInv
  <2>3. f \in [J -> InRing(w)]
    BY <1>2
  <2>4. f \in Injection(J, InRing(w))
    BY <2>2, <2>3 DEF Injection, IsInjective
  <2>5. f \in Surjection(J, InRing(w))
    BY <1>2, <2>3 DEF Surjection
  <2>. QED  BY <2>4, <2>5 DEF Bijection
<1>4. IsFiniteSet(J) /\ Cardinality(J) = tail_[w] - head_[w]
  <2>1. head_[w] \in Int /\ tail_[w] - 1 \in Int
    BY <1>1
  <2>2. /\ IsFiniteSet(J)
        /\ Cardinality(J) = IF head_[w] > tail_[w] - 1 THEN 0 ELSE (tail_[w] - 1) - head_[w] + 1
    BY <2>1, FS_Interval
  <2>. QED  BY <1>1, <2>2
<1>. HIDE DEF J, f
<1>5. Cardinality(InRing(w)) = Cardinality(J)
  <2>1. ExistsBijection(J, InRing(w))
    BY <1>3 DEF ExistsBijection
  <2>. QED  BY <1>4, <2>1, FS_Bijection
<1>. QED  BY <1>4, <1>5 DEF Size_

LEMMA OnePlaceEach == StealingInv => EachInOnePlace
<1>. SUFFICES ASSUME StealingInv PROVE EachInOnePlace
  OBVIOUS
<1>1. ASSUME NEW v \in 1..given
      PROVE  Cardinality({w \in Worker : v \in InRing(w)})
               + Cardinality({w \in Worker : v \in InHand(w)})
               + Cardinality({w \in Worker : v \in got[w]}) + (IF v \in overflown THEN 1 ELSE 0) = 1
  <2>. DEFINE A == {w \in Worker : v \in InRing(w)}
              B == {w \in Worker : v \in InHand(w)}
              C == {w \in Worker : v \in got[w]}
  <2>1. PlacesInv
    BY DEF StealingInv
  <2>2. \A w, u \in Worker : w # u =>
          /\ (InRing(w) \cup InHand(w)) \cap (InRing(u) \cup InHand(u)) = {}
          /\ got[w] \cap got[u] = {}
    <3>. SUFFICES ASSUME NEW w \in Worker, NEW u \in Worker, w # u
                  PROVE  /\ (InRing(w) \cup InHand(w)) \cap (InRing(u) \cup InHand(u)) = {}
                         /\ got[w] \cap got[u] = {}
      OBVIOUS
    <3>1. Ring(w) \cap Hand(u) = {} /\ Ring(u) \cap Hand(w) = {} /\ Ring(w) \cap Ring(u) = {}
          /\ Hand(w) \cap Hand(u) = {} /\ got[w] \cap got[u] = {}
      BY <2>1, AllApart
    <3>2. /\ InRing(w) \cup InHand(w) = Ring(w) \cup Hand(w)
          /\ InRing(u) \cup InHand(u) = Ring(u) \cup Hand(u)
      BY HeldIs
    <3>. QED  BY <3>1, <3>2
  <2>3. \A w, u \in Worker : /\ (InRing(w) \cup InHand(w)) \cap got[u] = {}
                             /\ (InRing(w) \cup InHand(w)) \cap overflown = {}
                             /\ got[u] \cap overflown = {}
                             /\ InRing(w) \cap InHand(w) = {}
    <3>. SUFFICES ASSUME NEW w \in Worker, NEW u \in Worker
                  PROVE  /\ (InRing(w) \cup InHand(w)) \cap got[u] = {}
                         /\ (InRing(w) \cup InHand(w)) \cap overflown = {}
                         /\ got[u] \cap overflown = {}
                         /\ InRing(w) \cap InHand(w) = {}
      OBVIOUS
    <3>1. /\ Ring(w) \cap got[u] = {} /\ Hand(w) \cap got[u] = {} /\ got[u] \cap overflown = {}
          /\ Ring(w) \cap overflown = {} /\ Hand(w) \cap overflown = {}
      BY <2>1, AllApart
    <3>2. InRing(w) \cup InHand(w) = Ring(w) \cup Hand(w) /\ InRing(w) \cap InHand(w) = {}
      BY HeldIs
    <3>. QED  BY <3>1, <3>2
  <2>4. \/ \E w \in Worker : v \in InRing(w) \/ v \in InHand(w) \/ v \in got[w]
        \/ v \in overflown
    <3>1. PICK p \in Places : v \in contents[p]
      BY <2>1 DEF PlacesInv
    <3>2. \/ \E w \in Worker : v \in Ring(w) \/ v \in Hand(w) \/ v \in got[w]
          \/ v \in overflown
      <4>1. \/ \E w \in Worker : p \in {<<"ring", w>>, <<"hand", w>>, <<"got", w>>}
            \/ p = <<"overflown", "none">>
        BY ContentsAre
      <4>2. ASSUME NEW w \in Worker, p \in {<<"ring", w>>, <<"hand", w>>, <<"got", w>>}
            PROVE  v \in Ring(w) \/ v \in Hand(w) \/ v \in got[w]
        <5>1. CASE p = <<"ring", w>>
          BY <3>1, <5>1, ContentsAre
        <5>2. CASE p = <<"hand", w>>
          BY <3>1, <5>2, ContentsAre
        <5>3. CASE p = <<"got", w>>
          BY <3>1, <5>3, ContentsAre
        <5>. QED  BY <4>2, <5>1, <5>2, <5>3
      <4>3. ASSUME p = <<"overflown", "none">> PROVE v \in overflown
        BY <3>1, <4>3, ContentsAre
      <4>. QED  BY <4>1, <4>2, <4>3
    <3>3. \A w \in Worker : InRing(w) \cup InHand(w) = Ring(w) \cup Hand(w)
      BY HeldIs
    <3>. QED  BY <3>2, <3>3
  <2>5. Cardinality({}) = 0 /\ \A w : Cardinality({w}) = 1
    BY FS_EmptySet, FS_Singleton
  <2>6. ASSUME NEW w \in Worker, v \in InRing(w)
        PROVE  /\ Cardinality(A) = 1 /\ Cardinality(B) = 0 /\ Cardinality(C) = 0
               /\ v \notin overflown
    <3>1. A = {w} /\ B = {} /\ C = {} /\ v \notin overflown
      BY <2>2, <2>3, <2>6
    <3>. QED  BY <2>5, <3>1
  <2>7. ASSUME NEW w \in Worker, v \in InHand(w)
        PROVE  /\ Cardinality(A) = 0 /\ Cardinality(B) = 1 /\ Cardinality(C) = 0
               /\ v \notin overflown
    <3>1. A = {} /\ B = {w} /\ C = {} /\ v \notin overflown
      BY <2>2, <2>3, <2>7
    <3>. QED  BY <2>5, <3>1
  <2>8. ASSUME NEW w \in Worker, v \in got[w]
        PROVE  /\ Cardinality(A) = 0 /\ Cardinality(B) = 0 /\ Cardinality(C) = 1
               /\ v \notin overflown
    <3>1. A = {} /\ B = {} /\ C = {w} /\ v \notin overflown
      BY <2>2, <2>3, <2>8
    <3>. QED  BY <2>5, <3>1
  <2>9. ASSUME v \in overflown
        PROVE  Cardinality(A) = 0 /\ Cardinality(B) = 0 /\ Cardinality(C) = 0
    <3>1. A = {} /\ B = {} /\ C = {}
      BY <2>3, <2>9
    <3>. QED  BY <2>5, <3>1
  <2>. HIDE DEF A, B, C
  <2>10. Cardinality(A) + Cardinality(B) + Cardinality(C) + (IF v \in overflown THEN 1 ELSE 0) = 1
    <3>1. CASE v \in overflown
      BY <2>9, <3>1
    <3>2. CASE v \notin overflown
      BY <2>4, <2>6, <2>7, <2>8, <3>2
    <3>. QED  BY <3>1, <3>2
  <2>. QED  BY <2>10 DEF A, B, C
<1>2. ASSUME NEW w \in Worker PROVE Cardinality(InRing(w)) = Size_(w)
  BY RingSize
<1>. QED  BY <1>1, <1>2 DEF EachInOnePlace

THEOREM EachInOnePlaceAlways == StealingSpec => []EachInOnePlace
<1>. QED  BY StealingInvAlways, OnePlaceEach, PTL
=============================================================================

-------------------------- MODULE EpochReclamation --------------------------
(***************************************************************************)
(* EpochBasedMemoryReclamation                                             *)
(* (mrxutils/mrx/utils/EpochBasedMemoryReclamation.h), with the clients of *)
(* mrxutils/test/EpochBasedMemoryReclamation.cpp: threads that, locked,    *)
(* load a shared pointer, use what it points to, and at times replace it   *)
(* and retire the old object.  A thread keeps what it retires in three     *)
(* bags and empties the oldest when its epoch changes.                     *)
(*                                                                         *)
(* Every load and store of an atomic is a step.  Objects are numbered and  *)
(* no number is used again.                                                *)
(***************************************************************************)
EXTENDS Naturals, FiniteSets

CONSTANTS Threads,    \* how many there are
          Skips,      \* the 30 locks without a check
          MaxEpoch,   \* bound on epoch_
          Objects     \* bound on the objects that are ever allocated

ASSUME ThreadsAssumption == Threads \in Nat \ {0}

Thread == 1..Threads
None == 0
\* Mutant: two bags.
TwoBags == 2
MAX_BAGS == 3

VARIABLES epoch_,      \* the global epoch
          epoch,       \* threads_[t].epoch: its epoch, and whether it is idle
          to_skip, checked, bag_i, to_delete,  \* the rest of threads_[t]
          cell,        \* the shared pointer: the newest object
          deleted,     \* what has been deleted
          pc, my

data == <<epoch, to_skip, checked, bag_i, to_delete>>
vars == <<epoch_, data, cell, deleted, pc, my>>

Init ==
  /\ epoch_ = 1
  /\ epoch = [t \in Thread |-> [n |-> 0, idle |-> TRUE]]
  /\ to_skip = [t \in Thread |-> 0] /\ checked = [t \in Thread |-> 1]
  /\ bag_i = [t \in Thread |-> 0]
  /\ to_delete = [t \in Thread |-> [b \in 0..2 |-> {}]]
  /\ cell = 1 /\ deleted = {}
  /\ pc = [t \in Thread |-> "out"]
  /\ my = [t \in Thread |-> [call |-> "none", e |-> 0, str |-> None]]

Goto(t, l) == pc' = [pc EXCEPT ![t] = l]
Undeleted(t) == UNION {to_delete[t][b] : b \in 0..2}
Forgets(t) == my' = [my EXCEPT ![t] = [call |-> "none", e |-> 0, str |-> @.str]]
Returns(t) == Goto(t, "in") /\ Forgets(t)

\* lock(), retire() and retire_sync() begin with a load of the global epoch.  A client
\* uses nothing across a call.
Call(t, call) ==
  /\ \/ call = "lock" /\ pc[t] = "out"
     \/ call \in {"retire", "sync"} /\ pc[t] = "in"
  /\ my' = [my EXCEPT ![t] = [call |-> call, e |-> epoch_, str |-> None]]
  /\ Goto(t, "set")
  /\ UNCHANGED <<epoch_, data, cell, deleted>>

Rotated(t) == (bag_i[t] + 1) % MAX_BAGS

\* set_epoch, and what lock does after it with to_skip.
SetEpoch(t) ==
  /\ pc[t] = "set"
  /\ epoch' = [epoch EXCEPT ![t] = [n |-> my[t].e, idle |-> FALSE]]
  /\ LET changed == epoch[t].n # my[t].e
         skip    == IF changed THEN 0 ELSE to_skip[t]
         lock    == my[t].call = "lock"
     IN /\ IF changed
           THEN /\ checked' = [checked EXCEPT ![t] = 1]
                /\ bag_i' = [bag_i EXCEPT ![t] = Rotated(t)]
                /\ deleted' = deleted \cup to_delete[t][Rotated(t)]
                /\ to_delete' = [to_delete EXCEPT ![t][Rotated(t)] = {}]
           ELSE UNCHANGED <<checked, bag_i, deleted, to_delete>>
        /\ to_skip' = [to_skip EXCEPT ![t] =
                         IF ~lock THEN skip ELSE IF skip = 0 THEN Skips ELSE skip - 1]
        /\ IF lock /\ skip # 0 THEN Returns(t) ELSE Goto(t, "check") /\ UNCHANGED my
  /\ UNCHANGED <<epoch_, cell>>

\* What the caller of step_check does next.
Checked(t, result) ==
  CASE my[t].call = "lock"               -> Returns(t)
    [] result /\ Undeleted(t) # {}       -> Goto(t, "check") /\ UNCHANGED my
    [] my[t].call = "retire"             -> Returns(t)
    [] OTHER                             -> Goto(t, "rest") /\ UNCHANGED my

\* step_check: one thread more has been seen idle or in this epoch; after the last one
\* the global epoch moves on.
StepCheck(t) ==
  /\ pc[t] = "check"
  /\ LET other == epoch[checked[t]] IN
     IF other.idle \/ other.n = epoch[t].n
     THEN /\ checked' = [checked EXCEPT ![t] = @ + 1]
          /\ IF checked[t] = Threads
             THEN Goto(t, "advance") /\ UNCHANGED my
             ELSE Checked(t, TRUE)
     ELSE UNCHANGED checked /\ Checked(t, FALSE)
  /\ UNCHANGED <<epoch_, epoch, to_skip, bag_i, to_delete, cell, deleted>>
AdvanceEpoch(t) ==
  /\ pc[t] = "advance"
  /\ IF epoch_ = epoch[t].n
     THEN epoch_ < MaxEpoch /\ epoch_' = epoch_ + 1
     ELSE UNCHANGED epoch_
  /\ my' = [my EXCEPT ![t].e = epoch_']
  /\ Goto(t, "reset")
  /\ UNCHANGED <<data, cell, deleted>>
\* set_epoch at the end of step_check: the epoch has changed.
Reset(t) ==
  /\ pc[t] = "reset"
  /\ epoch' = [epoch EXCEPT ![t] = [n |-> my[t].e, idle |-> FALSE]]
  /\ checked' = [checked EXCEPT ![t] = 1]
  /\ to_skip' = [to_skip EXCEPT ![t] = 0]
  /\ bag_i' = [bag_i EXCEPT ![t] = Rotated(t)]
  /\ deleted' = deleted \cup to_delete[t][Rotated(t)]
  /\ to_delete' = [to_delete EXCEPT ![t][Rotated(t)] = {}]
  /\ pc' = [pc EXCEPT ![t] = "checked"]
  /\ UNCHANGED <<epoch_, cell, my>>
Resume(t) ==
  /\ pc[t] = "checked"
  /\ Checked(t, TRUE)
  /\ UNCHANGED <<epoch_, data, cell, deleted>>

\* retire_sync: idle, and again until nothing is left.
Rest(t) ==
  /\ pc[t] = "rest"
  /\ epoch' = [epoch EXCEPT ![t].idle = TRUE]
  /\ IF Undeleted(t) = {}
     THEN Goto(t, "out") /\ Forgets(t)
     ELSE Goto(t, "again") /\ UNCHANGED my
  /\ UNCHANGED <<epoch_, to_skip, checked, bag_i, to_delete, cell, deleted>>
Again(t) ==
  /\ pc[t] = "again"
  /\ my' = [my EXCEPT ![t].e = epoch_]
  /\ Goto(t, "set")
  /\ UNCHANGED <<epoch_, data, cell, deleted>>

\* The client: what it has loaded it may use until it calls or loads again.
Load(t) ==
  /\ pc[t] = "in" /\ my' = [my EXCEPT ![t].str = cell]
  /\ UNCHANGED <<epoch_, data, cell, deleted, pc>>
Replace(t) ==
  /\ pc[t] = "in" /\ my[t].str = cell /\ cell < Objects
  /\ cell' = cell + 1
  /\ to_delete' = [to_delete EXCEPT ![t][bag_i[t]] = @ \cup {cell}]
  /\ my' = [my EXCEPT ![t].str = None]
  /\ UNCHANGED <<epoch_, epoch, to_skip, checked, bag_i, deleted, pc>>
Unlock(t) ==
  /\ pc[t] = "in" /\ Goto(t, "out")
  /\ epoch' = [epoch EXCEPT ![t].idle = TRUE]
  /\ my' = [my EXCEPT ![t].str = None]
  /\ UNCHANGED <<epoch_, to_skip, checked, bag_i, to_delete, cell, deleted>>

Step(t) ==
  \/ \E call \in {"lock", "retire", "sync"} : Call(t, call)
  \/ SetEpoch(t) \/ StepCheck(t) \/ AdvanceEpoch(t) \/ Reset(t) \/ Resume(t)
  \/ Rest(t) \/ Again(t)
  \/ Load(t) \/ Replace(t) \/ Unlock(t)
Next == \E t \in Thread : Step(t)
Spec == Init /\ [][Next]_vars
-----------------------------------------------------------------------------
\* Nothing that a thread loaded under its lock is deleted while it may use it.
NothingHeldIsDeleted == \A t \in Thread : my[t].str \notin deleted
=============================================================================

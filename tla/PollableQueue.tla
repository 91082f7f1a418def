--------------------------- MODULE PollableQueue ---------------------------
(***************************************************************************)
(* MpscPollableQueue (mrxutils/mrx/utils/MpscPollableQueue.h), the mailbox *)
(* by which threads reach a scheduler: writers put values, one reader      *)
(* takes them and, when there are none, waits on an eventfd                *)
(* (mrxutils/mrx/utils/port/detail/EventFdLinux.cpp).                      *)
(*                                                                         *)
(* What is done under lock_ is a step.  The wait has no timeout here: what *)
(* has been put is to be noticed without one.                              *)
(***************************************************************************)
EXTENDS Naturals, Sequences

CONSTANTS Writer, Puts  \* bound: how many values each writer puts

VARIABLES writer_vector, reader_vector,
          wait_event_fd,
          event,        \* whether the counter of event_fd_ is above zero
          puts,         \* how many values each writer has put
          writing,      \* where each writer is
          reading,      \* where the reader is
          got           \* what it has taken

queue == <<writer_vector, reader_vector, wait_event_fd, event>>
vars == <<queue, puts, writing, reading, got>>

Init ==
  /\ writer_vector = <<>> /\ reader_vector = <<>>
  /\ wait_event_fd = FALSE /\ event = FALSE
  /\ puts = [w \in Writer |-> 0] /\ writing = [w \in Writer |-> "put"]
  /\ reading = "first" /\ got = <<>>

\* writer_put: the event is released after the lock.
Put(w) ==
  /\ writing[w] = "put" /\ puts[w] < Puts
  /\ puts' = [puts EXCEPT ![w] = @ + 1]
  /\ writer_vector' = Append(writer_vector, <<w, puts[w] + 1>>)
  /\ wait_event_fd' = FALSE
  /\ writing' = [writing EXCEPT ![w] = IF wait_event_fd THEN "release" ELSE "put"]
  /\ UNCHANGED <<reader_vector, event, reading, got>>
Release(w) ==
  /\ writing[w] = "release"
  /\ event' = TRUE
  /\ writing' = [writing EXCEPT ![w] = "put"]
  /\ UNCHANGED <<writer_vector, reader_vector, wait_event_fd, puts, reading, got>>

\* Mutant: nobody can have put a value since the first look.
NothingCame == TRUE
NothingThere == writer_vector = <<>>

Swap == /\ reader_vector' = writer_vector /\ writer_vector' = <<>>
        /\ reading' = "take" /\ UNCHANGED <<wait_event_fd, event>>

\* reader_wait_nonblock: the two rounds of the loop.
FirstLook ==
  /\ reading = "first"
  /\ IF writer_vector # <<>> THEN Swap
     ELSE event' = FALSE /\ reading' = "second"
          /\ UNCHANGED <<writer_vector, reader_vector, wait_event_fd>>
  /\ UNCHANGED <<puts, writing, got>>
SecondLook ==
  /\ reading = "second"
  /\ IF ~NothingThere THEN Swap
     ELSE wait_event_fd' = TRUE /\ reading' = "wait"
          /\ UNCHANGED <<writer_vector, reader_vector, event>>
  /\ UNCHANGED <<puts, writing, got>>
Take ==
  /\ reading = "take"
  /\ got' = got \o reader_vector /\ reader_vector' = <<>> /\ reading' = "first"
  /\ UNCHANGED <<writer_vector, wait_event_fd, event, puts, writing>>
\* EventFd::wait
WakeUp ==
  /\ reading = "wait" /\ event /\ reading' = "first"
  /\ UNCHANGED <<queue, puts, writing, got>>

Write(w) == Put(w) \/ Release(w)
Read == FirstLook \/ SecondLook \/ Take \/ WakeUp
Next == Read \/ \E w \in Writer : Write(w)
-----------------------------------------------------------------------------
\* Everything put has been taken, the values of a writer in its order.
AllTaken ==
  \A w \in Writer : SelectSeq(got, LAMBDA v : v[1] = w) = [i \in 1..Puts |-> <<w, i>>]
=============================================================================

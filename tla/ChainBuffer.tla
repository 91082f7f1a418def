---------------------------- MODULE ChainBuffer ----------------------------
(***************************************************************************)
(* ChainBufferWriter and ChainBufferReader (mrxutils/mrx/utils/buffer.h):  *)
(* one thread appends bytes to a list of nodes, another reads them.  A     *)
(* node's bytes are either fixed, or the part of a buffer that the writer  *)
(* has confirmed so far; the reader goes to the next node when the writer  *)
(* has left the one it is at.                                              *)
(*                                                                         *)
(* The bytes are numbered in the order in which they are appended.  Every  *)
(* load and store of what the two share is a step.                         *)
(***************************************************************************)
EXTENDS Minimum, Sequences

CONSTANTS Bytes,     \* bound on the bytes appended
          Capacity   \* of a buffer

ASSUME BufferAssumption == Bytes \in Nat /\ Capacity \in Nat

Null == 0

VARIABLES node,     \* the nodes, in the order in which they were made
          tail,     \* tail_: the node the writer writes to, Null when it is destroyed
          room,     \* what is left in writer_
          written,  \* how many bytes have been appended
          it,       \* the two iterators of the reader, begin_ and end_
          op,       \* what the reader does, with which iterator, how many bytes are left
          at,       \* where it is
          alive,    \* has_writer of prepare_read
          out       \* the bytes read

writer == <<node, tail, room, written>>
reader == <<it, op, at, alive, out>>
bufferVars == <<writer, reader>>

\* slice_ of a synced node is what was confirmed when it was made: nothing.
SyncedNode == [sync |-> TRUE, base |-> written, end |-> 0, has_writer |-> TRUE, next |-> Null]
FixedNode(n) == [sync |-> FALSE, base |-> written, end |-> n, has_writer |-> TRUE, next |-> Null]
AtHead(i, n, offset) ==
  [head |-> n, from |-> 0, to |-> IF node[n].sync THEN 0 ELSE node[n].end, offset |-> offset]
NoOp == [kind |-> "none", with |-> "begin", left |-> 0, last |-> FALSE]

BufferInit ==
  /\ written = 0 /\ tail = 1 /\ room = Capacity
  /\ node = <<SyncedNode>>
  /\ it = [i \in {"begin", "end"} |-> [head |-> 1, from |-> 0, to |-> 0, offset |-> 0]]
  /\ op = NoOp /\ at = "idle" /\ alive = FALSE /\ out = <<>>
-----------------------------------------------------------------------------
\* The writer: confirm_append, after the bytes have been copied.
Append_(n) ==
  /\ tail # Null /\ n <= room /\ written + n <= Bytes
  /\ node[tail].next = Null
  /\ node' = [node EXCEPT ![tail].end = @ + n]
  /\ room' = room - n /\ written' = written + n
  /\ UNCHANGED <<tail, reader>>
\* prepare_append_alloc, and append of a slice that gets a node of its own: the new
\* node is linked, then the old one is left.
Alloc ==
  /\ tail # Null /\ node[tail].next = Null /\ room < Capacity
  /\ node' = Append([node EXCEPT ![tail].next = Len(node) + 1], SyncedNode)
  /\ room' = Capacity
  /\ UNCHANGED <<tail, written, reader>>
\* A slice longer than a fresh buffer leaves that one empty behind.
AppendSlice(n) ==
  /\ tail # Null /\ node[tail].next = Null /\ n > room /\ written + n <= Bytes
  /\ node' = Append([node EXCEPT ![tail].next = Len(node) + 1], FixedNode(n))
  /\ room' = 0 /\ written' = written + n
  /\ UNCHANGED <<tail, reader>>
ReleaseTail ==
  /\ tail # Null /\ node[tail].next # Null
  /\ node' = [node EXCEPT ![tail].has_writer = FALSE]
  /\ tail' = node[tail].next
  /\ UNCHANGED <<room, written, reader>>
\* The writer is destroyed.
Close ==
  /\ tail # Null /\ node[tail].next = Null
  /\ node' = [node EXCEPT ![tail].has_writer = FALSE]
  /\ tail' = Null /\ room' = 0
  /\ UNCHANGED <<written, reader>>
-----------------------------------------------------------------------------
Size == it["end"].offset - it["begin"].offset
It == it[op.with]
Here == node[It.head]
Return == at' = "idle" /\ op' = NoOp /\ alive' = FALSE

\* sync_with_writer: end_.advance_till_end.
SyncWithWriter ==
  /\ at = "idle"
  /\ op' = [kind |-> "sync", with |-> "end", left |-> Bytes, last |-> tail = Null]
  /\ at' = "look"
  /\ UNCHANGED <<writer, it, alive, out>>
\* advance, of no more than there is.
Advance(n) ==
  /\ at = "idle" /\ 0 < n /\ n <= Size
  /\ op' = [kind |-> "read", with |-> "begin", left |-> n, last |-> FALSE]
  /\ at' = "look"
  /\ UNCHANGED <<writer, it, alive, out>>

\* prepare_read has something, of which confirm_read takes what is wanted.
Confirm ==
  /\ at = "look" /\ It.head # Null /\ It.from < It.to
  /\ LET n == Least(It.to - It.from, op.left) IN
     /\ it' = [it EXCEPT ![op.with].from = @ + n, ![op.with].offset = @ + n]
     /\ out' = IF op.kind = "read"
               THEN out \o [i \in 1..n |-> Here.base + It.from + i] ELSE out
     /\ IF op.kind = "read" /\ n = op.left
        THEN Return
        ELSE /\ op' = [op EXCEPT !.left = IF op.kind = "read" THEN @ - n ELSE @]
             /\ UNCHANGED <<at, alive>>
  /\ UNCHANGED writer
\* It has not: is the writer still at this node?
HasWriter ==
  /\ at = "look"
  /\ \/ /\ It.head = Null
        /\ IF op.kind = "sync" THEN Return ELSE at' = "short" /\ UNCHANGED <<op, alive>>
     \/ /\ It.head # Null /\ It.from = It.to
        /\ alive' = Here.has_writer /\ at' = "sync" /\ UNCHANGED op
  /\ UNCHANGED <<writer, it, out>>
\* BufferSlice::sync_with_writer: what has been confirmed since.
SyncSlice ==
  /\ at = "sync"
  /\ it' = IF Here.sync THEN [it EXCEPT ![op.with].to = Here.end] ELSE it
  /\ at' = IF Here.sync /\ Here.end > It.from THEN "look" ELSE "decide"
  /\ UNCHANGED <<writer, op, alive, out>>

\* Mutant: asked after the bytes, not before.
AliveNow == Here.has_writer
Alive == alive

NextNode ==
  /\ at = "decide"
  /\ IF Alive
     THEN /\ IF op.kind = "sync" THEN Return ELSE at' = "short" /\ UNCHANGED <<op, alive>>
          /\ UNCHANGED it
     ELSE /\ it' = [it EXCEPT ![op.with] =
                      IF Here.next = Null THEN [@ EXCEPT !.head = Null]
                      ELSE AtHead(op.with, Here.next, It.offset)]
          /\ at' = "look" /\ UNCHANGED <<op, alive>>
  /\ UNCHANGED <<writer, out>>

Writes == \/ \E n \in 1..Capacity : Append_(n)
          \/ \E n \in 1..Bytes : AppendSlice(n)
          \/ Alloc \/ ReleaseTail \/ Close
Reads == \/ SyncWithWriter \/ Confirm \/ HasWriter \/ SyncSlice \/ NextNode
         \/ \E n \in 1..Bytes : Advance(n)
BufferNext == Writes \/ Reads
BufferSpec == BufferInit /\ [][BufferNext]_bufferVars
-----------------------------------------------------------------------------
\* The reader reads what was written, in order; what it was told is there it gets; and
\* once the writer is gone, one sync tells it of all.
ReadsWhatWasWritten ==
  /\ [](/\ out = [i \in 1..Len(out) |-> i] /\ Len(out) <= it["end"].offset
        /\ it["end"].offset <= written
        /\ at # "short")
  /\ [][op.last /\ at' = "idle" => it["end"].offset = written]_bufferVars
=============================================================================

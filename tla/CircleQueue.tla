----------------------------- MODULE CircleQueue -----------------------------
(***************************************************************************)
(* The byte queues of the firmware (src/src/queue.c): a ring of QUEUE_SIZE *)
(* slots with a head and a tail, of which one is never used, as a full     *)
(* ring would look like an empty one.  The code masks where the model      *)
(* takes remainders: its QUEUE_SIZE is a power of two.                     *)
(***************************************************************************)
EXTENDS Integers

CONSTANT QUEUE_SIZE  \* slots of a CircleQueue (512)

ASSUME QueueSizeAssumption == QUEUE_SIZE \in Nat /\ QUEUE_SIZE > 1

InitializedQueue == [head |-> 0, tail |-> 0, data |-> [i \in 0 .. QUEUE_SIZE - 1 |-> 0]]

Used(q)      == (q.head - q.tail) % QUEUE_SIZE
Following(i) == (i + 1) % QUEUE_SIZE

\* One byte, as the receiving interrupt handler calls it.
Enqueue(q, byte) ==
  IF Used(q) >= QUEUE_SIZE - 1 THEN q
  ELSE [q EXCEPT !.data[q.head] = byte, !.head = Following(@)]

Content(q) == [i \in 1 .. Used(q) |-> q.data[(q.tail + i - 1) % QUEUE_SIZE]]
==============================================================================

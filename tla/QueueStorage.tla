---------------------------- MODULE QueueStorage ----------------------------
(***************************************************************************)
(* The storage of a queue of queue.c: a ring of slots, the slot to write   *)
(* next, and the slot read last.  pcHead, pcTail and the two pointers are  *)
(* counted in items.                                                       *)
(***************************************************************************)
EXTENDS Integers, Sequences

CONSTANTS
    Messages,           \* the items sent
    NoMessage           \* what a slot holds before the first item

ASSUME StorageAssumption == NoMessage \notin Messages

Slots(q) == 0 .. q.uxLength - 1

\* The slot that follows, and the one before: the pointer is compared with
\* pcTail, or pcHead, after it has moved.
Behind(q, i) == IF i + 1 >= q.uxLength THEN 0 ELSE i + 1
Before(q, i) == IF i - 1 < 0 THEN q.uxLength - 1 ELSE i - 1

\* The items in the order they are to be read.
Content(q) ==
    [i \in 1 .. q.waiting |->
        q.slots[IF q.readFrom + i >= q.uxLength THEN q.readFrom + i - q.uxLength
                ELSE q.readFrom + i]]

\* The storage after xQueueGenericReset: the first slot to read is slot 0.
ResetStorage(q) == [q EXCEPT !.waiting = 0, !.writeTo = 0, !.readFrom = q.uxLength - 1]

\* Mutant: an item that overwrites another counts as one more.
prvCopyDataToQueue_CountsTwice(q, item, position) ==
    IF position = "queueSEND_TO_BACK"
    THEN [q EXCEPT !.slots[q.writeTo] = item, !.writeTo = Behind(q, @), !.waiting = @ + 1]
    ELSE [q EXCEPT !.slots[q.readFrom] = item, !.readFrom = Before(q, @), !.waiting = @ + 1]

\* Mutant: an item for the front goes where the pointer has moved to.
prvCopyDataToQueue_MovedFirst(q, item, position) ==
    IF position = "queueSEND_TO_BACK"
    THEN [q EXCEPT !.slots[q.writeTo] = item, !.writeTo = Behind(q, @), !.waiting = @ + 1]
    ELSE [q EXCEPT !.slots[Before(q, q.readFrom)] = item, !.readFrom = Before(q, @),
                   !.waiting = IF position = "queueOVERWRITE" /\ @ > 0 THEN @ ELSE @ + 1]

\* To the back at pcWriteTo; to the front, and over the last item, at
\* u.pcReadFrom, which then moves back.
prvCopyDataToQueue(q, item, position) ==
    IF position = "queueSEND_TO_BACK"
    THEN [q EXCEPT !.slots[q.writeTo] = item, !.writeTo = Behind(q, @), !.waiting = @ + 1]
    ELSE [q EXCEPT !.slots[q.readFrom] = item, !.readFrom = Before(q, @),
                   !.waiting = IF position = "queueOVERWRITE" /\ @ > 0 THEN @ ELSE @ + 1]

\* Advances the read pointer and reads; a slot keeps what it held.
prvCopyDataFromQueue(q) ==
    [item |-> q.slots[Behind(q, q.readFrom)], queue |-> [q EXCEPT !.readFrom = Behind(q, @)]]

prvIsQueueEmpty(q) == q.waiting = 0
prvIsQueueFull(q) == q.waiting = q.uxLength
HasRoom(q, position) == q.waiting < q.uxLength \/ position = "queueOVERWRITE"
=============================================================================

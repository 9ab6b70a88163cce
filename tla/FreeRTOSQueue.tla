---------------------------- MODULE FreeRTOSQueue ----------------------------
(***************************************************************************)
(* The queue of queue.c: its storage, its lock counts, and the functions   *)
(* that move an item and wake a waiting task.  The two event lists of the  *)
(* queue are kept with the kernel's data.                                  *)
(***************************************************************************)
EXTENDS FreeRTOSKernel, QueueStorage

queueUNLOCKED == -1
queueLOCKED_UNMODIFIED == 0

\* The two list names, told apart by what their tasks wait to do.
ToSend == "xTasksWaitingToSend"
ToReceive == "xTasksWaitingToReceive"

\* xQueueGenericReset.
ResetQueue(q) == [ResetStorage(q) EXCEPT !.rxLock = queueUNLOCKED, !.txLock = queueUNLOCKED]

\* xQueueGenericCreate.
NewQueue(length) ==
    ResetQueue([uxLength |-> length, slots |-> [i \in 0 .. length - 1 |-> NoMessage],
                waiting |-> 0, writeTo |-> 0, readFrom |-> 0, rxLock |-> 0, txLock |-> 0])

-----------------------------------------------------------------------------
(* What a task does in one critical section.  A function returns kernel and *)
(* queue; the yield to a task of higher priority is its last step.          *)

\* Wake the first waiting task, if any, and let it run if it comes first.
WakeAndYield(k, list) ==
    LET woken == xTaskRemoveFromEventList(k, list)
    IN  IF IsEmpty(k.event[list]) THEN k
        ELSE IF woken.switch THEN vTaskSwitchContext(woken.kernel)
        ELSE woken.kernel

SendItem(k, q, item, position) ==
    [kernel |-> WakeAndYield(k, ToReceive), queue |-> prvCopyDataToQueue(q, item, position)]

ReceiveItem(k, q) ==
    [kernel |-> WakeAndYield(k, ToSend),
     queue |-> [prvCopyDataFromQueue(q).queue EXCEPT !.waiting = @ - 1]]

\* Peeking puts the read pointer back and passes the wake-up on.
PeekItem(k, q) ==
    [kernel |-> WakeAndYield(k, ToReceive),
     queue |-> [prvCopyDataFromQueue(q).queue EXCEPT !.readFrom = q.readFrom]]

\* A reset makes room: one waiting sender is woken.
xQueueReset(k, q) == [kernel |-> WakeAndYield(k, ToSend), queue |-> ResetQueue(q)]

-----------------------------------------------------------------------------
(* What an interrupt does: it wakes a task at once only while the queue is  *)
(* unlocked, and otherwise leaves it to the task that unlocks.              *)

WakeFromISR(k, list, lock) ==
    IF lock # queueUNLOCKED \/ IsEmpty(k.event[list]) THEN k
    ELSE xTaskRemoveFromEventList(k, list).kernel

\* xQueueGenericSendFromISR, where there is room.
SendFromISR(k, q, item, position) ==
    [kernel |-> WakeFromISR(k, ToReceive, q.txLock),
     queue |-> [prvCopyDataToQueue(q, item, position) EXCEPT
                   !.txLock = IF @ = queueUNLOCKED THEN @ ELSE @ + 1]]

\* xQueueReceiveFromISR, where there is an item.
ReceiveFromISR(k, q) ==
    [kernel |-> WakeFromISR(k, ToSend, q.rxLock),
     queue |-> [prvCopyDataFromQueue(q).queue EXCEPT
                   !.waiting = @ - 1,
                   !.rxLock = IF @ = queueUNLOCKED THEN @ ELSE @ + 1]]

-----------------------------------------------------------------------------
(* The lock, held by a task while it decides to wait. *)

prvLockQueue(q) ==
    [q EXCEPT !.rxLock = Max2(@, queueLOCKED_UNMODIFIED),
              !.txLock = Max2(@, queueLOCKED_UNMODIFIED)]

\* One round of the loop that wakes the waiting tasks, as long as there are any.
WakeOne(k, list) ==
    LET woken == xTaskRemoveFromEventList(k, list)
    IN  IF IsEmpty(k.event[list]) THEN k
        ELSE IF woken.switch THEN vTaskMissedYield(woken.kernel) ELSE woken.kernel

\* A round for every item moved under the lock.
WakeWaiting(k, list, moved) ==
    LET after[n \in 0 .. Max2(moved, 0)] == IF n = 0 THEN k ELSE WakeOne(after[n - 1], list)
    IN  after[Max2(moved, 0)]

\* Mutant: only one task is woken, however many items an interrupt has sent.
UnlockTx_WakesOne(k, q) ==
    [kernel |-> WakeWaiting(k, ToReceive, Min({1, q.txLock})),
     queue |-> [q EXCEPT !.txLock = queueUNLOCKED]]

\* The two critical sections of prvUnlockQueue.
UnlockTx(k, q) ==
    [kernel |-> WakeWaiting(k, ToReceive, q.txLock),
     queue |-> [q EXCEPT !.txLock = queueUNLOCKED]]
UnlockRx(k, q) ==
    [kernel |-> WakeWaiting(k, ToSend, q.rxLock),
     queue |-> [q EXCEPT !.rxLock = queueUNLOCKED]]
=============================================================================

--------------------------- MODULE FreeRTOSKernel ---------------------------
(***************************************************************************)
(* The data of tasks.c as one record, and its functions as operators that  *)
(* map the record to its next value.  Every operator is the body of a      *)
(* critical section, of a section in which the scheduler is suspended, or  *)
(* of an interrupt handler; FreeRTOS puts them together to calls.          *)
(*                                                                         *)
(* The configuration is that of FreeRTOSConfig.h: preemption and time      *)
(* slices, no vTaskSuspend, no mutexes, no timers, task notifications.     *)
(***************************************************************************)
EXTENDS FreeRTOSTime, FreeRTOSList, FiniteSets, FiniteSetsExt

CONSTANTS
    IdleTask,           \* the task vTaskStartScheduler creates
    MaxPriorities,      \* configMAX_PRIORITIES
    OverflowMod         \* xNumOfOverflows counts modulo this, 2^8 in the code

ASSUME KernelAssumption ==
    /\ IdleTask \in Tasks /\ xListEnd \notin Tasks
    /\ MaxPriorities \in Nat \ {0} /\ OverflowMod \in Nat \ {0, 1}

\* There is memory for so many tasks only.
ASSUME MemoryAssumption == IsFiniteSet(Tasks)

Priorities == 0 .. MaxPriorities - 1
EventLists == {"xTasksWaitingToSend", "xTasksWaitingToReceive", "xPendingReadyList"}

Max2(a, b) == IF a > b THEN a ELSE b

-----------------------------------------------------------------------------
(* Lists of tasks. *)

Listed(list) == {t \in Tasks : Holds(list, t)}
Prio(k, t) == k.tcb[t].uxPriority

\* A task is in one list of the kernel with its generic item, and in at most
\* one of EventLists with its event item; wake and the event value are their keys.
Wake(k, t) == k.tcb[t].wake
Wakes(k) == [t \in Tasks |-> Wake(k, t)]
EventValues(k) == [t \in Tasks |-> MaxPriorities - Prio(k, t)]

\* uxListRemove(&xGenericListItem): out of whatever list holds it.  The key
\* means nothing outside the delayed lists and is forgotten.
RemoveGeneric(k, t) ==
    [k EXCEPT !.ready = [p \in Priorities |-> uxListRemove(@[p], t)],
              !.delayed = uxListRemove(@, t),
              !.overflow = uxListRemove(@, t),
              !.termination = uxListRemove(@, t),
              !.tcb[t].wake = 0]
RemoveEvent(k, t) == [k EXCEPT !.event = [l \in EventLists |-> uxListRemove(@[l], t)]]

prvAddTaskToReadyList(k, t) ==
    [k EXCEPT !.top = Max2(@, Prio(k, t)),
              !.ready[Prio(k, t)] = vListInsertEnd(@, t)]

-----------------------------------------------------------------------------
(* Creation: vListInitialise for every list, then one task after another. *)

eNotWaiting == "eNotWaitingNotification"
eWaiting == "eWaitingNotification"
eNotified == "eNotified"
NewTCB(prio) == [uxPriority |-> prio, wake |-> 0, state |-> eNotWaiting, value |-> 0]

\* The lists and counters before the first task, at the values vTaskStartScheduler gives them.
EmptyKernel ==
    [current |-> IdleTask, top |-> 0, next |-> portMAX_DELAY,
     tick |-> 0, overflows |-> 0, pended |-> 0, suspended |-> 0, yieldPending |-> FALSE,
     number |-> 0, deleted |-> 0,
     ready |-> [p \in Priorities |-> vListInitialise],
     delayed |-> vListInitialise, overflow |-> vListInitialise,
     termination |-> vListInitialise,
     event |-> [l \in EventLists |-> vListInitialise],
     tcb |-> [t \in Tasks |-> NewTCB(0)]]

\* The critical section of xTaskGenericCreate.
AddTask(k, t, prio) ==
    prvAddTaskToReadyList([k EXCEPT !.number = @ + 1, !.tcb[t] = NewTCB(prio)], t)

\* The same before the scheduler runs: the last task of the highest priority
\* is the one that starts.
AddFirstTask(k, t, prio) ==
    [AddTask(k, t, prio) EXCEPT
        !.current = IF k.number = 0 \/ Prio(k, @) <= prio THEN t ELSE @]

-----------------------------------------------------------------------------
(* Choosing the task that runs. *)

vTaskSuspendAll(k) == [k EXCEPT !.suspended = @ + 1]

\* Mutant: the ready list keeps its index: the same task is chosen again.
vTaskSwitchContext_NoRotation(k) ==
    IF k.suspended # 0 THEN [k EXCEPT !.yieldPending = TRUE]
    ELSE LET top == Max({p \in 0 .. k.top : ~IsEmpty(k.ready[p])})
         IN  [k EXCEPT !.yieldPending = FALSE, !.top = top, !.current = HeadEntry(k.ready[top])]

\* Mutant: a switch that has to wait is forgotten.
vTaskSwitchContext_Forgets(k) ==
    IF k.suspended # 0 THEN k
    ELSE LET top == Max({p \in 0 .. k.top : ~IsEmpty(k.ready[p])})
         IN  [k EXCEPT !.yieldPending = FALSE, !.top = top,
                       !.ready[top] = NextEntry(@), !.current = Head(NextEntry(k.ready[top]))]

vTaskSwitchContext(k) ==
    IF k.suspended # 0 THEN [k EXCEPT !.yieldPending = TRUE]
    ELSE LET top == Max({p \in 0 .. k.top : ~IsEmpty(k.ready[p])})
         IN  [k EXCEPT !.yieldPending = FALSE, !.top = top,
                       !.ready[top] = NextEntry(@), !.current = Head(NextEntry(k.ready[top]))]

-----------------------------------------------------------------------------
(* Waiting for a tick. *)

prvResetNextTaskUnblockTime(k) ==
    [k EXCEPT !.next = IF IsEmpty(k.delayed) THEN portMAX_DELAY
                       ELSE Wake(k, HeadEntry(k.delayed))]

\* taskSWITCH_DELAYED_LISTS, when the tick counter has wrapped.
SwitchDelayedLists(k) ==
    prvResetNextTaskUnblockTime(
        [k EXCEPT !.delayed = k.overflow, !.overflow = k.delayed,
                  !.overflows = (@ + 1) % OverflowMod])

\* Mutant: a wake time on the far side of the wrap goes to the near list.
prvAddCurrentTaskToDelayedList_NoOverflow(k, wake) ==
    LET keyed == [k EXCEPT !.tcb[k.current].wake = wake]
    IN  [keyed EXCEPT !.delayed = vListInsert(@, k.current, Wakes(keyed)),
                      !.next = Min({@, wake})]

prvAddCurrentTaskToDelayedList(k, wake) ==
    LET keyed == [k EXCEPT !.tcb[k.current].wake = wake]
    IN  IF wake < k.tick THEN [keyed EXCEPT !.overflow = vListInsert(@, k.current, Wakes(keyed))]
        ELSE [keyed EXCEPT !.delayed = vListInsert(@, k.current, Wakes(keyed)),
                           !.next = Min({@, wake})]

\* The current task leaves the ready list for the delayed lists.
BlockUntil(k, wake) == prvAddCurrentTaskToDelayedList(RemoveGeneric(k, k.current), wake)
BlockFor(k, ticks) == BlockUntil(k, Stored(k.tick + ticks))

\* A task at the head of the delayed list whose time has come.
Unblock(k, t) == prvAddTaskToReadyList(RemoveEvent(RemoveGeneric(k, t), t), t)

\* The loop of xTaskIncrementTick over the due tasks at the head of the list.
UnblockDue(k) ==
    LET items == Items(k.delayed)
        later == {i \in DOMAIN items : Wake(k, items[i]) > k.tick}
        due == IF later = {} THEN items ELSE SubSeq(items, 1, Min(later) - 1)
        after[n \in 0 .. Len(due)] == IF n = 0 THEN k ELSE Unblock(after[n - 1], due[n])
    IN  [kernel |-> prvResetNextTaskUnblockTime(after[Len(due)]),
         switch |-> \E i \in DOMAIN due : Prio(k, due[i]) >= Prio(k, k.current)]

\* Mutant: a tick during a suspension of the scheduler is lost.
xTaskIncrementTick_Lost(k) ==
    IF k.suspended # 0 THEN [kernel |-> k, switch |-> k.yieldPending]
    ELSE LET counted == [k EXCEPT !.tick = Stored(@ + 1)]
             listed == IF counted.tick = 0 THEN SwitchDelayedLists(counted) ELSE counted
             woken == IF listed.tick >= listed.next THEN UnblockDue(listed)
                      ELSE [kernel |-> listed, switch |-> FALSE]
             slice == Len(woken.kernel.ready[Prio(k, k.current)]) > 2
         IN  [woken EXCEPT !.switch = @ \/ slice \/ k.yieldPending]

\* Returns the kernel and whether the current task has to give way; a ready
\* list has one more entry than tasks.
xTaskIncrementTick(k) ==
    IF k.suspended # 0 THEN [kernel |-> [k EXCEPT !.pended = @ + 1], switch |-> k.yieldPending]
    ELSE LET counted == [k EXCEPT !.tick = Stored(@ + 1)]
             listed == IF counted.tick = 0 THEN SwitchDelayedLists(counted) ELSE counted
             woken == IF listed.tick >= listed.next THEN UnblockDue(listed)
                      ELSE [kernel |-> listed, switch |-> FALSE]
             slice == Len(woken.kernel.ready[Prio(k, k.current)]) > 2
         IN  [woken EXCEPT !.switch = @ \/ slice \/ k.yieldPending]

\* vPortYieldFromTick, the handler of the tick interrupt.
vPortYieldFromTick(k) ==
    LET ticked == xTaskIncrementTick(k)
    IN  IF ticked.switch THEN vTaskSwitchContext(ticked.kernel) ELSE ticked.kernel

-----------------------------------------------------------------------------
(* Resuming the scheduler: what interrupts have left behind is made up for, *)
(* one woken task and one tick after the other.                             *)

Resumed(k) == [k EXCEPT !.suspended = @ - 1]
CaughtUp(k) == k.suspended # 0 \/ (IsEmpty(k.event["xPendingReadyList"]) /\ k.pended = 0)

\* The first of the tasks that interrupts have woken meanwhile.
ReadyPending(k) ==
    LET t == HeadEntry(k.event["xPendingReadyList"])
    IN  [prvAddTaskToReadyList(RemoveGeneric(RemoveEvent(k, t), t), t) EXCEPT
            !.yieldPending = @ \/ Prio(k, t) >= Prio(k, k.current)]

\* One of the ticks that have come meanwhile.
CountPended(k) ==
    LET ticked == xTaskIncrementTick(k)
    IN  [ticked.kernel EXCEPT !.pended = @ - 1, !.yieldPending = @ \/ ticked.switch]

CatchUp(k) == IF IsEmpty(k.event["xPendingReadyList"]) THEN CountPended(k) ELSE ReadyPending(k)

-----------------------------------------------------------------------------
(* Waiting for an event. *)

\* Mutant: the tasks wait in the order they came.
vTaskPlaceOnEventList_InOrder(k, list, ticks) ==
    BlockFor([k EXCEPT !.event[list] = vListInsertEnd(@, k.current)], ticks)

\* Under a suspended scheduler: the event list is sorted by priority.
vTaskPlaceOnEventList(k, list, ticks) ==
    BlockFor([k EXCEPT !.event[list] = vListInsert(@, k.current, EventValues(k))],
             ticks)

\* Wakes the first task of the list; returns the kernel and whether that task
\* comes before the current one.
xTaskRemoveFromEventList(k, list) ==
    LET t == HeadEntry(k.event[list])
        above == Prio(k, t) > Prio(k, k.current)
        removed == RemoveEvent(k, t)
        woken == IF k.suspended = 0 THEN prvAddTaskToReadyList(RemoveGeneric(removed, t), t)
                 ELSE [removed EXCEPT !.event["xPendingReadyList"] = vListInsertEnd(@, t)]
    IN  [kernel |-> [woken EXCEPT !.yieldPending = @ \/ above], switch |-> above]

vTaskMissedYield(k) == [k EXCEPT !.yieldPending = TRUE]

vTaskSetTimeOutState(k) == [overflows |-> k.overflows, entry |-> k.tick]

\* Mutant: the time still to wait is counted from the first entry.
xTaskCheckForTimeOut_KeepsEntry(k, timeOut, ticks) ==
    LET expired == Expired(k.tick, k.overflows # timeOut.overflows, timeOut.entry, ticks)
    IN  [expired |-> expired,
         ticks |-> IF expired THEN ticks ELSE Remaining(k.tick, timeOut.entry, ticks),
         timeOut |-> timeOut]

\* Where the time has expired, neither variable of the caller is written.
xTaskCheckForTimeOut(k, timeOut, ticks) ==
    LET expired == Expired(k.tick, k.overflows # timeOut.overflows, timeOut.entry, ticks)
    IN  [expired |-> expired,
         ticks |-> IF expired THEN ticks ELSE Remaining(k.tick, timeOut.entry, ticks),
         timeOut |-> IF expired THEN timeOut ELSE vTaskSetTimeOutState(k)]

-----------------------------------------------------------------------------
(* Deleting a task and reclaiming it. *)

\* Mutant: the event item of a deleted task stays in its list.
Terminate_KeepsEvent(k, t) ==
    [RemoveGeneric(k, t) EXCEPT !.termination = vListInsertEnd(@, t), !.deleted = @ + 1]

\* The first critical section of vTaskDelete.
Terminate(k, t) ==
    [RemoveEvent(RemoveGeneric(k, t), t) EXCEPT
        !.termination = vListInsertEnd(@, t), !.deleted = @ + 1]

\* The critical section of prvCheckTasksWaitingTermination; the memory of the
\* task is free from here on.
Reclaim(k) ==
    [RemoveGeneric(k, HeadEntry(k.termination)) EXCEPT !.number = @ - 1, !.deleted = @ - 1]

-----------------------------------------------------------------------------
(* Task notifications. *)

\* The first critical section of ulTaskNotifyTake and of xTaskNotifyWait: wait
\* unless there is a value, or a notification.
AwaitNotification(k, satisfied, cleared, ticks) ==
    LET waiting == [k EXCEPT !.tcb[k.current].state = eWaiting,
                             !.tcb[k.current].value = cleared]
    IN  IF satisfied THEN k
        ELSE IF ticks = 0 THEN waiting
        ELSE vTaskSwitchContext(BlockFor(waiting, ticks))

\* The second one: the task no longer waits, and has taken what there was.
EndNotification(k, left) ==
    [k EXCEPT !.tcb[k.current].state = eNotWaiting, !.tcb[k.current].value = left]

Notified(k, t, value) == [k EXCEPT !.tcb[t].state = eNotified, !.tcb[t].value = value]

\* xTaskGenericNotify: the notified task runs at once if it comes first.
xTaskGenericNotify(k, t, value) ==
    LET woken == prvAddTaskToReadyList(RemoveGeneric(Notified(k, t, value), t), t)
    IN  IF k.tcb[t].state # eWaiting THEN Notified(k, t, value)
        ELSE IF Prio(k, t) > Prio(k, k.current) THEN vTaskSwitchContext(woken)
        ELSE woken

\* Mutant: under a suspended scheduler only the value is stored.
xTaskGenericNotifyFromISR_NoPending(k, t, value) ==
    IF k.tcb[t].state # eWaiting \/ k.suspended # 0 THEN Notified(k, t, value)
    ELSE prvAddTaskToReadyList(RemoveGeneric(Notified(k, t, value), t), t)

\* The same from an interrupt: it neither switches nor sets xYieldPending.
xTaskGenericNotifyFromISR(k, t, value) ==
    IF k.tcb[t].state # eWaiting THEN Notified(k, t, value)
    ELSE IF k.suspended # 0
         THEN [Notified(k, t, value) EXCEPT !.event["xPendingReadyList"] = vListInsertEnd(@, t)]
    ELSE prvAddTaskToReadyList(RemoveGeneric(Notified(k, t, value), t), t)
=============================================================================

------------------------------ MODULE FreeRTOS ------------------------------
(***************************************************************************)
(* Tasks that make calls of tasks.c and queue.c, and the interrupts that   *)
(* come between their steps: the tick, and the handlers of an application. *)
(* A step of a task is a critical section, or what lies between two of     *)
(* them as far as an interrupt can tell.  Only the task the kernel has     *)
(* chosen makes steps; a task that is switched out goes on where it was.   *)
(* Tasks loop and make their calls in any order.                           *)
(***************************************************************************)
EXTENDS FreeRTOSQueue

CONSTANTS
    Plans,              \* what the application does: its tasks, calls and interrupts
    StackSize, TcbSize, \* what a task takes from the heap
    HeapSize,           \* configADJUSTED_HEAP_SIZE
    MaxPended,          \* bound on the ticks of one suspension, 2^8 - 1 in the code
    MaxLock,            \* bound on the interrupts of one lock, 2^7 - 1 in the code
    MaxNotified         \* bound on the value of a notification

NoTimeOut == [overflows |-> 0, entry |-> -1]
NoCall == [op |-> "none"]

\* A call as tasks.h and queue.h have it: times are in ticks, a handle is that
\* of a task, and a time-out is set by the call itself.
CallOK(c) ==
    /\ c.op \in {"vTaskDelay", "xQueueSend", "xQueueReceive", "ulTaskNotifyTake", "xTaskNotifyWait"}
            => c.ticks \in Ticks
    /\ c.op = "vTaskDelayUntil" => c.increment \in Ticks
    /\ c.op \in {"xQueueSend", "xQueueReceive"} =>
            {"op", "ticks", "timeOut"} \subseteq DOMAIN c /\ c.timeOut = NoTimeOut
    /\ c.op \in {"xTaskNotify", "xTaskNotifyFromISR"} =>
            /\ c.target \in Tasks
            /\ c.action \in {"eIncrement", "eSetValueWithOverwrite", "eSetValueWithoutOverwrite", "eNoAction"}
    /\ c.op = "xTaskCreate" => c.target \in Tasks /\ c.prio \in Priorities
    /\ c.op = "vTaskDelete" => c.target \in Tasks \ {IdleTask}

\* A new task has a control block of its own: no two tasks create the same one.
\* The scheduler starts only where there is memory for the tasks of main.
ASSUME TaskAssumption ==
    \A p \in Plans :
        /\ p.prio \in [Tasks -> Priorities]
        /\ p.start \in Seq(Tasks \ {IdleTask})
        /\ \A i, j \in DOMAIN p.start : p.start[i] = p.start[j] => i = j
        /\ (Len(p.start) + 1) * (StackSize + TcbSize) <= HeapSize
        /\ \A t \in Tasks : \A c \in p.calls[t] :
              /\ CallOK(c)
              /\ c.op = "xTaskCreate" => \A u \in Tasks : \A d \in p.calls[u] :
                    d.op = "xTaskCreate" /\ d.target = c.target => u = t
        /\ \A irq \in p.irqs : CallOK(irq)

ASSUME BoundAssumption ==
    /\ StackSize \in Nat /\ TcbSize \in Nat /\ HeapSize \in Nat
    /\ MaxPended \in 0 .. TickMod - 1 /\ MaxLock \in Nat

\* The sends of an application, its interrupts' among them.  Where an item may
\* overwrite another the queue has one slot (configASSERT, queue.c:323, 618, 1063).
Sends(p) ==
    {c \in UNION {p.calls[t] : t \in Tasks} : c.op = "xQueueSend"}
        \cup {irq \in p.irqs : irq.op = "xQueueSendFromISR"}

ASSUME PlanAssumption ==
    \A p \in Plans :
        /\ p.length \in Nat \ {0}
        /\ \A c \in Sends(p) :
            /\ c.item \in Messages
            /\ \/ c.position \in {"queueSEND_TO_BACK", "queueSEND_TO_FRONT"}
               \/ c.position = "queueOVERWRITE" /\ p.length = 1

VARIABLES
    plan,       \* the application, chosen once
    kernel,     \* the data of tasks.c
    queue,      \* the data of queue.c
    nextFree,   \* xNextFreeByte of heap_1.c
    pc,         \* [Tasks -> the label of the step a task has to make next]
    local,      \* [Tasks -> the call in progress and its local variables]
    wakeTime    \* [Tasks -> *pxPreviousWakeTime of its vTaskDelayUntil]

vars == <<plan, kernel, queue, nextFree, pc, local, wakeTime>>

Goto(t, label) == pc' = [pc EXCEPT ![t] = label]
Return(t) == Goto(t, "user") /\ local' = [local EXCEPT ![t] = NoCall]
Keep(t, call) == local' = [local EXCEPT ![t] = call]

\* Task t is at the label, and running.
At(t, label) == kernel.current = t /\ pc[t] = label

\* A task that exists: no call is made with the handle of another.
Alive(t) == pc[t] # "none" /\ ~Holds(kernel.termination, t)

\* A new call of the program of t.
Calling(t, c, op) == At(t, "user") /\ c \in plan.calls[t] /\ c.op = op

\* The calls t may be making: those of its program, or the one it is in.
Calls(t) == IF pc[t] \in {"try", "tcb"} THEN {local[t]} ELSE plan.calls[t]

\* After the resume: where to go on, and whether a switch is due by then.
ResumeThen(t, call, label, mustYield) ==
    Goto(t, "resume") /\ Keep(t, [call |-> call, then |-> label, mustYield |-> mustYield])

-----------------------------------------------------------------------------
(* Running, yielding, suspending the scheduler. *)

Init ==
    /\ plan \in Plans
    /\ LET started[n \in 0 .. Len(plan.start)] ==
               IF n = 0 THEN EmptyKernel
               ELSE AddFirstTask(started[n - 1], plan.start[n], plan.prio[plan.start[n]])
       IN  kernel = AddFirstTask(started[Len(plan.start)], IdleTask, 0)
    /\ queue = NewQueue(plan.length)
    /\ nextFree = (Len(plan.start) + 1) * (StackSize + TcbSize)
    /\ pc = [t \in Tasks |-> IF t = IdleTask THEN "idle"
                             ELSE IF \E i \in DOMAIN plan.start : plan.start[i] = t THEN "user"
                             ELSE "none"]
    /\ local = [t \in Tasks |-> NoCall]
    /\ wakeTime = [t \in Tasks |-> 0]

taskYIELD(t) ==
    /\ At(t, "user") \/ At(t, "held")
    /\ plan.yields
    /\ kernel' = vTaskSwitchContext(kernel)
    /\ UNCHANGED <<plan, queue, nextFree, pc, local, wakeTime>>

\* xTaskResumeAll ends every section in which the scheduler is suspended.  It
\* is one critical section: interrupts are disabled from Resume to ResumeEnd.
Resume(t) ==
    /\ At(t, "resume") \/ At(t, "held")
    /\ kernel' = Resumed(kernel)
    /\ Goto(t, "catchUp")
    /\ UNCHANGED <<plan, queue, nextFree, local, wakeTime>>

Resuming(t) ==
    /\ At(t, "catchUp") /\ ~CaughtUp(kernel)
    /\ kernel' = CatchUp(kernel)
    /\ UNCHANGED <<plan, queue, nextFree, pc, local, wakeTime>>

\* The switch, if one is due, is the last thing the call does; xAlreadyYielded
\* tells the caller.
ResumeEnd(t) ==
    LET l == local[t]
        yields == kernel.suspended = 0 /\ kernel.yieldPending
    IN  /\ At(t, "catchUp") /\ CaughtUp(kernel)
        /\ kernel' = IF yields THEN vTaskSwitchContext(kernel) ELSE kernel
        /\ IF l.mustYield /\ ~yields
           THEN Goto(t, "yield") /\ UNCHANGED local
           ELSE Goto(t, l.then) /\ Keep(t, l.call)
        /\ UNCHANGED <<plan, queue, nextFree, wakeTime>>

\* portYIELD_WITHIN_API at the end of a call.
Yield(t) ==
    /\ At(t, "yield")
    /\ kernel' = vTaskSwitchContext(kernel)
    /\ Goto(t, local[t].then) /\ Keep(t, local[t].call)
    /\ UNCHANGED <<plan, queue, nextFree, wakeTime>>

\* An application may itself suspend the scheduler; it may then yield, notify
\* and resume.
SuspendAll(t, c) ==
    /\ Calling(t, c, "vTaskSuspendAll")
    /\ kernel' = vTaskSuspendAll(kernel)
    /\ Goto(t, "held") /\ Keep(t, [call |-> NoCall, then |-> "user", mustYield |-> FALSE])
    /\ UNCHANGED <<plan, queue, nextFree, wakeTime>>

-----------------------------------------------------------------------------
(* Delays.  No interrupt can tell the suspension of the scheduler from what *)
(* is done under it here, so both are one step.                             *)

vTaskDelay(t, c) ==
    /\ Calling(t, c, "vTaskDelay")
    /\ IF c.ticks = 0
       THEN kernel' = vTaskSwitchContext(kernel) /\ UNCHANGED <<pc, local>>
       ELSE /\ kernel' = BlockFor(vTaskSuspendAll(kernel), c.ticks)
            /\ ResumeThen(t, NoCall, "user", TRUE)
    /\ UNCHANGED <<plan, queue, nextFree, wakeTime>>

vTaskDelayUntil(t, c) ==
    LET wake == Stored(wakeTime[t] + c.increment)
        suspended == vTaskSuspendAll(kernel)
    IN  /\ Calling(t, c, "vTaskDelayUntil")
        /\ kernel' = IF DelayUntilWaits(wakeTime[t], wake, kernel.tick)
                     THEN BlockUntil(suspended, wake) ELSE suspended
        /\ wakeTime' = [wakeTime EXCEPT ![t] = wake]
        /\ ResumeThen(t, NoCall, "user", TRUE)
        /\ UNCHANGED <<plan, queue, nextFree>>

-----------------------------------------------------------------------------
(* Sending to and receiving from the queue. *)

\* The critical section each round of the loop begins with.
TryQueue(t, c, possible, done) ==
    /\ \/ Calling(t, c, c.op) /\ c.op \in {"xQueueSend", "xQueueReceive"}
       \/ At(t, "try") /\ c = local[t]
    /\ IF possible
       THEN /\ kernel' = done.kernel /\ queue' = done.queue
            /\ Return(t)
       ELSE /\ UNCHANGED <<kernel, queue>>
            /\ IF c.ticks = 0 THEN Return(t)
               ELSE /\ Goto(t, "suspend")
                    /\ Keep(t, IF c.timeOut = NoTimeOut
                               THEN [c EXCEPT !.timeOut = vTaskSetTimeOutState(kernel)] ELSE c)
    /\ UNCHANGED <<plan, nextFree, wakeTime>>

TrySend(t, c) ==
    c.op = "xQueueSend" /\ TryQueue(t, c, HasRoom(queue, c.position),
                                    SendItem(kernel, queue, c.item, c.position))
TryReceive(t, c) ==
    c.op = "xQueueReceive" /\ TryQueue(t, c, ~prvIsQueueEmpty(queue),
                                       IF c.peek THEN PeekItem(kernel, queue)
                                       ELSE ReceiveItem(kernel, queue))

SuspendForQueue(t) ==
    /\ At(t, "suspend")
    /\ kernel' = vTaskSuspendAll(kernel)
    /\ Goto(t, "lock")
    /\ UNCHANGED <<plan, queue, nextFree, local, wakeTime>>

Lock(t) ==
    /\ At(t, "lock")
    /\ queue' = prvLockQueue(queue)
    /\ Goto(t, "test")
    /\ UNCHANGED <<plan, kernel, nextFree, local, wakeTime>>

\* Has the time expired, and is there still nothing to be done?  An interrupt
\* may change the answer before the task is in the event list.
Test(t) ==
    LET c == local[t]
        waited == xTaskCheckForTimeOut(kernel, c.timeOut, c.ticks)
        call == [c EXCEPT !.timeOut = waited.timeOut, !.ticks = waited.ticks]
        Blocked == IF c.op = "xQueueSend" THEN prvIsQueueFull(queue) ELSE prvIsQueueEmpty(queue)
        UnlockThen(label) ==
            Goto(t, "unlockTx") /\ Keep(t, [call |-> IF label = "user" THEN NoCall ELSE call,
                                            then |-> label, mustYield |-> FALSE])
    IN  /\ At(t, "test")
        /\ IF waited.expired THEN UnlockThen("user")
           ELSE IF Blocked THEN Goto(t, "place") /\ Keep(t, call)
           ELSE UnlockThen("try")
        /\ UNCHANGED <<plan, kernel, queue, nextFree, wakeTime>>

Place(t) ==
    LET c == local[t]
    IN  /\ At(t, "place")
        /\ kernel' = vTaskPlaceOnEventList(kernel, IF c.op = "xQueueSend" THEN ToSend ELSE ToReceive,
                                           c.ticks)
        /\ Goto(t, "unlockTx")
        /\ Keep(t, [call |-> c, then |-> "try", mustYield |-> TRUE])
        /\ UNCHANGED <<plan, queue, nextFree, wakeTime>>

Unlock(t) ==
    /\ \/ /\ At(t, "unlockTx") /\ Goto(t, "unlockRx")
          /\ kernel' = UnlockTx(kernel, queue).kernel
          /\ queue' = UnlockTx(kernel, queue).queue
       \/ /\ At(t, "unlockRx") /\ Goto(t, "resume")
          /\ kernel' = UnlockRx(kernel, queue).kernel
          /\ queue' = UnlockRx(kernel, queue).queue
    /\ UNCHANGED <<plan, nextFree, local, wakeTime>>

Reset(t, c) ==
    /\ Calling(t, c, "xQueueReset")
    /\ kernel' = xQueueReset(kernel, queue).kernel
    /\ queue' = xQueueReset(kernel, queue).queue
    /\ UNCHANGED <<plan, nextFree, pc, local, wakeTime>>

-----------------------------------------------------------------------------
(* Notifications. *)

\* ulTaskNotifyTake waits for a value, xTaskNotifyWait for a notification.
AwaitNotify(t, c) ==
    LET tcb == kernel.tcb[t]
    IN  /\ \/ Calling(t, c, "ulTaskNotifyTake")
              /\ kernel' = AwaitNotification(kernel, tcb.value # 0, tcb.value, c.ticks)
           \/ Calling(t, c, "xTaskNotifyWait")
              /\ kernel' = AwaitNotification(kernel, tcb.state = eNotified,
                                             IF c.clearOnEntry THEN 0 ELSE tcb.value, c.ticks)
        /\ Goto(t, "collect") /\ Keep(t, c)
        /\ UNCHANGED <<plan, queue, nextFree, wakeTime>>

CollectNotification(t) ==
    LET tcb == kernel.tcb[t]
        c == local[t]
        left == IF c.op = "ulTaskNotifyTake"
                THEN IF tcb.value = 0 \/ c.clearOnExit THEN 0 ELSE tcb.value - 1
                ELSE IF tcb.state # eWaiting /\ c.clearOnExit THEN 0 ELSE tcb.value
    IN  /\ At(t, "collect")
        /\ kernel' = EndNotification(kernel, left)
        /\ Return(t)
        /\ UNCHANGED <<plan, queue, nextFree, wakeTime>>

\* The new value of a notification, by its eNotifyAction.
NotifiedValue(tcb, action) ==
    CASE action = "eIncrement" -> tcb.value + 1
      [] action = "eSetValueWithOverwrite" -> 1
      [] action = "eSetValueWithoutOverwrite" -> IF tcb.state = eNotified THEN tcb.value ELSE 1
      [] action = "eNoAction" -> tcb.value

SendNotification(t, c) ==
    /\ At(t, "user") \/ At(t, "held")
    /\ c \in plan.calls[t] /\ c.op = "xTaskNotify"
    /\ Alive(c.target) /\ NotifiedValue(kernel.tcb[c.target], c.action) <= MaxNotified
    /\ kernel' = xTaskGenericNotify(kernel, c.target,
                                    NotifiedValue(kernel.tcb[c.target], c.action))
    /\ UNCHANGED <<plan, queue, nextFree, pc, local, wakeTime>>

-----------------------------------------------------------------------------
(* Creating and deleting tasks.  heap_1.c only ever allocates. *)

\* xNextFreeByte after pvPortMalloc: unchanged where the memory does not do.
pvPortMalloc(size) == IF nextFree + size < HeapSize THEN nextFree + size ELSE nextFree

\* prvAllocateTCBAndStack: the stack first, each under a suspended scheduler.
Allocate(t, c) ==
    LET size == IF At(t, "tcb") THEN TcbSize ELSE StackSize
        got == pvPortMalloc(size) # nextFree
    IN  /\ \/ Calling(t, c, "xTaskCreate") /\ pc[c.target] = "none"
           \/ At(t, "tcb") /\ c = local[t]
        /\ nextFree' = pvPortMalloc(size)
        /\ kernel' = vTaskSuspendAll(kernel)
        /\ IF ~got THEN ResumeThen(t, NoCall, "user", FALSE)
           ELSE ResumeThen(t, c, IF At(t, "tcb") THEN "add" ELSE "tcb", FALSE)
        /\ UNCHANGED <<plan, queue, wakeTime>>

\* The critical section of xTaskGenericCreate.
Add(t) ==
    LET new == local[t].target
    IN  /\ At(t, "add")
        /\ kernel' = AddTask(kernel, new, local[t].prio)
        /\ IF Prio(kernel, t) < local[t].prio
           THEN /\ pc' = [pc EXCEPT ![t] = "yield", ![new] = "user"]
                /\ Keep(t, [call |-> NoCall, then |-> "user"])
           ELSE /\ pc' = [pc EXCEPT ![t] = "user", ![new] = "user"]
                /\ Keep(t, NoCall)
        /\ UNCHANGED <<plan, queue, nextFree, wakeTime>>

\* vTaskDelete: a task that deletes itself gives way and never comes back;
\* one that deletes another brings the time of the next unblocking up to date.
vTaskDelete(t, c) ==
    /\ Calling(t, c, "vTaskDelete")
    /\ Alive(c.target)
    /\ kernel' = Terminate(kernel, c.target)
    /\ IF c.target = t
       THEN Goto(t, "yield") /\ Keep(t, [call |-> NoCall, then |-> "deleted"])
       ELSE /\ pc' = [pc EXCEPT ![t] = "resetNext", ![c.target] = "deleted"]
            /\ Keep(c.target, NoCall)
    /\ UNCHANGED <<plan, queue, nextFree, wakeTime>>

ResetNext(t) ==
    /\ At(t, "resetNext")
    /\ kernel' = prvResetNextTaskUnblockTime(kernel)
    /\ Goto(t, "user")
    /\ UNCHANGED <<plan, queue, nextFree, local, wakeTime>>

-----------------------------------------------------------------------------
(* The idle task: prvCheckTasksWaitingTermination, and a yield when another *)
(* task of its priority is ready.                                           *)

IdleLook(t) ==
    /\ At(t, "idle") /\ kernel.deleted > 0
    /\ kernel' = vTaskSuspendAll(kernel)
    /\ ResumeThen(t, NoCall, IF IsEmpty(kernel.termination) THEN "idle" ELSE "reclaim", FALSE)
    /\ UNCHANGED <<plan, queue, nextFree, wakeTime>>

Reclaimed(t) ==
    LET dead == HeadEntry(kernel.termination)
    IN  /\ At(t, "reclaim")
        /\ kernel' = Reclaim(kernel)
        /\ pc' = [pc EXCEPT ![t] = "idle", ![dead] = "none"]
        /\ Keep(dead, NoCall)
        /\ UNCHANGED <<plan, queue, nextFree, wakeTime>>

IdleYield(t) ==
    /\ At(t, "idle") /\ kernel.deleted = 0 /\ Len(kernel.ready[0]) > 2
    /\ kernel' = vTaskSwitchContext(kernel)
    /\ UNCHANGED <<plan, queue, nextFree, pc, local, wakeTime>>

-----------------------------------------------------------------------------
(* Interrupts: between any two steps, except in xTaskResumeAll. *)

InterruptsEnabled == pc[kernel.current] # "catchUp"

\* Ticks of an application that waits on the queue end before the counter wraps.
Tick ==
    /\ InterruptsEnabled /\ (kernel.suspended # 0 => kernel.pended < MaxPended)
    /\ kernel.tick + kernel.pended < plan.lastTick
    /\ kernel' = vPortYieldFromTick(kernel)
    /\ UNCHANGED <<plan, queue, nextFree, pc, local, wakeTime>>

Interrupt(irq) ==
    /\ InterruptsEnabled
    /\ \/ /\ irq.op = "xQueueSendFromISR" /\ HasRoom(queue, irq.position) /\ queue.txLock < MaxLock
          /\ kernel' = SendFromISR(kernel, queue, irq.item, irq.position).kernel
          /\ queue' = SendFromISR(kernel, queue, irq.item, irq.position).queue
       \/ /\ irq.op = "xQueueReceiveFromISR" /\ ~prvIsQueueEmpty(queue) /\ queue.rxLock < MaxLock
          /\ kernel' = ReceiveFromISR(kernel, queue).kernel
          /\ queue' = ReceiveFromISR(kernel, queue).queue
       \/ /\ irq.op = "xTaskNotifyFromISR" /\ Alive(irq.target)
          /\ NotifiedValue(kernel.tcb[irq.target], irq.action) <= MaxNotified
          /\ kernel' = xTaskGenericNotifyFromISR(kernel, irq.target,
                            NotifiedValue(kernel.tcb[irq.target], irq.action))
          /\ UNCHANGED queue
    /\ UNCHANGED <<plan, nextFree, pc, local, wakeTime>>

-----------------------------------------------------------------------------
TaskStep(t) ==
    \/ taskYIELD(t) \/ Yield(t) \/ Resume(t) \/ Resuming(t) \/ ResumeEnd(t)
    \/ SuspendForQueue(t) \/ Lock(t) \/ Test(t) \/ Place(t) \/ Unlock(t)
    \/ CollectNotification(t) \/ Add(t) \/ ResetNext(t)
    \/ IdleLook(t) \/ Reclaimed(t) \/ IdleYield(t)
    \/ \E c \in Calls(t) :
          \/ SuspendAll(t, c) \/ vTaskDelay(t, c) \/ vTaskDelayUntil(t, c)
          \/ TrySend(t, c) \/ TryReceive(t, c) \/ Reset(t, c)
          \/ AwaitNotify(t, c) \/ SendNotification(t, c)
          \/ Allocate(t, c) \/ vTaskDelete(t, c)

Next == (\E t \in Tasks : TaskStep(t)) \/ Tick \/ \E irq \in plan.irqs : Interrupt(irq)

\* The timer ticks: strong fairness, for the event unit holds a tick that comes
\* while interrupts are disabled.  And a call once begun goes on, while what an
\* application does between its calls may take for ever: weak fairness.  Both
\* are spelt out with the guards of the steps.
TickPossible ==
    /\ InterruptsEnabled /\ (kernel.suspended # 0 => kernel.pended < MaxPended)
    /\ kernel.tick + kernel.pended < plan.lastTick
CallOpen ==
    /\ pc[kernel.current] # "user"
    /\ pc[kernel.current] = "idle" => kernel.deleted > 0 \/ Len(kernel.ready[0]) > 2

Fairness ==
    /\ []<>TickPossible => []<><<Tick>>_vars
    /\ <>[]CallOpen => []<><<pc[kernel.current] # "user" /\ TaskStep(kernel.current)>>_vars

Spec == Init /\ [][Next]_vars
=============================================================================

--------------------------- MODULE FreeRTOSHistory ---------------------------
(***************************************************************************)
(* FreeRTOS with history variables for what the kernel forgets: the ticks  *)
(* that have come, how long a call has waited, and whom an interrupt has   *)
(* notified.  They record; they never restrict a step.                     *)
(***************************************************************************)
EXTENDS MCFreeRTOS

VARIABLES
    realTick,       \* the tick interrupts so far, modulo TickMod
    asked,          \* [Tasks -> the ticks its call on the queue is to wait]
    age,            \* [Tasks -> the ticks counted since, up to those asked for]
    passedOver      \* tasks an interrupt has notified, and no switch has followed

historyVars == <<realTick, asked, age, passedOver>>

HistoryInit ==
    /\ Init /\ realTick = 0
    /\ asked = [t \in Tasks |-> 0] /\ age = [t \in Tasks |-> 0]
    /\ passedOver = {}

ReadyAbove(k) == {t \in Tasks : \E p \in Priorities : p > Prio(k, k.current) /\ Holds(k.ready[p], t)}

\* A wait begins where the call first suspends the scheduler, and ends where it returns.
HistoryStep ==
    LET counted == kernel'.tick # kernel.tick
    IN  /\ asked' = [t \in Tasks |->
                        IF pc'[t] = "suspend" /\ pc[t] = "user" THEN local'[t].ticks
                        ELSE IF pc'[t] = "user" THEN 0 ELSE asked[t]]
        /\ age' = [t \in Tasks |->
                        IF asked'[t] = 0 \/ asked[t] = 0 THEN 0
                        ELSE IF counted THEN Min({age[t] + 1, asked[t]}) ELSE age[t]]

HistoryTick == Tick /\ HistoryStep /\ realTick' = Stored(realTick + 1)
               /\ passedOver' = passedOver \cap ReadyAbove(kernel')
HistoryTask == (\E t \in Tasks : TaskStep(t)) /\ HistoryStep /\ UNCHANGED realTick
               /\ passedOver' = passedOver \cap ReadyAbove(kernel')
HistoryInterrupt ==
    /\ \E irq \in plan.irqs :
          /\ Interrupt(irq)
          /\ passedOver' = (passedOver \cup IF irq.op = "xTaskNotifyFromISR" THEN {irq.target} ELSE {})
                              \cap ReadyAbove(kernel')
    /\ HistoryStep /\ UNCHANGED realTick

HistoryNext == HistoryTick \/ HistoryTask \/ HistoryInterrupt

HistorySpec == HistoryInit /\ [][HistoryNext]_<<vars, historyVars>>

FairHistorySpec == HistorySpec /\ Fairness

-----------------------------------------------------------------------------
(* Shape of the data. *)

ListTypeOK(list) == /\ list \in Seq(Tasks \cup {xListEnd})
                    /\ \A i, j \in DOMAIN list : list[i] = list[j] => i = j
                    /\ \E i \in DOMAIN list : list[i] = xListEnd

\* Every list is one ring around its end marker and every counter keeps its
\* range; a queue never counts more items than it has slots.
KernelTypeOK ==
    /\ kernel.current \in Tasks /\ kernel.tick \in Ticks /\ kernel.next \in Ticks
    /\ kernel.top \in Priorities /\ kernel.suspended \in 0 .. 2 /\ kernel.pended \in 0 .. MaxPended
    /\ \A p \in Priorities : ListTypeOK(kernel.ready[p])
    /\ ListTypeOK(kernel.delayed) /\ ListTypeOK(kernel.overflow) /\ ListTypeOK(kernel.termination)
    /\ \A l \in EventLists : ListTypeOK(kernel.event[l])
    /\ queue.writeTo \in Slots(queue) /\ queue.readFrom \in Slots(queue)
    /\ queue.waiting \in 0 .. queue.uxLength
    /\ queue.txLock \in -1 .. MaxLock /\ queue.rxLock \in -1 .. MaxLock
    /\ nextFree \in 0 .. HeapSize

Delayed == Listed(kernel.delayed) \cup Listed(kernel.overflow)
Ready(t) == \E p \in Priorities : Holds(kernel.ready[p], t)
Pending(t) == Holds(kernel.event["xPendingReadyList"], t)
Waiting(l) == Listed(kernel.event[l])

Homes == {"ready", "delayed", "overflow", "termination"}
IsIn(k, home, t) ==
    CASE home = "ready" -> \E p \in Priorities : Holds(k.ready[p], t)
      [] home = "delayed" -> Holds(k.delayed, t)
      [] home = "overflow" -> Holds(k.overflow, t)
      [] home = "termination" -> Holds(k.termination, t)

\* Every task is in one list with its generic item: the ready list of its
\* priority, a delayed list or the termination list, whatever interrupts do
\* while calls move it; with its event item it is in one list at most, and
\* only while it is blocked, or has been woken under a suspended scheduler and
\* the resume has not come to it.  A reclaimed task is nowhere, and never runs.
OneStateList ==
    \A t \in Tasks :
        /\ IF pc[t] = "none"
           THEN \A home \in Homes : ~IsIn(kernel, home, t)
           ELSE \E home \in Homes : \A h \in Homes : IsIn(kernel, h, t) <=> h = home
        /\ \A p \in Priorities : Holds(kernel.ready[p], t) => p = Prio(kernel, t)
        /\ \A l \in EventLists : Holds(kernel.event[l], t) =>
              /\ pc[t] # "none" /\ \A m \in EventLists : Holds(kernel.event[m], t) => m = l
              /\ \/ t \in Delayed
                 \/ l = "xPendingReadyList" /\ (kernel.suspended # 0 \/ pc[kernel.current] = "catchUp")
        /\ kernel.current = t => pc[t] # "none" /\ (pc[t] = "user" => Ready(t))

\* No tick is lost: those that came under a suspended scheduler are counted.
TicksKept == realTick = Stored(kernel.tick + kernel.pended)

-----------------------------------------------------------------------------
(* Scheduling. *)

\* Preemption: whoever makes a task ready that comes before the current one,
\* the switch is made, or it is noted and still to be made.  Only a task that
\* an interrupt has notified may be passed over: xTaskGenericNotifyFromISR
\* leaves the switch to its caller, and this port has nothing to call.
PromptPreemption ==
    \A t \in ReadyAbove(kernel) :
        \/ kernel.suspended # 0 \/ kernel.yieldPending
        \/ pc[kernel.current] \in {"yield", "catchUp"}
        \/ t \in passedOver

\* The tasks that get their turn before t: those between the index of the list
\* and t, or all the others if t is at the index.
AheadIn(list, t) ==
    {u \in Tasks \ {t} : \E i, j \in DOMAIN list :
        list[i] = u /\ list[j] = t /\ (j = 1 \/ i \in 2 .. j - 1)}
Ahead(k, t) == AheadIn(k.ready[Prio(k, t)], t)

\* The tasks whose wait for a notification is over and that have not come to
\* see it.  One that comes now puts them at the end of their ready list again.
Late == {t \in Tasks : Ready(t) /\ (kernel.tcb[t].state = eWaiting \/ Pending(t))}

\* Time slices: while a ready task waits for its turn, nobody gets in before
\* it, unless it is late, or the task at the index of its list is.  (The task at
\* the index is not waiting for its turn: it has had it, or the one that had it
\* has left the list, and the index has moved back to the one before it.)
FairSlices ==
    [][\A t \in Tasks :
          LET first == Head(kernel.ready[Prio(kernel, t)])
          IN  /\ Ready(t) /\ first # t /\ {t, first} \cap Late = {}
              /\ Holds(kernel'.ready[Prio(kernel', t)], t) /\ kernel'.current # t
              => Ahead(kernel', t) \subseteq Ahead(kernel, t)]_kernel

-----------------------------------------------------------------------------
(* Waking. *)

\* The tasks that have been woken to look at the queue again, or never slept.
InFlight(op) ==
    {t \in Tasks : /\ t \notin Delayed \/ Pending(t)
                   /\ \/ /\ pc[t] = "try"
                         /\ local[t].op = op
                      \/ /\ pc[t] \in {"yield", "catchUp", "resume", "unlockTx", "unlockRx"}
                         /\ local[t].then = "try"
                         /\ local[t].call.op = op}

\* No wake-up is lost: while tasks wait for an item, every item in the queue
\* has a receiver on its way to it, or a count under which unlocking wakes one.
NoLostWakeup ==
    /\ Waiting(ToReceive) \ {kernel.current} # {} =>
            queue.waiting <= Cardinality(InFlight("xQueueReceive")) + Max2(queue.txLock, 0)
    /\ Waiting(ToSend) \ {kernel.current} # {} =>
            queue.uxLength - queue.waiting <= Cardinality(InFlight("xQueueSend")) + Max2(queue.rxLock, 0)

\* No notification is lost: a task that sleeps for one has not got it.
NoLostNotification ==
    \A t \in Delayed : pc[t] = "collect" /\ ~Pending(t) =>
        /\ kernel.tcb[t].state = eWaiting
        /\ local[t].op = "ulTaskNotifyTake" => kernel.tcb[t].value = 0

\* An event wakes the task of the highest priority that waits for it, also
\* where several events are made up for at once.
HighestFirst ==
    [][\A l \in {ToSend, ToReceive} : \A t \in Waiting(l) \ Listed(kernel'.event[l]) :
          kernel'.tick = kernel.tick /\ ~Holds(kernel'.termination, t) =>
              \A u \in Listed(kernel'.event[l]) : Prio(kernel, u) <= Prio(kernel, t)]_kernel

\* A call on the queue never gives up before its time.
NeverEarly ==
    [][\A t \in Tasks : asked[t] > 0 /\ pc[t] = "test" /\ pc'[t] = "unlockTx" /\ local'[t].then = "user"
                        => age[t] >= asked[t]]_<<vars, historyVars>>

\* Nor does it sleep longer than it was asked to: what it has waited and what
\* it goes to sleep for are together no more than xTicksToWait.
WaitIsBounded ==
    [][\A t \in Tasks : pc[t] = "test" /\ pc'[t] = "place" => age[t] + local'[t].ticks <= asked[t]
      ]_<<vars, historyVars>>

-----------------------------------------------------------------------------
(* Progress, where the clock of the plan does not end. *)

Endless == plan.lastTick >= TickMod

\* A ready task gets its turn, again and again, unless tasks of higher
\* priority keep the processor: a task that never yields is sliced.
TurnComes ==
    \A t \in Tasks :
        Endless /\ Ready(t) ~> \/ kernel.current = t \/ ~Ready(t) \/ t \in passedOver
                               \/ \E u \in Tasks : Ready(u) /\ Prio(kernel, u) > Prio(kernel, t)

-----------------------------------------------------------------------------
(* What the calls promise. *)

\* Whatever calls and interrupts do, tasks come and go on the delayed lists as
\* DelayedLists says, ticks made up for included: with its theorem, a wait of n
\* ticks ends with the n-th tick.
Lists == INSTANCE DelayedLists WITH
    tick <- kernel.tick, next <- kernel.next,
    near <- Listed(kernel.delayed), far <- Listed(kernel.overflow),
    wake <- [t \in Tasks |-> Wake(kernel, t)]
DelaysImplemented == Lists!DelayedSpec

\* The queue of queue.h: what is sent is received once, in order.
Fifo == INSTANCE BoundedQueue WITH room <- queue.uxLength, content <- Content(queue)
FifoImplemented == Fifo!QueueSpec
=============================================================================

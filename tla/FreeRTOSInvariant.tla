-------------------------- MODULE FreeRTOSInvariant --------------------------
(***************************************************************************)
(* The inductive invariant of the kernel and the tasks: what the lists say *)
(* of a task, and what the place a task has come to in its call says of    *)
(* the lists.                                                              *)
(***************************************************************************)
EXTENDS FreeRTOSHistory

-----------------------------------------------------------------------------
(* The kernel. *)

\* The list a task is in with its generic item, and with its event item.
Home(k, t) ==
    IF Holds(k.ready[Prio(k, t)], t) THEN "ready"
    ELSE IF Holds(k.delayed, t) THEN "delayed"
    ELSE IF Holds(k.overflow, t) THEN "overflow"
    ELSE IF Holds(k.termination, t) THEN "termination" ELSE "nowhere"
Event(k, t) ==
    IF Holds(k.event[ToSend], t) THEN ToSend
    ELSE IF Holds(k.event[ToReceive], t) THEN ToReceive
    ELSE IF Holds(k.event["xPendingReadyList"], t) THEN "xPendingReadyList" ELSE "none"

KernelFields ==
    {"current", "top", "next", "tick", "overflows", "pended", "suspended", "yieldPending", "number",
     "deleted", "ready", "delayed", "overflow", "termination", "event", "tcb"}
TCBs == [uxPriority : Priorities, wake : Ticks, state : {eNotWaiting, eWaiting, eNotified}, value : Nat]

\* A function over S.
Over(f, S) == f = [x \in S |-> f[x]]

KernelShape(k) ==
    /\ Over(k, KernelFields)
    /\ k.current \in Tasks /\ k.top \in Priorities /\ k.tick \in Ticks /\ k.next \in Ticks
    /\ k.pended \in Nat /\ k.suspended \in Nat /\ k.overflows \in 0 .. OverflowMod - 1
    /\ k.tcb \in [Tasks -> TCBs]

KernelLists(k) ==
    /\ Over(k.ready, Priorities) /\ Over(k.event, EventLists)
    /\ \A p \in Priorities : ListTypeOK(k.ready[p])
    /\ \A l \in EventLists : ListTypeOK(k.event[l])
    /\ ListTypeOK(k.delayed) /\ ListTypeOK(k.overflow) /\ ListTypeOK(k.termination)

\* No list holds a task but those that Home and Event name.
Places(k) ==
    \A t \in Tasks :
        /\ \A p \in Priorities : Holds(k.ready[p], t) <=> Home(k, t) = "ready" /\ p = Prio(k, t)
        /\ Holds(k.delayed, t) <=> Home(k, t) = "delayed"
        /\ Holds(k.overflow, t) <=> Home(k, t) = "overflow"
        /\ Holds(k.termination, t) <=> Home(k, t) = "termination"
        /\ \A l \in EventLists : Holds(k.event[l], t) <=> Event(k, t) = l

\* The idle task is always ready, and top bounds the priorities of the ready.
Choice(k) ==
    /\ Home(k, IdleTask) = "ready" /\ Prio(k, IdleTask) = 0
    /\ \A t \in Tasks : Home(k, t) = "ready" => Prio(k, t) <= k.top

KernelOK(k) == KernelShape(k) /\ KernelLists(k) /\ Places(k) /\ Choice(k)

-----------------------------------------------------------------------------
(* The tasks. *)

Suspending == {"lock", "test", "place", "unlockTx", "unlockRx", "resume", "held"}
Resumes == {"resume", "catchUp"}
Closing == {"unlockTx", "unlockRx"} \cup Resumes
Blocked == {"delayed", "overflow"}

\* The scheduler is suspended, or about to run again.
Held == kernel.suspended # 0 \/ pc[kernel.current] = "catchUp"

\* One task at most has suspended the scheduler, and that one runs.
SuspensionInv ==
    /\ kernel.suspended = IF pc[kernel.current] \in Suspending THEN 1 ELSE 0
    /\ \A t \in Tasks : pc[t] \in Suspending \cup {"catchUp"} => t = kernel.current

\* The task that runs is ready, or on its way to a switch.
CurrentInv ==
    LET t == kernel.current
        home == Home(kernel, t)
    IN  \/ home = "ready"
        \/ home \in Blocked /\ pc[t] = "yield"
        \/ home \in Blocked /\ pc[t] \in Closing /\ local[t].mustYield
        \/ home = "termination" /\ pc[t] = "yield"

\* Where a task is by its label.
HomeOK(t) ==
    /\ pc[t] = "none" <=> Home(kernel, t) = "nowhere"
    /\ pc[t] = "deleted" \/ (pc[t] = "yield" /\ local[t].then = "deleted")
          <=> Home(kernel, t) = "termination"

\* An event item is in a list only while its task is blocked - or has timed
\* out, has not come to see it, and is notified under a suspended scheduler.
\* A task that sleeps for a notification has not got it.
EventOK(t) ==
    LET event == Event(kernel, t)
    IN  /\ event # "none" =>
              \/ Home(kernel, t) \in Blocked
              \/ Home(kernel, t) = "ready" /\ event = "xPendingReadyList" /\ pc[t] = "collect"
        /\ event = "xPendingReadyList" => Held
        /\ kernel.tcb[t].state = eWaiting =>
              \/ pc[t] = "collect" /\ event = "none"
              \/ pc[t] \in {"deleted", "none"}
        /\ pc[t] = "collect" /\ Home(kernel, t) \in Blocked /\ event # "xPendingReadyList" =>
              /\ kernel.tcb[t].state = eWaiting
              /\ local[t].op = "ulTaskNotifyTake" => kernel.tcb[t].value = 0

\* The labels a call comes to, and those it may go on with.
LabelOK(t) ==
    LET then == local[t].then
    IN  /\ pc[t] \in Closing =>
              \/ then \in {"user", "try"}
              \/ ~local[t].mustYield /\ pc[t] \in Resumes
                 /\ then \in {"tcb", "add", "idle", "reclaim"}
        /\ pc[t] = "held" => then = "user" /\ ~local[t].mustYield
        /\ pc[t] = "yield" => then \in {"user", "try", "deleted"}
        /\ t = IdleTask <=> \/ pc[t] \in {"idle", "reclaim"}
                            \/ pc[t] \in Resumes /\ then \in {"idle", "reclaim"}

\* A task about to be created is not there yet, and one to be reclaimed is.
Creates(t, c) == c \in plan.calls[t] /\ c.op = "xTaskCreate" /\ pc[c.target] = "none"
LifeOK(t) ==
    LET next == local[t].then
    IN  /\ pc[t] \in {"tcb", "add"} => Creates(t, local[t])
        /\ pc[t] \in Resumes /\ next \in {"tcb", "add"} => Creates(t, local[t].call)
        /\ pc[t] = "reclaim" \/ (pc[t] \in Resumes /\ next = "reclaim") =>
              \E u \in Tasks : Home(kernel, u) = "termination"

\* A call that waits has a time-out and a time that are ticks.
Waits(c) ==
    {"ticks", "timeOut"} \subseteq DOMAIN c /\ c.ticks \in Ticks /\ c.timeOut.entry \in Ticks
TimeOK(t) ==
    /\ wakeTime[t] \in Ticks
    /\ pc[t] \in {"try", "suspend", "lock", "test", "place"} => Waits(local[t])
    /\ pc[t] \in Closing \cup {"yield"} /\ local[t].then = "try" => Waits(local[t].call)

TaskOK(t) == HomeOK(t) /\ EventOK(t) /\ LabelOK(t) /\ LifeOK(t) /\ TimeOK(t)

FreeRTOSInv ==
    /\ KernelOK(kernel) /\ SuspensionInv /\ CurrentInv
    /\ kernel.pended <= MaxPended /\ nextFree \in 0 .. HeapSize /\ Over(wakeTime, Tasks)
    /\ \A t \in Tasks : TaskOK(t)

-----------------------------------------------------------------------------
(* The lock counts of the queue. *)

LocksOK == queue.txLock \in -1 .. MaxLock /\ queue.rxLock \in -1 .. MaxLock

-----------------------------------------------------------------------------
(* The event lists of the queue. *)

\* From the end marker on, the items stand in the order of their values.
Sorted(list, value) ==
    /\ list[1] = xListEnd
    /\ \A i, j \in 2 .. Len(list) : i <= j => value[list[i]] <= value[list[j]]
EventsSorted(k) == \A list \in {ToSend, ToReceive} : Sorted(k.event[list], EventValues(k))
=============================================================================

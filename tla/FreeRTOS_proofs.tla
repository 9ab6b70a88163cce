--------------------------- MODULE FreeRTOS_proofs ---------------------------
(***************************************************************************)
(* Proofs about the kernel and its tasks for every application: any tasks  *)
(* and priorities, any calls in any order, any interrupts between them.    *)
(***************************************************************************)
EXTENDS FreeRTOSKernel_proofs, FreeRTOSQueue_proofs

-----------------------------------------------------------------------------
(* Steps and the tasks they leave alone. *)

\* A task that makes no step, and what may become of its list items.
Steady(u) ==
    /\ pc'[u] = pc[u] /\ local'[u] = local[u] /\ wakeTime'[u] = wakeTime[u]
    /\ kernel'.tcb[u].state \in {kernel.tcb[u].state, eNotified}
    /\ \/ Home(kernel', u) = Home(kernel, u) /\ Event(kernel', u) = Event(kernel, u)
       \/ Home(kernel, u) \in Blocked /\ Home(kernel', u) \in Blocked
          /\ Event(kernel', u) = Event(kernel, u)
       \/ Home(kernel, u) \in Blocked \cup {"ready"} /\ Home(kernel', u) = "ready"
          /\ Event(kernel', u) = "none"
       \/ Home(kernel', u) = Home(kernel, u) /\ Event(kernel, u) \in {ToSend, ToReceive}
          /\ Event(kernel', u) = "xPendingReadyList"
       \/ Home(kernel', u) = Home(kernel, u) /\ kernel.tcb[u].state = eWaiting /\ pc[u] = "collect"
          /\ Event(kernel', u) = "xPendingReadyList" /\ kernel'.tcb[u].state = eNotified
    /\ Event(kernel', u) = "xPendingReadyList" => Held'
    /\ Home(kernel', u) \in Blocked /\ Event(kernel', u) # "xPendingReadyList" =>
          \/ kernel.tcb[u].state # eWaiting
          \/ kernel'.tcb[u].state = kernel.tcb[u].state /\ kernel'.tcb[u].value = kernel.tcb[u].value

\* No task comes to be, and none is reclaimed.
NoneAppears == \A u \in Tasks : pc[u] = "none" => pc'[u] = "none"
DeadStay == \A u \in Tasks : Home(kernel, u) = "termination" => Home(kernel', u) = "termination"

\* No tick is counted.
SameTime(k, l) == l.tick = k.tick /\ l.overflows = k.overflows /\ l.pended = k.pended

\* The overflows that a tick to now leaves.
Overflowed(k, now) == IF now = 0 THEN (k.overflows + 1) % OverflowMod ELSE k.overflows

\* A ready task that comes before the running one is not overlooked, or it was
\* already, or the running task is about to yield.
Noticed ==
    \A u \in Tasks : Overlooked(kernel', u) =>
        \/ pc'[kernel'.current] = "yield"
        \/ Overlooked(kernel, u) /\ pc[kernel.current] # "yield"

\* So it is where the kernel notes the switches that are due, and where no task
\* becomes ready.
LEMMA NoticedByKernel ==
    ASSUME NEW t \in Tasks, kernel.current = t, pc[t] # "yield",
           \/ Prompt(kernel, kernel')
           \/ /\ kernel'.current = t /\ kernel'.yieldPending = kernel.yieldPending
              /\ \A u \in Tasks : /\ Prio(kernel', u) = Prio(kernel, u)
                                  /\ Home(kernel', u) = "ready" => Home(kernel, u) = "ready"
    PROVE  Noticed
<1>1. Prompt(kernel, kernel')
  <2>1. CASE /\ kernel'.current = t /\ kernel'.yieldPending = kernel.yieldPending
             /\ \A u \in Tasks : /\ Prio(kernel', u) = Prio(kernel, u)
                                 /\ Home(kernel', u) = "ready" => Home(kernel, u) = "ready"
    BY <2>1, PromptKept
  <2> QED BY <2>1
<1> QED BY <1>1 DEF Prompt, Noticed

\* A task that a step leaves steady keeps its part of the invariant.
LEMMA SteadyKept ==
    ASSUME FreeRTOSInv, plan' = plan, DeadStay, NEW u \in Tasks, Steady(u),
           \A c : Creates(u, c) => Creates(u, c)'
    PROVE  TaskOK(u)'
<1>1. HomeOK(u) /\ EventOK(u) /\ LabelOK(u) /\ LifeOK(u) /\ TimeOK(u)
  BY DEF FreeRTOSInv, TaskOK
<1>2. HomeOK(u)'
  BY <1>1 DEF Steady, HomeOK, Blocked
<1>3. EventOK(u)'
  <2>1. pc[u] = "collect" => Home(kernel, u) \in Blocked \cup {"ready"}
    BY <1>1 DEF HomeOK, Home, Blocked
  <2>2. /\ Event(kernel', u) # "none" =>
              \/ Home(kernel', u) \in Blocked
              \/ /\ Home(kernel', u) = "ready" /\ Event(kernel', u) = "xPendingReadyList"
                 /\ pc'[u] = "collect"
        /\ kernel'.tcb[u].state = eWaiting =>
              \/ pc'[u] = "collect" /\ Event(kernel', u) = "none"
              \/ pc'[u] \in {"deleted", "none"}
    BY <1>1, <2>1 DEF Steady, EventOK, ToSend, ToReceive, eNotified, eWaiting
  <2>3. ASSUME pc'[u] = "collect", Home(kernel', u) \in Blocked,
               Event(kernel', u) # "xPendingReadyList"
        PROVE  /\ kernel'.tcb[u].state = eWaiting
               /\ local'[u].op = "ulTaskNotifyTake" => kernel'.tcb[u].value = 0
    <3>1. /\ pc[u] = "collect" /\ local'[u] = local[u]
          /\ Home(kernel, u) \in Blocked /\ Event(kernel, u) # "xPendingReadyList"
      BY <2>3 DEF Steady, Blocked, ToSend, ToReceive
    <3>2. kernel.tcb[u].state = eWaiting
      BY <1>1, <3>1 DEF EventOK
    <3>3. kernel'.tcb[u].state = kernel.tcb[u].state /\ kernel'.tcb[u].value = kernel.tcb[u].value
      BY <2>3, <3>2 DEF Steady
    <3> QED BY <1>1, <3>1, <3>2, <3>3 DEF EventOK
  <2>4. Event(kernel', u) = "xPendingReadyList" => Held'
    BY DEF Steady
  <2> QED BY <2>2, <2>3, <2>4 DEF EventOK
<1>4. LabelOK(u)'
  BY <1>1 DEF Steady, LabelOK
<1>5. LifeOK(u)'
  BY <1>1 DEF Steady, LifeOK, DeadStay
<1>6. TimeOK(u)'
  BY <1>1 DEF Steady, TimeOK
<1> QED BY <1>2, <1>3, <1>4, <1>5, <1>6 DEF TaskOK

\* A step that only t makes.
LEMMA InvKept ==
    ASSUME FreeRTOSInv, plan' = plan, KernelOK(kernel'), SuspensionInv', CurrentInv',
           kernel'.pended <= MaxPended, nextFree' \in 0 .. HeapSize, Over(wakeTime', Tasks),
           NoneAppears, DeadStay, NEW t \in Tasks, TaskOK(t)',
           \A u \in Tasks : u # t => Steady(u),
           \A u \in Tasks : \A c \in plan.calls[u] : CallOK(c)
    PROVE  FreeRTOSInv'
<1>1. ASSUME NEW u \in Tasks, NEW c, Creates(u, c) PROVE Creates(u, c)'
  BY <1>1 DEF Creates, NoneAppears, CallOK
<1>2. ASSUME NEW u \in Tasks PROVE TaskOK(u)'
  BY <1>1, SteadyKept
<1> QED BY <1>2 DEF FreeRTOSInv

\* Where the running task goes on.
LEMMA Went ==
    ASSUME CallsInv, NEW t \in Tasks, NEW label, Goto(t, label)
    PROVE  pc'[t] = label /\ \A u \in Tasks : u # t => pc'[u] = pc[u]
<1>1. pc = [u \in Tasks |-> pc[u]]
  BY DEF CallsInv
<1>2. t \in DOMAIN pc /\ \A u \in Tasks : u \in DOMAIN pc
  BY <1>1
<1> QED BY <1>2 DEF Goto

\* Keep replaces the locals of one task.
LEMMA Kept ==
    ASSUME CallsInv, NEW t \in Tasks, NEW call, Keep(t, call)
    PROVE  local'[t] = call /\ \A u \in Tasks : u # t => local'[u] = local[u]
<1>1. local = [u \in Tasks |-> local[u]]
  BY DEF CallsInv
<1>2. t \in DOMAIN local /\ \A u \in Tasks : u \in DOMAIN local
  BY <1>1
<1> QED BY <1>2 DEF Keep

\* What the plan of an application promises.
LEMMA Planned ==
    ASSUME CallsInv
    PROVE  /\ \A u \in Tasks : \A c \in plan.calls[u] : CallOK(c)
           /\ \A irq \in plan.irqs : CallOK(irq)
           /\ \A t, u \in Tasks : \A c \in plan.calls[t], d \in plan.calls[u] :
                 c.op = "xTaskCreate" /\ d.op = "xTaskCreate" /\ d.target = c.target => u = t
BY TaskAssumption DEF CallsInv

\* The running task, by its label.
LEMMA Running ==
    ASSUME FreeRTOSInv, NEW t \in Tasks, kernel.current = t
    PROVE  /\ KernelOK(kernel) /\ TaskOK(t) /\ HomeOK(t) /\ EventOK(t) /\ LabelOK(t)
           /\ Home(kernel, t) # "nowhere" /\ pc[t] # "none" /\ pc[t] # "deleted"
           /\ pc[t] \notin Closing \cup {"yield"} => Home(kernel, t) = "ready"
           /\ pc[t] \notin {"idle", "reclaim"} \cup Resumes => t # IdleTask
           /\ kernel.suspended = IF pc[t] \in Suspending THEN 1 ELSE 0
           /\ \A u \in Tasks : u # t => pc[u] \notin Suspending \cup {"catchUp"}
<1>1. HomeOK(t) /\ EventOK(t) /\ LabelOK(t) /\ CurrentInv /\ SuspensionInv
  BY DEF FreeRTOSInv, TaskOK
<1>2. Home(kernel, t) \in {"ready", "termination"} \cup Blocked
  BY <1>1 DEF CurrentInv, Blocked
<1>3. pc[t] \notin Closing \cup {"yield"} => Home(kernel, t) = "ready"
  BY <1>1 DEF CurrentInv
<1>4. Home(kernel, t) # "nowhere" /\ pc[t] # "none" /\ pc[t] # "deleted"
  BY <1>1, <1>2, <1>3 DEF HomeOK, Blocked, Closing, Resumes
<1> QED BY <1>1, <1>3, <1>4 DEF FreeRTOSInv, TaskOK, LabelOK, SuspensionInv

\* The running task goes on running.
LEMMA Stayed ==
    ASSUME FreeRTOSInv, NEW t \in Tasks, kernel.current = t, \A u \in Tasks : u # t => pc'[u] = pc[u],
           kernel'.current = t, kernel'.suspended = IF pc'[t] \in Suspending THEN 1 ELSE 0,
           \/ Home(kernel', t) = "ready"
           \/ Home(kernel', t) \in Blocked /\ pc'[t] = "yield"
           \/ Home(kernel', t) \in Blocked /\ pc'[t] \in Closing /\ local'[t].mustYield
           \/ Home(kernel', t) = "termination" /\ pc'[t] = "yield"
    PROVE  SuspensionInv' /\ CurrentInv'
<1>1. SuspensionInv'
  BY DEF FreeRTOSInv, SuspensionInv
<1>2. CurrentInv'
  BY DEF CurrentInv
<1> QED BY <1>1, <1>2

\* Or gives way to a ready task, itself perhaps.
LEMMA GaveWay ==
    ASSUME FreeRTOSInv, NEW t \in Tasks, kernel.current = t, \A u \in Tasks : u # t => pc'[u] = pc[u],
           KernelOK(kernel'), kernel'.suspended = 0, pc'[t] \notin Suspending \cup {"catchUp"},
           Home(kernel', kernel'.current) = "ready"
    PROVE  SuspensionInv' /\ CurrentInv'
<1>1. kernel'.current \in Tasks
  BY DEF KernelOK, KernelShape
<1>2. \A u \in Tasks : pc'[u] \notin Suspending \cup {"catchUp"}
  BY DEF FreeRTOSInv, SuspensionInv
<1>3. SuspensionInv'
  BY <1>1, <1>2 DEF SuspensionInv
<1>4. CurrentInv'
  BY DEF CurrentInv
<1> QED BY <1>3, <1>4

\* What no step of a task but Reclaimed, Add and the calls of the heap touches.
Aside == plan' = plan /\ nextFree' = nextFree /\ wakeTime' = wakeTime

\* A step of t that leaves the rest of the tasks steady keeps the invariant.
LEMMA AsideKept ==
    ASSUME FreeRTOSInv, CallsInv, Aside, KernelOK(kernel'), SuspensionInv', CurrentInv',
           kernel'.pended <= MaxPended, NoneAppears, DeadStay, NEW t \in Tasks, TaskOK(t)',
           \A u \in Tasks : u # t => Steady(u)
    PROVE  FreeRTOSInv'
BY Planned, InvKept DEF Aside, FreeRTOSInv

\* A switch of context in itself.
LEMMA Switches ==
    ASSUME FreeRTOSInv, CallsInv, NEW t \in Tasks, kernel.current = t,
           pc[t] \in {"user", "held", "idle"}, kernel' = vTaskSwitchContext(kernel),
           Aside, pc' = pc, local' = local
    PROVE  FreeRTOSInv' /\ SameTime(kernel, kernel') /\ Noticed
<1>1. /\ kernel.current = t /\ pc[t] \in {"user", "held", "idle"}
      /\ kernel' = vTaskSwitchContext(kernel) /\ Aside /\ pc' = pc /\ local' = local
  OBVIOUS
<1>2. /\ KernelOK(kernel) /\ Home(kernel, t) = "ready" /\ TaskOK(t)
      /\ kernel.suspended = IF pc[t] \in Suspending THEN 1 ELSE 0
      /\ \A u \in Tasks : TaskOK(u)
  BY <1>1, Running DEF Closing, Resumes, FreeRTOSInv
<1>3. /\ KernelOK(kernel') /\ SameData(kernel, kernel')
      /\ \A u \in Tasks : Home(kernel', u) = Home(kernel, u) /\ Event(kernel', u) = Event(kernel, u)
      /\ IF kernel.suspended # 0 THEN kernel'.current = t ELSE Home(kernel', kernel'.current) = "ready"
  BY <1>1, <1>2, Switched
<1>4. Noticed
  BY <1>1, <1>2, Switched DEF Noticed
<1>5. SuspensionInv' /\ CurrentInv'
  <2>1. CASE kernel.suspended # 0
    BY <1>1, <1>2, <1>3, <2>1, Stayed DEF SameData
  <2>2. CASE kernel.suspended = 0
    BY <1>1, <1>2, <1>3, <2>2, GaveWay DEF SameData
  <2> QED BY <2>1, <2>2
<1>6. ASSUME NEW u \in Tasks PROVE Steady(u)
  <2>1. Held => Held'
    BY <1>1, <1>2, <1>3 DEF Held, SameData
  <2> QED BY <1>1, <1>2, <1>3, <2>1 DEF Steady, SameData, TaskOK, EventOK, Aside
<1>7. NoneAppears /\ DeadStay
  BY <1>1, <1>3 DEF NoneAppears, DeadStay
<1>8. TaskOK(t)'
  BY <1>1, <1>6, <1>7, SteadyKept DEF Creates, Aside
<1>9. kernel'.pended <= MaxPended
  BY <1>3 DEF SameData, FreeRTOSInv
<1> QED BY <1>1, <1>3, <1>4, <1>5, <1>6, <1>7, <1>8, <1>9, AsideKept DEF SameData, SameTime

\* taskYIELD, and the yield of the idle task.
LEMMA SwitchSteps ==
    ASSUME FreeRTOSInv, CallsInv, NEW t \in Tasks, taskYIELD(t) \/ IdleYield(t)
    PROVE  FreeRTOSInv' /\ SameTime(kernel, kernel') /\ Noticed
BY Switches DEF taskYIELD, IdleYield, At, Aside

\* A running task that has not just slept waits for nothing.
LEMMA WaitsForNothing ==
    ASSUME FreeRTOSInv, NEW t \in Tasks, kernel.current = t, Home(kernel, t) = "ready", pc[t] # "collect"
    PROVE  Event(kernel, t) = "none" /\ kernel.tcb[t].state # eWaiting
<1>1. EventOK(t) /\ pc[t] # "none" /\ pc[t] # "deleted"
  BY Running
<1> QED BY <1>1 DEF EventOK, Blocked

\* A task under creation by a call stays under creation by it.
LEMMA CreatesKept ==
    ASSUME CallsInv, plan' = plan, NoneAppears, NEW u \in Tasks, NEW c, Creates(u, c)
    PROVE  Creates(u, c)'
<1>1. CallOK(c)
  BY Planned DEF Creates
<1> QED BY <1>1 DEF Creates, CallOK, NoneAppears

\* portYIELD_WITHIN_API.
LEMMA YieldStep ==
    ASSUME FreeRTOSInv, CallsInv, NEW t \in Tasks, Yield(t)
    PROVE  FreeRTOSInv' /\ SameTime(kernel, kernel') /\ Noticed
<1>1. /\ kernel.current = t /\ pc[t] = "yield" /\ kernel' = vTaskSwitchContext(kernel) /\ Aside
      /\ Goto(t, local[t].then) /\ Keep(t, local[t].call)
  BY DEF Yield, At, Aside
<1>2. /\ KernelOK(kernel) /\ TaskOK(t) /\ kernel.suspended = 0 /\ t # IdleTask
      /\ Home(kernel, t) # "nowhere" /\ \A u \in Tasks : TaskOK(u)
  BY <1>1, Running DEF Suspending, Resumes, FreeRTOSInv
<1>3. /\ KernelOK(kernel') /\ SameData(kernel, kernel')
      /\ \A u \in Tasks : Home(kernel', u) = Home(kernel, u) /\ Event(kernel', u) = Event(kernel, u)
      /\ Home(kernel', kernel'.current) = "ready"
  BY <1>2, <1>1, Switched
<1>4. /\ pc'[t] = local[t].then /\ local'[t] = local[t].call
      /\ \A u \in Tasks : u # t => pc'[u] = pc[u] /\ local'[u] = local[u]
  BY <1>1, Went, Kept
<1>5. pc'[t] \in {"user", "try", "deleted"}
  BY <1>1, <1>2, <1>4 DEF TaskOK, LabelOK
<1>6. SuspensionInv' /\ CurrentInv'
  BY <1>1, <1>2, <1>3, <1>4, <1>5, GaveWay DEF SameData, Suspending
<1>7. ~Held
  BY <1>1, <1>2 DEF Held
<1>8. ASSUME NEW u \in Tasks, u # t PROVE Steady(u)
  BY <1>1, <1>2, <1>3, <1>4, <1>7, <1>8 DEF Steady, SameData, TaskOK, EventOK, Aside
<1>9. NoneAppears /\ DeadStay
  BY <1>1, <1>3, <1>4 DEF NoneAppears, DeadStay
<1>10. TaskOK(t)'
  <2>1. HomeOK(t)'
    BY <1>1, <1>2, <1>3, <1>4, <1>5 DEF TaskOK, HomeOK
  <2>2. EventOK(t)'
    BY <1>1, <1>2, <1>3, <1>5, <1>7 DEF TaskOK, EventOK, SameData
  <2>3. LabelOK(t)' /\ LifeOK(t)'
    BY <1>2, <1>5 DEF LabelOK, LifeOK, Closing, Resumes
  <2>4. TimeOK(t)'
    BY <1>1, <1>2, <1>4, <1>5 DEF TaskOK, TimeOK, Closing, Resumes, Aside
  <2> QED BY <2>1, <2>2, <2>3, <2>4 DEF TaskOK
<1>11. kernel'.pended <= MaxPended
  BY <1>3 DEF SameData, FreeRTOSInv
<1>12. Noticed
  BY <1>1, <1>2, Switched DEF Noticed
<1> QED BY <1>1, <1>3, <1>6, <1>8, <1>9, <1>10, <1>11, <1>12, AsideKept DEF SameData, SameTime

\* The first line of xTaskResumeAll.
LEMMA ResumeStep ==
    ASSUME FreeRTOSInv, CallsInv, NEW t \in Tasks, Resume(t)
    PROVE  FreeRTOSInv' /\ SameTime(kernel, kernel') /\ Noticed
<1>1. /\ kernel.current = t /\ pc[t] \in {"resume", "held"} /\ kernel' = Resumed(kernel) /\ Aside
      /\ Goto(t, "catchUp") /\ local' = local
  BY DEF Resume, At, Aside
<1>2. /\ KernelOK(kernel) /\ TaskOK(t) /\ kernel.suspended = 1
      /\ Home(kernel, t) # "nowhere" /\ \A u \in Tasks : TaskOK(u)
  BY <1>1, Running DEF Suspending, FreeRTOSInv
<1>3. kernel' = [kernel EXCEPT !.suspended = 0]
  BY <1>1, <1>2 DEF Resumed
<1>4. /\ KernelOK(kernel') /\ Stays(kernel, kernel') /\ kernel'.current = t /\ kernel'.suspended = 0
      /\ kernel'.tick = kernel.tick /\ kernel'.overflows = kernel.overflows
      /\ kernel'.pended = kernel.pended /\ kernel'.tcb = kernel.tcb
      /\ kernel'.yieldPending = kernel.yieldPending
  BY <1>1, <1>2, <1>3, SuspensionCounted
<1>5. pc'[t] = "catchUp" /\ \A u \in Tasks : u # t => pc'[u] = pc[u]
  BY <1>1, Went
<1>6. Held'
  BY <1>4, <1>5 DEF Held
<1>7. SuspensionInv' /\ CurrentInv'
  <2>1. \/ Home(kernel, t) = "ready"
        \/ Home(kernel, t) \in Blocked /\ local[t].mustYield
    BY <1>1 DEF FreeRTOSInv, CurrentInv
  <2> QED BY <1>1, <1>4, <1>5, <2>1, Stayed DEF Stays, Suspending, Closing, Resumes
<1>8. ASSUME NEW u \in Tasks, u # t PROVE Steady(u)
  BY <1>1, <1>4, <1>5, <1>6, <1>8 DEF Steady, Stays, Aside
<1>9. NoneAppears /\ DeadStay
  BY <1>1, <1>4, <1>5 DEF NoneAppears, DeadStay, Stays
<1>10. TaskOK(t)'
  <2>1. HomeOK(t)'
    BY <1>1, <1>2, <1>4, <1>5 DEF TaskOK, HomeOK, Stays
  <2>2. EventOK(t)'
    BY <1>1, <1>2, <1>4, <1>5, <1>6 DEF TaskOK, EventOK, Stays
  <2>3. LabelOK(t)'
    BY <1>1, <1>2, <1>5 DEF TaskOK, LabelOK, Closing, Resumes
  <2>4. LifeOK(t)'
    <3>1. local[t].then \in {"tcb", "add", "reclaim"} => pc[t] \in Resumes
      BY <1>1, <1>2 DEF TaskOK, LabelOK, Resumes
    <3> QED BY <1>1, <1>2, <1>4, <1>5, <1>9, <3>1, CreatesKept DEF TaskOK, LifeOK, DeadStay, Aside
  <2>5. TimeOK(t)'
    BY <1>1, <1>2, <1>5 DEF TaskOK, TimeOK, LabelOK, Closing, Resumes, Aside
  <2> QED BY <2>1, <2>2, <2>3, <2>4, <2>5 DEF TaskOK
<1>11. kernel'.pended <= MaxPended
  BY <1>4 DEF FreeRTOSInv
<1>12. Noticed
  BY <1>1, <1>4, NoticedByKernel DEF Stays, Prio
<1> QED BY <1>1, <1>4, <1>7, <1>8, <1>9, <1>10, <1>11, <1>12, AsideKept DEF SameTime

\* A round of xTaskResumeAll: a task that an interrupt has woken, or a tick.
LEMMA ResumingStep ==
    ASSUME FreeRTOSInv, CallsInv, NEW t \in Tasks, Resuming(t)
    PROVE  /\ FreeRTOSInv' /\ Noticed
           /\ \/ SameTime(kernel, kernel')
              \/ /\ kernel.pended # 0 /\ kernel'.pended = kernel.pended - 1
                 /\ kernel'.tick = Stored(kernel.tick + 1)
                 /\ kernel'.overflows = Overflowed(kernel, kernel'.tick)
<1>1. /\ kernel.current = t /\ pc[t] = "catchUp" /\ kernel' = CatchUp(kernel) /\ ~CaughtUp(kernel)
      /\ Aside /\ pc' = pc /\ local' = local
  BY DEF Resuming, At, Aside
<1>2. /\ KernelOK(kernel) /\ TaskOK(t) /\ kernel.suspended = 0 /\ kernel.pended \in Nat
      /\ Home(kernel, t) # "nowhere" /\ \A u \in Tasks : TaskOK(u)
  BY <1>1, Running DEF Suspending, FreeRTOSInv, KernelOK, KernelShape
<1>3. /\ KernelOK(kernel') /\ kernel'.current = t /\ kernel'.suspended = 0
      /\ \A u \in Tasks :
            /\ kernel'.tcb[u].state = kernel.tcb[u].state /\ kernel'.tcb[u].value = kernel.tcb[u].value
            /\ \/ Home(kernel', u) = Home(kernel, u) /\ Event(kernel', u) = Event(kernel, u)
               \/ Home(kernel, u) \in Blocked /\ Home(kernel', u) \in Blocked
                  /\ Event(kernel', u) = Event(kernel, u)
               \/ Home(kernel, u) \in Blocked \cup {"ready"} /\ Home(kernel', u) = "ready"
                  /\ Event(kernel', u) = "none"
      /\ kernel'.pended <= kernel.pended /\ Prompt(kernel, kernel')
      /\ \/ SameTime(kernel, kernel')
         \/ /\ kernel.pended # 0 /\ kernel'.pended = kernel.pended - 1
            /\ kernel'.tick = Stored(kernel.tick + 1)
            /\ kernel'.overflows = Overflowed(kernel, kernel'.tick)
  <2>1. CASE IsEmpty(kernel.event["xPendingReadyList"])
    <3>1. kernel' = CountPended(kernel) /\ kernel.pended # 0
      BY <1>1, <1>2, <2>1 DEF CatchUp, CaughtUp
    <3>2. /\ KernelOK(kernel') /\ Passes(kernel, kernel')
          /\ kernel'.current = t /\ kernel'.pended = kernel.pended - 1 /\ kernel'.suspended = 0
          /\ kernel'.tick = Stored(kernel.tick + 1)
          /\ kernel'.overflows = IF kernel'.tick = 0 THEN (kernel.overflows + 1) % OverflowMod
                                 ELSE kernel.overflows
          /\ Prompt(kernel, kernel')
      BY <1>1, <1>2, <3>1, PendedCounted
    <3> QED BY <1>2, <3>1, <3>2 DEF Passes, Overflowed
  <2>2. CASE ~IsEmpty(kernel.event["xPendingReadyList"])
    <3>1. kernel' = ReadyPending(kernel)
      BY <1>1, <2>2 DEF CatchUp
    <3>2. /\ KernelOK(kernel') /\ kernel'.current = kernel.current /\ SameData(kernel, kernel')
          /\ Prompt(kernel, kernel')
          /\ \E v \in Tasks :
               /\ Event(kernel, v) = "xPendingReadyList"
               /\ \A u \in Tasks : IF u = v THEN Home(kernel', u) = "ready" /\ Event(kernel', u) = "none"
                                   ELSE Home(kernel', u) = Home(kernel, u) /\ Event(kernel', u) = Event(kernel, u)
      BY <1>2, <2>2, <3>1, PendingReadied
    <3>3. PICK v \in Tasks :
               /\ Event(kernel, v) = "xPendingReadyList"
               /\ \A u \in Tasks : IF u = v THEN Home(kernel', u) = "ready" /\ Event(kernel', u) = "none"
                                   ELSE Home(kernel', u) = Home(kernel, u) /\ Event(kernel', u) = Event(kernel, u)
      BY <3>2
    <3>4. Home(kernel, v) \in Blocked \cup {"ready"}
      BY <1>2, <3>3 DEF TaskOK, EventOK
    <3> QED BY <1>1, <1>2, <3>2, <3>3, <3>4 DEF SameData, SameTime
  <2> QED BY <2>1, <2>2
<1>4. Held' /\ NoneAppears
  BY <1>1, <1>3 DEF Held, NoneAppears
<1>5. SuspensionInv' /\ CurrentInv'
  <2>1. \/ Home(kernel, t) = "ready"
        \/ Home(kernel, t) \in Blocked /\ local[t].mustYield
    BY <1>1 DEF FreeRTOSInv, CurrentInv
  <2>2. \/ Home(kernel', t) = "ready"
        \/ Home(kernel', t) \in Blocked /\ local[t].mustYield
    BY <1>3, <2>1 DEF Blocked
  <2> QED BY <1>1, <1>3, <2>2, Stayed DEF Suspending, Closing, Resumes
<1>6. ASSUME NEW u \in Tasks PROVE Steady(u)
  BY <1>1, <1>3, <1>4 DEF Steady, Aside
<1>7. DeadStay
  BY <1>3 DEF DeadStay, Blocked
<1>8. TaskOK(t)'
  BY <1>1, <1>4, <1>6, <1>7, SteadyKept, CreatesKept DEF Aside
<1>9. kernel'.pended <= MaxPended
  <2>1. kernel'.pended \in Nat /\ kernel.pended <= MaxPended /\ MaxPended \in Int
    BY <1>3, BoundAssumption DEF FreeRTOSInv, KernelOK, KernelShape
  <2> QED BY <1>2, <1>3, <2>1
<1>10. Noticed
  BY <1>1, <1>3, NoticedByKernel
<1> QED BY <1>1, <1>3, <1>4, <1>5, <1>6, <1>7, <1>8, <1>9, <1>10, AsideKept

\* The end of xTaskResumeAll, with the switch that is due.
LEMMA ResumeEndStep ==
    ASSUME FreeRTOSInv, CallsInv, NEW t \in Tasks, ResumeEnd(t)
    PROVE  FreeRTOSInv' /\ SameTime(kernel, kernel') /\ Noticed
<1> DEFINE l == local[t]
           yields == kernel.suspended = 0 /\ kernel.yieldPending
<1>1. /\ kernel.current = t /\ pc[t] = "catchUp" /\ CaughtUp(kernel) /\ Aside
      /\ kernel' = IF yields THEN vTaskSwitchContext(kernel) ELSE kernel
      /\ \/ l.mustYield /\ ~yields /\ Goto(t, "yield") /\ local' = local
         \/ (~l.mustYield \/ yields) /\ Goto(t, l.then) /\ Keep(t, l.call)
  BY DEF ResumeEnd, At, Aside
<1>2. /\ KernelOK(kernel) /\ TaskOK(t) /\ kernel.suspended = 0 /\ kernel.pended \in Nat
      /\ Home(kernel, t) # "nowhere" /\ \A u \in Tasks : TaskOK(u)
      /\ IsEmpty(kernel.event["xPendingReadyList"])
  BY <1>1, Running DEF Suspending, FreeRTOSInv, KernelOK, KernelShape, CaughtUp
<1>3. \A u \in Tasks : Event(kernel, u) # "xPendingReadyList"
  <2>1. "xPendingReadyList" \in EventLists
    BY DEF EventLists
  <2> QED BY <1>2, <2>1, EmptyOrNot DEF KernelOK, KernelLists, Places
<1>4. /\ KernelOK(kernel') /\ SameData(kernel, kernel')
      /\ \A u \in Tasks : Home(kernel', u) = Home(kernel, u) /\ Event(kernel', u) = Event(kernel, u)
      /\ IF yields THEN Home(kernel', kernel'.current) = "ready" ELSE kernel'.current = t
  <2>1. CASE yields
    BY <1>1, <1>2, <2>1, Switched
  <2>2. CASE ~yields
    BY <1>1, <1>2, <2>2 DEF SameData
  <2> QED BY <2>1, <2>2
<1>5. Noticed
  <2>1. CASE yields
    BY <1>1, <1>2, <2>1, Switched DEF Noticed
  <2>2. CASE ~yields
    BY <1>1, <2>2, NoticedByKernel
  <2> QED BY <2>1, <2>2
<1> HIDE DEF yields
<1>6. /\ \/ l.mustYield /\ ~yields /\ pc'[t] = "yield" /\ local'[t] = l
         \/ (~l.mustYield \/ yields) /\ pc'[t] = l.then /\ local'[t] = l.call
      /\ \A u \in Tasks : u # t => pc'[u] = pc[u] /\ local'[u] = local[u]
  BY <1>1, Went, Kept
<1>7. LabelOK(t) /\ LifeOK(t) /\ HomeOK(t) /\ EventOK(t) /\ TimeOK(t)
  BY <1>2 DEF TaskOK
<1>8. l.then \in {"user", "try"} \/ (~l.mustYield /\ l.then \in {"tcb", "add", "idle", "reclaim"})
  BY <1>1, <1>7 DEF LabelOK, Closing, Resumes
<1>9. pc'[t] \in {"yield", "user", "try", "tcb", "add", "idle", "reclaim"}
  BY <1>6, <1>8
<1>10. SuspensionInv' /\ CurrentInv'
  <2>1. CASE yields
    BY <1>1, <1>2, <1>4, <1>6, <1>9, <2>1, GaveWay DEF SameData, Suspending
  <2>2. CASE ~yields
    <3>1. \/ Home(kernel, t) = "ready"
          \/ Home(kernel, t) \in Blocked /\ l.mustYield
      BY <1>1 DEF FreeRTOSInv, CurrentInv
    <3> QED BY <1>1, <1>2, <1>4, <1>6, <1>9, <2>2, <3>1, Stayed DEF SameData, Suspending
  <2> QED BY <2>1, <2>2
<1>11. ASSUME NEW u \in Tasks, u # t PROVE Steady(u)
  BY <1>1, <1>3, <1>4, <1>6, <1>11 DEF Steady, SameData, Aside
<1>12. NoneAppears /\ DeadStay
  BY <1>1, <1>4, <1>6 DEF NoneAppears, DeadStay
<1>13. TaskOK(t)'
  <2>1. HomeOK(t)'
    BY <1>1, <1>2, <1>4, <1>6, <1>7, <1>8, <1>9 DEF HomeOK
  <2>2. EventOK(t)'
    BY <1>1, <1>3, <1>4, <1>7, <1>9 DEF EventOK, SameData
  <2>3. LabelOK(t)'
    BY <1>1, <1>6, <1>7, <1>8 DEF LabelOK, Closing, Resumes
  <2>4. LifeOK(t)'
    <3>1. ASSUME l.then \in {"tcb", "add"}
          PROVE  l.call \in plan.calls[t] /\ l.call.op = "xTaskCreate" /\ pc'[l.call.target] = "none"
      <4>1. Creates(t, l.call)
        BY <1>1, <1>7, <3>1 DEF LifeOK, Resumes
      <4> QED BY <4>1, <1>12, Planned DEF Creates, CallOK, NoneAppears
    <3>2. l.then = "reclaim" => \E u \in Tasks : Home(kernel', u) = "termination"
      BY <1>1, <1>4, <1>7 DEF LifeOK, Resumes
    <3> QED BY <1>1, <1>6, <1>9, <3>1, <3>2 DEF LifeOK, Creates, Resumes, Aside
  <2>5. TimeOK(t)'
    BY <1>1, <1>6, <1>7, <1>8 DEF TimeOK, Closing, Resumes, Aside
  <2> QED BY <2>1, <2>2, <2>3, <2>4, <2>5 DEF TaskOK
<1>14. kernel'.pended <= MaxPended
  BY <1>4 DEF SameData, FreeRTOSInv
<1> QED BY <1>1, <1>4, <1>5, <1>10, <1>11, <1>12, <1>13, <1>14, AsideKept DEF SameData, SameTime

-----------------------------------------------------------------------------
(* Sections under a suspended scheduler. *)

\* vTaskSuspendAll by a running task.
LEMMA Suspends ==
    ASSUME FreeRTOSInv, CallsInv, NEW t \in Tasks, kernel.current = t,
           pc[t] \in {"user", "suspend", "tcb", "idle"}, kernel' = vTaskSuspendAll(kernel),
           plan' = plan, wakeTime' = wakeTime, nextFree' \in 0 .. HeapSize,
           pc'[t] \in {"lock", "held", "resume"},
           \A u \in Tasks : u # t => pc'[u] = pc[u] /\ local'[u] = local[u],
           LabelOK(t)', LifeOK(t)', TimeOK(t)'
    PROVE  FreeRTOSInv' /\ SameTime(kernel, kernel') /\ Noticed
<1>1. /\ KernelOK(kernel) /\ TaskOK(t) /\ kernel.suspended = 0
      /\ Home(kernel, t) = "ready" /\ \A u \in Tasks : TaskOK(u)
  BY Running DEF Suspending, Closing, Resumes, FreeRTOSInv
<1>2. kernel' = [kernel EXCEPT !.suspended = 1]
  BY <1>1 DEF vTaskSuspendAll
<1>3. /\ KernelOK(kernel') /\ Stays(kernel, kernel') /\ kernel'.current = t /\ kernel'.suspended = 1
      /\ kernel'.tick = kernel.tick /\ kernel'.overflows = kernel.overflows
      /\ kernel'.pended = kernel.pended /\ kernel'.tcb = kernel.tcb
      /\ kernel'.yieldPending = kernel.yieldPending
  BY <1>1, <1>2, SuspensionCounted
<1>4. Held' /\ Event(kernel, t) = "none" /\ kernel.tcb[t].state # eWaiting
  BY <1>1, <1>3, WaitsForNothing DEF Held
<1>5. SuspensionInv' /\ CurrentInv'
  BY <1>1, <1>3, Stayed DEF Stays, Suspending
<1>6. ASSUME NEW u \in Tasks, u # t PROVE Steady(u)
  BY <1>3, <1>4, <1>6 DEF Steady, Stays
<1>7. NoneAppears /\ DeadStay
  BY <1>3 DEF NoneAppears, DeadStay, Stays
<1>8. HomeOK(t)' /\ EventOK(t)'
  BY <1>1, <1>3, <1>4 DEF HomeOK, EventOK, Stays
<1>9. TaskOK(t)'
  BY <1>8 DEF TaskOK
<1>10. kernel'.pended <= MaxPended /\ Over(wakeTime', Tasks)
  BY <1>3 DEF FreeRTOSInv
<1>11. Noticed
  BY <1>3, NoticedByKernel DEF Stays, Prio
<1> QED BY <1>3, <1>5, <1>6, <1>7, <1>9, <1>10, <1>11, InvKept, Planned DEF SameTime

\* vTaskSuspendAll, in the calls that begin with it.
LEMMA SuspendSteps ==
    ASSUME FreeRTOSInv, CallsInv, NEW t \in Tasks,
           SuspendForQueue(t) \/ IdleLook(t) \/ \E c \in Calls(t) : SuspendAll(t, c) \/ Allocate(t, c)
    PROVE  FreeRTOSInv' /\ SameTime(kernel, kernel') /\ Noticed
<1>1. nextFree \in 0 .. HeapSize /\ HeapSize \in Nat /\ StackSize \in Nat /\ TcbSize \in Nat
  BY BoundAssumption DEF FreeRTOSInv
<1>2. TaskOK(t)
  BY DEF FreeRTOSInv
<1>3. CASE SuspendForQueue(t)
  <2>1. /\ kernel.current = t /\ pc[t] = "suspend" /\ kernel' = vTaskSuspendAll(kernel)
        /\ Goto(t, "lock") /\ local' = local /\ Aside
    BY <1>3 DEF SuspendForQueue, At, Aside
  <2>2. pc'[t] = "lock" /\ \A u \in Tasks : u # t => pc'[u] = pc[u]
    BY <2>1, Went
  <2>3. LabelOK(t)' /\ LifeOK(t)' /\ TimeOK(t)'
    BY <1>2, <2>1, <2>2 DEF TaskOK, LabelOK, LifeOK, TimeOK, Closing, Resumes, Aside
  <2> QED BY <1>1, <2>1, <2>2, <2>3, Suspends DEF Aside
<1>4. CASE IdleLook(t)
  <2>1. PICK next \in {"idle", "reclaim"} :
           /\ kernel.current = t /\ pc[t] = "idle" /\ kernel' = vTaskSuspendAll(kernel) /\ Aside
           /\ next = IF IsEmpty(kernel.termination) THEN "idle" ELSE "reclaim"
           /\ Goto(t, "resume") /\ Keep(t, [call |-> NoCall, then |-> next, mustYield |-> FALSE])
    BY <1>4 DEF IdleLook, ResumeThen, At, Aside
  <2>2. /\ pc'[t] = "resume" /\ local'[t] = [call |-> NoCall, then |-> next, mustYield |-> FALSE]
        /\ \A u \in Tasks : u # t => pc'[u] = pc[u] /\ local'[u] = local[u]
    BY <2>1, Went, Kept
  <2>3. KernelOK(kernel) /\ kernel.suspended = 0
    BY <2>1, Running DEF Suspending
  <2>4. \A u \in Tasks : Home(kernel', u) = Home(kernel, u)
    <3>1. kernel' = [kernel EXCEPT !.suspended = 1]
      BY <2>1, <2>3 DEF vTaskSuspendAll
    <3> QED BY <2>3, <3>1, SuspensionCounted DEF Stays
  <2>5. next = "reclaim" => \E u \in Tasks : Home(kernel', u) = "termination"
    BY <2>1, <2>3, <2>4, EmptyOrNot DEF KernelOK, KernelLists, Places
  <2>6. LabelOK(t)'
    BY <1>2, <2>1, <2>2 DEF TaskOK, LabelOK, Closing, Resumes
  <2>7. LifeOK(t)' /\ TimeOK(t)'
    BY <1>2, <2>1, <2>2, <2>5 DEF TaskOK, LifeOK, TimeOK, Closing, Resumes, Aside
  <2> QED BY <1>1, <2>1, <2>2, <2>6, <2>7, Suspends DEF Aside
<1>5. ASSUME NEW c \in Calls(t), SuspendAll(t, c) PROVE FreeRTOSInv' /\ SameTime(kernel, kernel') /\ Noticed
  <2>1. /\ kernel.current = t /\ pc[t] = "user" /\ kernel' = vTaskSuspendAll(kernel) /\ Aside
        /\ Goto(t, "held") /\ Keep(t, [call |-> NoCall, then |-> "user", mustYield |-> FALSE])
    BY <1>5 DEF SuspendAll, Calling, At, Aside
  <2>2. /\ pc'[t] = "held" /\ local'[t] = [call |-> NoCall, then |-> "user", mustYield |-> FALSE]
        /\ \A u \in Tasks : u # t => pc'[u] = pc[u] /\ local'[u] = local[u]
    BY <2>1, Went, Kept
  <2>3. LabelOK(t)' /\ LifeOK(t)' /\ TimeOK(t)'
    BY <1>2, <2>1, <2>2 DEF TaskOK, LabelOK, LifeOK, TimeOK, Closing, Resumes, Aside
  <2> QED BY <1>1, <2>1, <2>2, <2>3, Suspends DEF Aside
<1>6. ASSUME NEW c \in Calls(t), Allocate(t, c) PROVE FreeRTOSInv' /\ SameTime(kernel, kernel') /\ Noticed
  <2>1. PICK call \in {NoCall, c}, next \in {"user", "tcb", "add"} :
           /\ kernel.current = t /\ pc[t] \in {"user", "tcb"} /\ kernel' = vTaskSuspendAll(kernel)
           /\ plan' = plan /\ wakeTime' = wakeTime
           /\ Goto(t, "resume") /\ Keep(t, [call |-> call, then |-> next, mustYield |-> FALSE])
           /\ next # "user" => call = c
    <3>1. /\ kernel.current = t /\ pc[t] \in {"user", "tcb"} /\ kernel' = vTaskSuspendAll(kernel)
          /\ plan' = plan /\ wakeTime' = wakeTime
      BY <1>6 DEF Allocate, Calling, At
    <3>2. \/ ResumeThen(t, NoCall, "user", FALSE)
          \/ ResumeThen(t, c, "tcb", FALSE) \/ ResumeThen(t, c, "add", FALSE)
      BY <1>6 DEF Allocate
    <3> QED BY <3>1, <3>2 DEF ResumeThen
  <2>2. /\ pc'[t] = "resume" /\ local'[t] = [call |-> call, then |-> next, mustYield |-> FALSE]
        /\ \A u \in Tasks : u # t => pc'[u] = pc[u] /\ local'[u] = local[u]
    BY <2>1, Went, Kept
  <2>3. Creates(t, c)
    BY <1>2, <1>6, <2>1 DEF Allocate, Calling, At, TaskOK, LifeOK, Creates
  <2>4. c \in plan.calls[t] /\ c.op = "xTaskCreate" /\ pc'[c.target] = "none"
    <3>1. c.target \in Tasks
      BY <2>3, Planned DEF Creates, CallOK
    <3> QED BY <2>1, <2>2, <2>3, <3>1 DEF Creates
  <2>5. nextFree' \in 0 .. HeapSize
    <3>1. \E size \in {StackSize, TcbSize} : nextFree' = pvPortMalloc(size)
      BY <1>6 DEF Allocate
    <3> QED BY <1>1, <3>1 DEF pvPortMalloc
  <2>6. LabelOK(t)'
    BY <1>2, <2>1, <2>2 DEF TaskOK, LabelOK, Closing, Resumes
  <2>7. LifeOK(t)' /\ TimeOK(t)'
    BY <1>2, <2>1, <2>2, <2>4 DEF TaskOK, LifeOK, Creates, TimeOK, Closing, Resumes
  <2> QED BY <2>1, <2>2, <2>5, <2>6, <2>7, Suspends
<1> QED BY <1>3, <1>4, <1>5, <1>6

\* A running task goes to sleep, or finds that it need not, under a scheduler
\* that it has suspended.
LEMMA Sleeps ==
    ASSUME FreeRTOSInv, CallsInv, NEW t \in Tasks, kernel.current = t, pc[t] \in {"user", "place"},
           KernelOK(kernel'), kernel'.current = t, kernel'.suspended = 1, SameTime(kernel, kernel'),
           \A u \in Tasks : /\ kernel'.tcb[u].state = kernel.tcb[u].state
                            /\ kernel'.tcb[u].value = kernel.tcb[u].value
                            /\ u # t => /\ pc'[u] = pc[u] /\ local'[u] = local[u]
                                        /\ wakeTime'[u] = wakeTime[u]
                                        /\ Home(kernel', u) = Home(kernel, u)
                                        /\ Event(kernel', u) = Event(kernel, u),
           Home(kernel', t) \in Blocked \cup {"ready"},
           Event(kernel', t) \in {"none", ToSend, ToReceive},
           Event(kernel', t) # "none" => Home(kernel', t) \in Blocked,
           pc'[t] \in {"resume", "unlockTx"}, local'[t].mustYield, local'[t].then \in {"user", "try"},
           local'[t].then = "try" => Waits(local'[t].call),
           plan' = plan, nextFree' = nextFree, Over(wakeTime', Tasks), wakeTime'[t] \in Ticks
    PROVE  FreeRTOSInv'
<1>1. /\ KernelOK(kernel) /\ TaskOK(t) /\ Home(kernel, t) = "ready" /\ t # IdleTask
      /\ \A u \in Tasks : TaskOK(u)
  BY Running DEF Closing, Resumes, FreeRTOSInv
<1>2. Held' /\ kernel.tcb[t].state # eWaiting
  BY <1>1, WaitsForNothing DEF Held
<1>3. SuspensionInv' /\ CurrentInv'
  BY Stayed DEF Suspending, Closing, Resumes
<1>4. ASSUME NEW u \in Tasks, u # t PROVE Steady(u)
  BY <1>2, <1>4 DEF Steady
<1>5. NoneAppears /\ DeadStay
  BY <1>1 DEF NoneAppears, DeadStay
<1>6. HomeOK(t)' /\ EventOK(t)'
  BY <1>2 DEF HomeOK, EventOK, Blocked, ToSend, ToReceive
<1>7. LabelOK(t)' /\ LifeOK(t)' /\ TimeOK(t)'
  BY <1>1 DEF LabelOK, LifeOK, TimeOK, Closing, Resumes
<1>8. TaskOK(t)'
  BY <1>6, <1>7 DEF TaskOK
<1>9. kernel'.pended <= MaxPended /\ nextFree' \in 0 .. HeapSize
  BY DEF FreeRTOSInv, SameTime
<1> QED BY <1>3, <1>4, <1>5, <1>8, <1>9, InvKept, Planned

\* vTaskDelay and vTaskDelayUntil.
LEMMA DelaySteps ==
    ASSUME FreeRTOSInv, CallsInv, NEW t \in Tasks, NEW c \in Calls(t),
           vTaskDelay(t, c) \/ vTaskDelayUntil(t, c)
    PROVE  FreeRTOSInv' /\ SameTime(kernel, kernel') /\ Noticed
<1> DEFINE m == vTaskSuspendAll(kernel)
           awake == [call |-> NoCall, then |-> "user", mustYield |-> TRUE]
<1>1. kernel.current = t /\ pc[t] = "user" /\ c \in plan.calls[t]
  BY DEF vTaskDelay, vTaskDelayUntil, Calling, At
<1>2. /\ KernelOK(kernel) /\ kernel.suspended = 0 /\ t # IdleTask /\ Home(kernel, t) = "ready"
      /\ wakeTime[t] \in Ticks /\ Over(wakeTime, Tasks)
  BY <1>1, Running DEF Suspending, Closing, Resumes, FreeRTOSInv, TaskOK, TimeOK
<1>3. Event(kernel, t) = "none"
  BY <1>1, <1>2, WaitsForNothing
<1>4. m = [kernel EXCEPT !.suspended = 1]
  BY <1>2 DEF vTaskSuspendAll
<1>5. /\ KernelOK(m) /\ Stays(kernel, m) /\ m.current = t /\ m.suspended = 1
      /\ SameTime(kernel, m) /\ m.tcb = kernel.tcb /\ m.yieldPending = kernel.yieldPending
  BY <1>1, <1>2, <1>4, SuspensionCounted DEF SameTime
<1> HIDE DEF m
<1>6. ASSUME Goto(t, "resume"), Keep(t, awake), plan' = plan, nextFree' = nextFree,
             Over(wakeTime', Tasks), wakeTime'[t] \in Ticks,
             \A u \in Tasks : u # t => wakeTime'[u] = wakeTime[u],
             KernelOK(kernel'), SameRest(m, kernel'),
             \A u \in Tasks : /\ Event(kernel', u) = Event(m, u)
                              /\ u # t => Home(kernel', u) = Home(m, u),
             Home(kernel', t) \in Blocked \cup {"ready"}
      PROVE  FreeRTOSInv' /\ SameTime(kernel, kernel') /\ Noticed
  <2>1. /\ pc'[t] = "resume" /\ local'[t] = awake
        /\ \A u \in Tasks : u # t => pc'[u] = pc[u] /\ local'[u] = local[u]
    BY <1>6, Went, Kept
  <2>2. /\ kernel'.current = t /\ kernel'.suspended = 1 /\ SameTime(kernel, kernel')
        /\ \A u \in Tasks : /\ kernel'.tcb[u].state = kernel.tcb[u].state
                            /\ kernel'.tcb[u].value = kernel.tcb[u].value
                            /\ Event(kernel', u) = Event(kernel, u)
                            /\ u # t => Home(kernel', u) = Home(kernel, u)
    BY <1>5, <1>6 DEF SameRest, SameData, SameTime, Stays
  <2>3. Noticed
    BY <1>1, <1>2, <1>5, <1>6, NoticedByKernel DEF SameRest, SameData, Stays, Prio
  <2> QED BY <1>1, <1>3, <1>6, <2>1, <2>2, <2>3, Sleeps
<1>7. CASE vTaskDelay(t, c)
  <2>1. CASE c.ticks = 0
    BY <1>1, <1>7, <2>1, Switches DEF vTaskDelay, Aside
  <2>2. CASE c.ticks # 0
    <3>1. /\ kernel' = BlockFor(m, c.ticks) /\ Goto(t, "resume") /\ Keep(t, awake)
          /\ plan' = plan /\ nextFree' = nextFree /\ wakeTime' = wakeTime
      BY <1>7, <2>2 DEF vTaskDelay, ResumeThen, m
    <3>2. c.ticks \in Ticks
      BY <1>1, <1>7, Planned DEF CallOK, vTaskDelay, Calling
    <3>3. /\ KernelOK(kernel') /\ SameRest(m, kernel')
          /\ \A u \in Tasks :
                /\ IF u = t THEN Home(kernel', u) \in Blocked ELSE Home(kernel', u) = Home(m, u)
                /\ Event(kernel', u) = Event(m, u)
      BY <1>2, <1>5, <3>1, <3>2, SleptFor
    <3> QED BY <1>2, <1>6, <3>1, <3>3
  <2> QED BY <2>1, <2>2
<1>8. CASE vTaskDelayUntil(t, c)
  <2> DEFINE wake == Stored(wakeTime[t] + c.increment)
  <2>1. /\ kernel' = BlockUntil(m, wake) \/ kernel' = m
        /\ Goto(t, "resume") /\ Keep(t, awake) /\ plan' = plan /\ nextFree' = nextFree
        /\ wakeTime' = [wakeTime EXCEPT ![t] = wake]
    BY <1>8 DEF vTaskDelayUntil, ResumeThen, m
  <2>2. c.increment \in Ticks
    BY <1>1, <1>8, Planned DEF CallOK, vTaskDelayUntil, Calling
  <2>3. wake \in Ticks
    BY <1>2, <2>2, StoredIsTick
  <2> HIDE DEF wake
  <2>4. /\ Over(wakeTime', Tasks) /\ wakeTime'[t] \in Ticks
        /\ \A u \in Tasks : u # t => wakeTime'[u] = wakeTime[u]
    BY <1>2, <2>1, <2>3 DEF Over
  <2>5. CASE kernel' = m
    <3>1. SameRest(m, m)
      BY DEF SameRest, SameData
    <3> QED BY <1>2, <1>5, <1>6, <2>1, <2>4, <2>5, <3>1 DEF Stays
  <2>6. CASE kernel' = BlockUntil(m, wake)
    <3>1. /\ KernelOK(kernel') /\ SameRest(m, kernel')
          /\ \A u \in Tasks :
                /\ IF u = t THEN Home(kernel', u) \in Blocked ELSE Home(kernel', u) = Home(m, u)
                /\ Event(kernel', u) = Event(m, u)
      BY <1>2, <1>5, <2>3, <2>6, Slept
    <3> QED BY <1>6, <2>1, <2>4, <3>1
  <2> QED BY <2>1, <2>5, <2>6
<1> QED BY <1>7, <1>8

\* vTaskPlaceOnEventList.
LEMMA PlaceStep ==
    ASSUME FreeRTOSInv, CallsInv, NEW t \in Tasks, Place(t)
    PROVE  FreeRTOSInv' /\ SameTime(kernel, kernel') /\ Noticed
<1> DEFINE c == local[t]
           list == IF c.op = "xQueueSend" THEN ToSend ELSE ToReceive
<1>1. /\ kernel.current = t /\ pc[t] = "place" /\ Aside
      /\ kernel' = vTaskPlaceOnEventList(kernel, list, c.ticks)
      /\ Goto(t, "unlockTx") /\ Keep(t, [call |-> c, then |-> "try", mustYield |-> TRUE])
  BY DEF Place, At, Aside
<1>2. /\ KernelOK(kernel) /\ kernel.suspended = 1 /\ t # IdleTask /\ Home(kernel, t) = "ready"
      /\ wakeTime[t] \in Ticks /\ Over(wakeTime, Tasks) /\ Waits(c)
  BY <1>1, Running DEF Suspending, Closing, Resumes, FreeRTOSInv, TaskOK, TimeOK
<1>3. Event(kernel, t) = "none"
  BY <1>1, <1>2, WaitsForNothing
<1>4. list \in EventLists /\ list \in {ToSend, ToReceive}
  BY DEF EventLists, ToSend, ToReceive
<1> HIDE DEF list
<1>5. /\ KernelOK(kernel') /\ SameRest(kernel, kernel')
      /\ \A u \in Tasks :
            IF u = t THEN Home(kernel', u) \in Blocked /\ Event(kernel', u) = list
            ELSE Home(kernel', u) = Home(kernel, u) /\ Event(kernel', u) = Event(kernel, u)
  BY <1>1, <1>2, <1>3, <1>4, PlacedOnList DEF Waits
<1>6. /\ pc'[t] = "unlockTx" /\ local'[t] = [call |-> c, then |-> "try", mustYield |-> TRUE]
      /\ \A u \in Tasks : u # t => pc'[u] = pc[u] /\ local'[u] = local[u]
  BY <1>1, Went, Kept
<1>7. kernel'.current = t /\ kernel'.suspended = 1 /\ SameTime(kernel, kernel')
  BY <1>1, <1>2, <1>5 DEF SameRest, SameData, SameTime
<1>8. \A u \in Tasks : /\ kernel'.tcb[u].state = kernel.tcb[u].state
                         /\ kernel'.tcb[u].value = kernel.tcb[u].value
  BY <1>5 DEF SameRest, SameData
<1>9. Noticed
  BY <1>1, <1>2, <1>5, NoticedByKernel DEF SameRest, SameData
<1> HIDE DEF c
<1> QED BY <1>1, <1>2, <1>4, <1>5, <1>6, <1>7, <1>8, <1>9, Sleeps DEF Aside

-----------------------------------------------------------------------------
(* Steps that wake other tasks. *)

\* A running task wakes some of those that wait, itself among them if it is
\* about to sleep, and gives way where the scheduler runs.
LEMMA Wakens ==
    ASSUME FreeRTOSInv, CallsInv, NEW t \in Tasks, kernel.current = t,
           KernelOK(kernel'), WakesSome(kernel, kernel'),
           kernel'.current = t \/ (kernel.suspended = 0 /\ Home(kernel', kernel'.current) = "ready"),
           Aside, \A u \in Tasks : u # t => pc'[u] = pc[u] /\ local'[u] = local[u],
           \/ pc[t] \in {"user", "try"} /\ pc'[t] \in {"user", "suspend"}
           \/ pc[t] = "unlockTx" /\ pc'[t] = "unlockRx" /\ local'[t] = local[t]
           \/ pc[t] = "unlockRx" /\ pc'[t] = "resume" /\ local'[t] = local[t],
           TimeOK(t)'
    PROVE  FreeRTOSInv' /\ SameTime(kernel, kernel') /\ Noticed
<1>1. /\ KernelOK(kernel) /\ TaskOK(t) /\ \A u \in Tasks : TaskOK(u)
      /\ kernel.suspended = IF pc[t] \in {"unlockTx", "unlockRx"} THEN 1 ELSE 0
      /\ Home(kernel, t) # "nowhere"
      /\ pc[t] \in {"user", "try"} => Home(kernel, t) = "ready" /\ t # IdleTask
  BY Running DEF Suspending, Closing, Resumes, FreeRTOSInv
<1>2. pc[t] \in {"user", "try"} => Event(kernel, t) = "none" /\ kernel.tcb[t].state # eWaiting
  BY <1>1, WaitsForNothing
<1>3. /\ SameData(kernel, kernel') /\ pc[t] # "catchUp" /\ ~(pc[t] \in {"user", "try"} /\ Held)
      /\ pc[t] \in {"unlockTx", "unlockRx"} => Held'
  BY <1>1 DEF WakesSome, SameData, Held
<1>4. Home(kernel', t) = Home(kernel, t)
  BY <1>1, <1>2 DEF WakesSome, ToSend, ToReceive
<1>5. SuspensionInv' /\ CurrentInv'
  <2>1. CASE kernel'.current = t
    <3>1. kernel'.suspended = IF pc'[t] \in Suspending THEN 1 ELSE 0
      BY <1>1, <1>3 DEF SameData, Suspending
    <3>2. \/ Home(kernel', t) = "ready"
          \/ Home(kernel', t) \in Blocked /\ pc'[t] \in Closing /\ local'[t].mustYield
      BY <1>1, <1>4 DEF FreeRTOSInv, CurrentInv, Closing, Resumes
    <3> QED BY <2>1, <3>1, <3>2, Stayed
  <2>2. CASE kernel.suspended = 0 /\ Home(kernel', kernel'.current) = "ready"
    BY <1>1, <1>3, <2>2, GaveWay DEF SameData, Suspending
  <2> QED BY <2>1, <2>2
<1>6. ASSUME NEW u \in Tasks, u # t PROVE Steady(u)
  <2>1. EventOK(u)
    BY <1>1 DEF TaskOK
  <2>2. Event(kernel', u) = "xPendingReadyList" => Held'
    <3>1. CASE kernel.suspended = 0
      BY <1>1, <1>3, <2>1, <3>1 DEF WakesSome, EventOK, Held
    <3>2. CASE kernel.suspended # 0
      BY <1>1, <1>3, <3>2
    <3> QED BY <3>1, <3>2
  <2>3. Event(kernel, u) \in {ToSend, ToReceive} => Home(kernel, u) \in Blocked
    BY <2>1 DEF EventOK, ToSend, ToReceive
  <2> QED BY <1>3, <1>6, <2>2, <2>3 DEF Steady, WakesSome, SameData, Aside
<1>7. NoneAppears
  BY <1>1 DEF NoneAppears, TaskOK, HomeOK
<1>8. DeadStay
  <2>1. ASSUME NEW u \in Tasks, Home(kernel, u) = "termination" PROVE Home(kernel', u) = "termination"
    BY <1>1, <1>4, <1>6, <2>1 DEF Steady, Blocked
  <2> QED BY <2>1 DEF DeadStay
<1>9. HomeOK(t)'
  BY <1>1, <1>4 DEF TaskOK, HomeOK
<1>10. EventOK(t)'
  <2>1. CASE pc[t] \in {"user", "try"}
    BY <1>1, <1>2, <1>3, <2>1 DEF EventOK, WakesSome, SameData, ToSend, ToReceive
  <2>2. CASE pc[t] \in {"unlockTx", "unlockRx"}
    BY <1>1, <1>3, <1>4, <2>2 DEF TaskOK, EventOK, WakesSome, SameData, Blocked, ToSend, ToReceive
  <2> QED BY <2>1, <2>2
<1>11. LabelOK(t)' /\ LifeOK(t)'
  BY <1>1 DEF TaskOK, LabelOK, LifeOK, Closing, Resumes
<1>12. TaskOK(t)'
  BY <1>9, <1>10, <1>11 DEF TaskOK
<1>13. kernel'.pended <= MaxPended
  BY <1>3 DEF SameData, FreeRTOSInv
<1>14. Noticed
  BY NoticedByKernel DEF WakesSome
<1> QED BY <1>3, <1>5, <1>6, <1>7, <1>8, <1>12, <1>13, <1>14, AsideKept DEF SameData, SameTime

\* The critical section each call on the queue begins with, and xQueueReset.
LEMMA QueueSteps ==
    ASSUME FreeRTOSInv, CallsInv, NEW t \in Tasks, NEW c \in Calls(t),
           TrySend(t, c) \/ TryReceive(t, c) \/ Reset(t, c)
    PROVE  FreeRTOSInv' /\ SameTime(kernel, kernel') /\ Noticed
<1>1. KernelOK(kernel) /\ TaskOK(t) /\ KernelShape(kernel)
  BY DEF FreeRTOSInv, KernelOK
<1>2. WakesSome(kernel, kernel)
  BY WakesNone
<1>3. \A list \in {ToSend, ToReceive} :
          LET l == WakeAndYield(kernel, list)
          IN  /\ KernelOK(l) /\ WakesSome(kernel, l)
              /\ l.current = kernel.current \/ (kernel.suspended = 0 /\ Home(l, l.current) = "ready")
  BY <1>1, WokenAndYielded
<1>4. CASE Reset(t, c)
  <2>1. /\ kernel.current = t /\ pc[t] = "user" /\ Aside /\ pc' = pc /\ local' = local
        /\ kernel' = WakeAndYield(kernel, ToSend)
    BY <1>4 DEF Reset, Calling, At, Aside, xQueueReset
  <2>2. TimeOK(t)'
    BY <1>1, <2>1 DEF TaskOK, TimeOK, Aside, Closing, Resumes
  <2> QED BY <1>3, <2>1, <2>2, Wakens
<1>5. ASSUME NEW possible, NEW done, TryQueue(t, c, possible, done),
             c.op \in {"xQueueSend", "xQueueReceive"},
             \E list \in {ToSend, ToReceive} : done.kernel = WakeAndYield(kernel, list)
      PROVE  FreeRTOSInv' /\ SameTime(kernel, kernel') /\ Noticed
  <2>1. /\ kernel.current = t /\ pc[t] \in {"user", "try"} /\ Aside
        /\ pc[t] = "user" => c \in plan.calls[t]
        /\ pc[t] = "try" => c = local[t]
    BY <1>5 DEF TryQueue, Calling, At, Aside
  <2>2. /\ {"ticks", "timeOut"} \subseteq DOMAIN c /\ c.ticks \in Ticks
        /\ c.timeOut = NoTimeOut \/ Waits(c)
    BY <1>1, <1>5, <2>1, Planned DEF CallOK, TaskOK, TimeOK, Waits
  <2>3. /\ KernelOK(kernel') /\ WakesSome(kernel, kernel')
        /\ kernel'.current = t \/ (kernel.suspended = 0 /\ Home(kernel', kernel'.current) = "ready")
    BY <1>1, <1>2, <1>3, <1>5, <2>1 DEF TryQueue
  <2>4. CASE Return(t)
    <3>1. /\ pc'[t] = "user" /\ \A u \in Tasks : u # t => pc'[u] = pc[u] /\ local'[u] = local[u]
      BY <2>4, Went, Kept DEF Return, Keep
    <3>2. TimeOK(t)'
      BY <1>1, <2>1, <3>1 DEF TaskOK, TimeOK, Aside, Closing, Resumes
    <3> QED BY <2>1, <2>3, <3>1, <3>2, Wakens
  <2>5. ASSUME NEW call, Goto(t, "suspend"), Keep(t, call), Waits(call)
        PROVE  FreeRTOSInv' /\ SameTime(kernel, kernel') /\ Noticed
    <3>1. /\ pc'[t] = "suspend" /\ local'[t] = call
          /\ \A u \in Tasks : u # t => pc'[u] = pc[u] /\ local'[u] = local[u]
      BY <2>5, Went, Kept
    <3>2. TimeOK(t)'
      BY <1>1, <2>1, <2>5, <3>1 DEF TaskOK, TimeOK, Waits, Aside, Closing, Resumes
    <3> QED BY <2>1, <2>3, <3>1, <3>2, Wakens
  <2>6. Waits(IF c.timeOut = NoTimeOut THEN [c EXCEPT !.timeOut = vTaskSetTimeOutState(kernel)] ELSE c)
    <3>1. CASE c.timeOut = NoTimeOut
      <4> DEFINE now == vTaskSetTimeOutState(kernel)
      <4>1. now.entry \in Ticks
        BY <1>1 DEF KernelShape, vTaskSetTimeOutState
      <4> HIDE DEF now
      <4>2. [c EXCEPT !.timeOut = now].timeOut = now /\ [c EXCEPT !.timeOut = now].ticks = c.ticks
            /\ DOMAIN [c EXCEPT !.timeOut = now] = DOMAIN c
        BY <2>2
      <4>3. Waits([c EXCEPT !.timeOut = now])
        BY <2>2, <4>1, <4>2 DEF Waits
      <4> QED BY <3>1, <4>3 DEF now
    <3>2. CASE c.timeOut # NoTimeOut
      BY <2>2, <3>2
    <3> QED BY <3>1, <3>2
  <2> QED BY <1>5, <2>4, <2>5, <2>6 DEF TryQueue
<1>6. CASE TrySend(t, c)
  BY <1>5, <1>6 DEF TrySend, SendItem
<1>7. CASE TryReceive(t, c)
  BY <1>5, <1>7 DEF TryReceive, PeekItem, ReceiveItem
<1> QED BY <1>4, <1>6, <1>7

\* A running task that only looks, under a scheduler that it has suspended.
LEMMA Looks ==
    ASSUME FreeRTOSInv, CallsInv, NEW t \in Tasks, kernel.current = t, pc[t] \in {"lock", "test"},
           pc'[t] \in {"test", "place", "unlockTx"}, kernel' = kernel, Aside,
           \A u \in Tasks : u # t => pc'[u] = pc[u] /\ local'[u] = local[u],
           pc'[t] = "unlockTx" => local'[t].then \in {"user", "try"},
           TimeOK(t)'
    PROVE  FreeRTOSInv' /\ SameTime(kernel, kernel') /\ Noticed
<1>1. /\ KernelOK(kernel) /\ TaskOK(t) /\ kernel.suspended = 1 /\ Home(kernel, t) = "ready"
      /\ t # IdleTask
  BY Running DEF Suspending, Closing, Resumes
<1>2. Event(kernel, t) = "none" /\ kernel.tcb[t].state # eWaiting
  BY <1>1, WaitsForNothing
<1>3. SuspensionInv' /\ CurrentInv'
  BY <1>1, Stayed DEF Suspending
<1>4. Held'
  BY <1>1 DEF Held
<1>5. ASSUME NEW u \in Tasks, u # t PROVE Steady(u)
  BY <1>4, <1>5 DEF Steady, Aside
<1>6. NoneAppears /\ DeadStay
  BY DEF NoneAppears, DeadStay
<1>7. HomeOK(t)' /\ EventOK(t)'
  BY <1>1, <1>2 DEF TaskOK, HomeOK, EventOK
<1>8. LabelOK(t)' /\ LifeOK(t)'
  BY <1>1 DEF LabelOK, LifeOK, Closing, Resumes
<1>9. TaskOK(t)'
  BY <1>7, <1>8 DEF TaskOK
<1>10. kernel'.pended <= MaxPended
  BY DEF FreeRTOSInv
<1>11. Noticed
  BY NoticedByKernel
<1> QED BY <1>1, <1>3, <1>5, <1>6, <1>9, <1>10, <1>11, AsideKept DEF SameTime

\* prvLockQueue, and the test under the lock.
LEMMA TestSteps ==
    ASSUME FreeRTOSInv, CallsInv, NEW t \in Tasks, Lock(t) \/ Test(t)
    PROVE  FreeRTOSInv' /\ SameTime(kernel, kernel') /\ Noticed
<1>1. TaskOK(t) /\ kernel.tick \in Ticks
  BY DEF FreeRTOSInv, KernelOK, KernelShape
<1>2. CASE Lock(t)
  <2>1. /\ kernel.current = t /\ pc[t] = "lock" /\ kernel' = kernel /\ Goto(t, "test")
        /\ local' = local /\ Aside
    BY <1>2 DEF Lock, At, Aside
  <2>2. pc'[t] = "test" /\ \A u \in Tasks : u # t => pc'[u] = pc[u]
    BY <2>1, Went
  <2>3. TimeOK(t)'
    BY <1>1, <2>1, <2>2 DEF TaskOK, TimeOK, Aside, Closing, Resumes
  <2> QED BY <2>1, <2>2, <2>3, Looks
<1>3. CASE Test(t)
  <2> DEFINE c == local[t]
             waited == xTaskCheckForTimeOut(kernel, c.timeOut, c.ticks)
             call == [c EXCEPT !.timeOut = waited.timeOut, !.ticks = waited.ticks]
             done == [call |-> NoCall, then |-> "user", mustYield |-> FALSE]
             again == [call |-> call, then |-> "try", mustYield |-> FALSE]
  <2>1. /\ kernel.current = t /\ pc[t] = "test" /\ kernel' = kernel /\ Aside
        /\ \/ Goto(t, "unlockTx") /\ Keep(t, done)
           \/ Goto(t, "place") /\ Keep(t, call) /\ ~waited.expired
           \/ Goto(t, "unlockTx") /\ Keep(t, again) /\ ~waited.expired
    BY <1>3 DEF Test, At, Aside
  <2>2. Waits(c)
    BY <1>1, <2>1 DEF TaskOK, TimeOK
  <2>3. ~waited.expired => waited.ticks \in Ticks /\ waited.timeOut.entry \in Ticks
    <3>1. ASSUME ~waited.expired PROVE waited.ticks \in Ticks
      <4>1. /\ waited.ticks = Remaining(kernel.tick, c.timeOut.entry, c.ticks)
            /\ ~(kernel.tick - c.timeOut.entry >= c.ticks)
        BY <3>1 DEF xTaskCheckForTimeOut, Expired
      <4> QED BY <1>1, <2>2, <4>1, TimeAssumption DEF Waits, Remaining, Stored, Ticks
    <3>2. ASSUME ~waited.expired PROVE waited.timeOut.entry \in Ticks
      BY <1>1, <3>2 DEF xTaskCheckForTimeOut, vTaskSetTimeOutState
    <3> QED BY <3>1, <3>2
  <2> HIDE DEF waited
  <2>4. ~waited.expired => Waits(call)
    BY <2>2, <2>3 DEF Waits
  <2> HIDE DEF call
  <2>5. /\ \/ pc'[t] = "unlockTx" /\ local'[t] = done
           \/ pc'[t] = "place" /\ local'[t] = call /\ ~waited.expired
           \/ pc'[t] = "unlockTx" /\ local'[t] = again /\ ~waited.expired
        /\ \A u \in Tasks : u # t => pc'[u] = pc[u] /\ local'[u] = local[u]
    BY <2>1, Went, Kept
  <2>6. TimeOK(t)'
    BY <1>1, <2>1, <2>4, <2>5 DEF TaskOK, TimeOK, Aside, Closing, Resumes
  <2> QED BY <2>1, <2>5, <2>6, Looks
<1> QED BY <1>2, <1>3

\* prvUnlockQueue.
LEMMA UnlockStep ==
    ASSUME FreeRTOSInv, CallsInv, NEW t \in Tasks, Unlock(t),
           queue.txLock \in Int, queue.rxLock \in Int
    PROVE  FreeRTOSInv' /\ SameTime(kernel, kernel') /\ Noticed
<1>1. KernelOK(kernel) /\ TaskOK(t)
  BY DEF FreeRTOSInv
<1>2. \/ kernel' = WakeWaiting(kernel, ToReceive, queue.txLock)
      \/ kernel' = WakeWaiting(kernel, ToSend, queue.rxLock)
  BY DEF Unlock, UnlockTx, UnlockRx
<1>3. /\ KernelOK(kernel') /\ WakesSome(kernel, kernel') /\ kernel'.current = kernel.current
  BY <1>1, <1>2, WaitingWoken
<1>4. /\ kernel.current = t /\ Aside /\ local' = local
      /\ \/ pc[t] = "unlockTx" /\ Goto(t, "unlockRx")
         \/ pc[t] = "unlockRx" /\ Goto(t, "resume")
  BY DEF Unlock, At, Aside
<1>5. /\ \/ pc[t] = "unlockTx" /\ pc'[t] = "unlockRx"
         \/ pc[t] = "unlockRx" /\ pc'[t] = "resume"
      /\ \A u \in Tasks : u # t => pc'[u] = pc[u]
  BY <1>4, Went
<1>6. TimeOK(t)'
  BY <1>1, <1>4, <1>5 DEF TaskOK, TimeOK, Aside, Closing, Resumes
<1> QED BY <1>3, <1>4, <1>5, <1>6, Wakens

-----------------------------------------------------------------------------
(* Interrupts, and notifications: no call goes on. *)

\* Tasks are woken or notified while interrupts are enabled.
LEMMA Interrupted ==
    ASSUME FreeRTOSInv, CallsInv, InterruptsEnabled, KernelOK(kernel'), Aside, pc' = pc, local' = local,
           kernel'.pended <= MaxPended, \A u \in Tasks : Steady(u),
           kernel'.suspended = kernel.suspended,
           \/ kernel'.current = kernel.current
           \/ kernel.suspended = 0 /\ Home(kernel', kernel'.current) = "ready"
    PROVE  FreeRTOSInv'
<1>0. PICK t \in Tasks : kernel.current = t
  BY DEF FreeRTOSInv, KernelOK, KernelShape
<1>1. /\ KernelOK(kernel) /\ pc[t] # "catchUp"
      /\ kernel.suspended = IF pc[t] \in Suspending THEN 1 ELSE 0
      /\ SuspensionInv /\ CurrentInv
  BY <1>0 DEF FreeRTOSInv, SuspensionInv, InterruptsEnabled
<1>2. SuspensionInv' /\ CurrentInv'
  <2>1. CASE kernel'.current = kernel.current
    <3>1. \/ Home(kernel', t) = Home(kernel, t)
          \/ Home(kernel, t) \in Blocked /\ Home(kernel', t) \in Blocked
          \/ Home(kernel', t) = "ready"
      BY DEF Steady
    <3>2. \/ Home(kernel', t) = "ready"
          \/ Home(kernel', t) \in Blocked /\ pc'[t] = "yield"
          \/ Home(kernel', t) \in Blocked /\ pc'[t] \in Closing /\ local'[t].mustYield
          \/ Home(kernel', t) = "termination" /\ pc'[t] = "yield"
      BY <1>0, <1>1, <3>1 DEF CurrentInv, Blocked
    <3> QED BY <1>0, <1>1, <2>1, <3>2, Stayed
  <2>2. CASE kernel.suspended = 0 /\ Home(kernel', kernel'.current) = "ready"
    BY <1>0, <1>1, <2>2, GaveWay
  <2> QED BY <2>1, <2>2
<1>3. NoneAppears
  BY DEF NoneAppears
<1>4. DeadStay
  BY DEF DeadStay, Steady, Blocked
<1>5. TaskOK(t)'
  BY <1>1, <1>3, <1>4, SteadyKept, CreatesKept DEF Aside
<1> QED BY <1>1, <1>2, <1>3, <1>4, <1>5, AsideKept

\* A handler that leaves uxSchedulerSuspended as it is keeps the pending ready
\* list justified.
LEMMA HeldKept ==
    ASSUME FreeRTOSInv, InterruptsEnabled, kernel'.suspended = kernel.suspended,
           NEW u \in Tasks, Event(kernel, u) = "xPendingReadyList"
    PROVE  Held'
<1>1. Held
  BY DEF FreeRTOSInv, TaskOK, EventOK
<1> QED BY <1>1 DEF Held, InterruptsEnabled

\* The handler of the tick interrupt.
LEMMA TickStep ==
    ASSUME FreeRTOSInv, CallsInv, Tick
    PROVE  /\ FreeRTOSInv' /\ Prompt(kernel, kernel')
           /\ IF kernel.suspended # 0
              THEN /\ kernel'.pended = kernel.pended + 1
                   /\ kernel'.tick = kernel.tick /\ kernel'.overflows = kernel.overflows
              ELSE /\ kernel'.pended = kernel.pended /\ kernel'.tick = Stored(kernel.tick + 1)
                   /\ kernel'.overflows = Overflowed(kernel, kernel'.tick)
<1>1. /\ InterruptsEnabled /\ kernel' = vPortYieldFromTick(kernel) /\ Aside /\ pc' = pc /\ local' = local
      /\ kernel.suspended # 0 => kernel.pended < MaxPended
  BY DEF Tick, Aside
<1>2. KernelOK(kernel) /\ kernel.pended \in Nat /\ kernel.pended <= MaxPended /\ MaxPended \in Nat
  BY BoundAssumption DEF FreeRTOSInv, KernelOK, KernelShape
<1>3. /\ KernelOK(kernel') /\ Passes(kernel, kernel') /\ kernel'.suspended = kernel.suspended
      /\ Prompt(kernel, kernel')
      /\ IF kernel.suspended # 0
         THEN /\ kernel'.current = kernel.current /\ kernel'.tick = kernel.tick
              /\ kernel'.pended = kernel.pended + 1 /\ kernel'.overflows = kernel.overflows
         ELSE /\ kernel'.current = kernel.current \/ Home(kernel', kernel'.current) = "ready"
              /\ kernel'.tick = Stored(kernel.tick + 1) /\ kernel'.pended = kernel.pended
              /\ kernel'.overflows = Overflowed(kernel, kernel'.tick)
  BY <1>1, <1>2, TickHandled DEF Overflowed
<1>4. ASSUME NEW u \in Tasks PROVE Steady(u)
  <2>1. Event(kernel', u) = "xPendingReadyList" => Held'
    BY <1>1, <1>3, HeldKept DEF Passes
  <2> QED BY <1>1, <1>3, <2>1 DEF Steady, Passes, Aside
<1>5. kernel'.pended <= MaxPended
  BY <1>1, <1>2, <1>3
<1> QED BY <1>1, <1>3, <1>4, <1>5, Interrupted

\* The value a notification leaves is a number.
LEMMA NotifiedValueIsNat ==
    ASSUME NEW tcb \in TCBs, NEW action,
           action \in {"eIncrement", "eSetValueWithOverwrite", "eSetValueWithoutOverwrite", "eNoAction"}
    PROVE  NotifiedValue(tcb, action) \in Nat
<1>1. tcb.value \in Nat
  BY DEF TCBs
<1> QED BY <1>1 DEF NotifiedValue

\* A notified task: it is alive.
LEMMA Notifies ==
    ASSUME FreeRTOSInv, CallsInv, InterruptsEnabled, NEW v \in Tasks, Alive(v),
           KernelOK(kernel'), SameClock(kernel, kernel'), StatesBut(kernel, kernel', v),
           kernel'.tcb[v].state = eNotified, Aside, pc' = pc, local' = local,
           \/ kernel'.current = kernel.current
           \/ kernel.suspended = 0 /\ Home(kernel', kernel'.current) = "ready",
           \A u \in Tasks :
              IF u = v /\ kernel.tcb[v].state = eWaiting
              THEN \/ Home(kernel', u) = "ready" /\ Event(kernel', u) = Event(kernel, u)
                   \/ /\ kernel.suspended # 0 /\ Home(kernel', u) = Home(kernel, u)
                      /\ Event(kernel', u) = "xPendingReadyList"
              ELSE Home(kernel', u) = Home(kernel, u) /\ Event(kernel', u) = Event(kernel, u)
    PROVE  FreeRTOSInv' /\ SameTime(kernel, kernel')
<1>1. /\ TaskOK(v) /\ pc[v] # "none" /\ Home(kernel, v) # "termination"
      /\ kernel'.suspended = kernel.suspended /\ kernel'.pended = kernel.pended
  BY DEF FreeRTOSInv, Alive, SameClock, KernelOK, Places
<1>2. ASSUME kernel.tcb[v].state = eWaiting
      PROVE  /\ pc[v] = "collect" /\ Event(kernel, v) = "none"
             /\ Home(kernel, v) \in Blocked \cup {"ready"}
  <2>1. pc[v] = "collect" /\ Event(kernel, v) = "none"
    BY <1>1, <1>2 DEF TaskOK, HomeOK, EventOK
  <2> QED BY <1>1, <2>1 DEF TaskOK, HomeOK, Home, Blocked
<1>3. ASSUME NEW u \in Tasks PROVE Steady(u)
  <2>1. Event(kernel', u) = "xPendingReadyList" => Held'
    BY <1>1, <1>2, HeldKept DEF Held
  <2>2. kernel'.tcb[u].state \in {kernel.tcb[u].state, eNotified}
    BY DEF StatesBut
  <2>3. Home(kernel', u) \in Blocked /\ Event(kernel', u) # "xPendingReadyList" =>
              \/ kernel.tcb[u].state # eWaiting
              \/ /\ kernel'.tcb[u].state = kernel.tcb[u].state
                 /\ kernel'.tcb[u].value = kernel.tcb[u].value
    BY DEF StatesBut, Blocked
  <2> QED BY <1>2, <2>1, <2>2, <2>3 DEF Steady, Aside
<1>4. kernel'.pended <= MaxPended
  BY <1>1 DEF FreeRTOSInv
<1> QED BY <1>1, <1>3, <1>4, Interrupted DEF SameClock, SameTime

\* xTaskGenericNotify.
LEMMA NotifyStep ==
    ASSUME FreeRTOSInv, CallsInv, NEW t \in Tasks, NEW c \in Calls(t), SendNotification(t, c)
    PROVE  FreeRTOSInv' /\ SameTime(kernel, kernel') /\ Noticed
<1> DEFINE value == NotifiedValue(kernel.tcb[c.target], c.action)
<1>1. /\ kernel.current = t /\ pc[t] \in {"user", "held"} /\ c \in plan.calls[t] /\ c.op = "xTaskNotify"
      /\ Alive(c.target) /\ kernel' = xTaskGenericNotify(kernel, c.target, value)
      /\ Aside /\ pc' = pc /\ local' = local
  BY DEF SendNotification, At, Aside
<1>2. KernelOK(kernel) /\ kernel.tcb \in [Tasks -> TCBs] /\ InterruptsEnabled
  BY <1>1 DEF FreeRTOSInv, KernelOK, KernelShape, InterruptsEnabled
<1>3. c.target \in Tasks /\ value \in Nat
  BY <1>1, <1>2, Planned, NotifiedValueIsNat DEF CallOK
<1> HIDE DEF value
<1>4. /\ KernelOK(kernel') /\ SameClock(kernel, kernel') /\ StatesBut(kernel, kernel', c.target)
      /\ kernel'.current = kernel.current \/ (kernel.suspended = 0 /\ Home(kernel', kernel'.current) = "ready")
      /\ kernel'.tcb[c.target].state = eNotified /\ Prompt(kernel, kernel')
      /\ \A u \in Tasks :
           /\ Home(kernel', u) = IF u = c.target /\ kernel.tcb[c.target].state = eWaiting THEN "ready"
                                 ELSE Home(kernel, u)
           /\ Event(kernel', u) = Event(kernel, u)
  BY <1>1, <1>2, <1>3, TaskNotified
<1>5. Noticed
  BY <1>1, <1>4, NoticedByKernel
<1> QED BY <1>1, <1>2, <1>3, <1>4, <1>5, Notifies

\* What xTaskGenericNotifyFromISR has made ready may be passed over.
NoticedBut(irq) ==
    \A u \in Tasks : Overlooked(kernel', u) =>
        \/ Overlooked(kernel, u) /\ kernel'.current = kernel.current
        \/ irq.op = "xTaskNotifyFromISR" /\ u = irq.target

\* The handlers of an application.
LEMMA InterruptStep ==
    ASSUME FreeRTOSInv, CallsInv, NEW irq \in plan.irqs, Interrupt(irq)
    PROVE  FreeRTOSInv' /\ SameTime(kernel, kernel') /\ NoticedBut(irq)
<1>1. InterruptsEnabled /\ Aside /\ pc' = pc /\ local' = local
  BY DEF Interrupt, Aside
<1>2. KernelOK(kernel) /\ kernel.tcb \in [Tasks -> TCBs]
  BY DEF FreeRTOSInv, KernelOK, KernelShape
<1>3. ASSUME NEW list \in {ToSend, ToReceive}, NEW lock, kernel' = WakeFromISR(kernel, list, lock)
      PROVE  FreeRTOSInv' /\ SameTime(kernel, kernel') /\ NoticedBut(irq)
  <2>1. KernelOK(kernel') /\ WakesSome(kernel, kernel') /\ kernel'.current = kernel.current
    BY <1>2, <1>3, WokenFromISR
  <2>2. SameData(kernel, kernel')
    BY <2>1 DEF WakesSome
  <2>3. ASSUME NEW u \in Tasks PROVE Steady(u)
    <3>1. Event(kernel', u) = "xPendingReadyList" => Held'
      BY <1>1, <2>1, <2>2, HeldKept DEF WakesSome, SameData, Held
    <3>2. Event(kernel, u) \in {ToSend, ToReceive} => Home(kernel, u) \in Blocked
      BY DEF FreeRTOSInv, TaskOK, EventOK, ToSend, ToReceive
    <3> QED BY <1>1, <2>1, <2>2, <3>1, <3>2 DEF Steady, WakesSome, SameData, Aside
  <2>4. kernel'.pended <= MaxPended
    BY <2>2 DEF SameData, FreeRTOSInv
  <2>5. NoticedBut(irq)
    BY <1>1, <2>1 DEF NoticedBut, WakesSome, Prompt
  <2> QED BY <1>1, <2>1, <2>2, <2>3, <2>4, <2>5, Interrupted DEF SameData, SameTime
<1>4. CASE irq.op = "xQueueSendFromISR"
  BY <1>3, <1>4 DEF Interrupt, SendFromISR
<1>5. CASE irq.op = "xQueueReceiveFromISR"
  BY <1>3, <1>5 DEF Interrupt, ReceiveFromISR
<1>6. CASE irq.op = "xTaskNotifyFromISR"
  <2> DEFINE value == NotifiedValue(kernel.tcb[irq.target], irq.action)
  <2>1. Alive(irq.target) /\ kernel' = xTaskGenericNotifyFromISR(kernel, irq.target, value)
    BY <1>6 DEF Interrupt
  <2>2. irq.target \in Tasks /\ value \in Nat
    BY <1>2, <1>6, Planned, NotifiedValueIsNat DEF CallOK
  <2> HIDE DEF value
  <2>3. kernel.tcb[irq.target].state = eWaiting => Event(kernel, irq.target) = "none"
    <3>1. TaskOK(irq.target) /\ pc[irq.target] # "none" /\ Home(kernel, irq.target) # "termination"
      BY <2>1, <2>2 DEF FreeRTOSInv, Alive, KernelOK, Places
    <3> QED BY <3>1 DEF TaskOK, HomeOK, EventOK
  <2>4. /\ KernelOK(kernel') /\ SameClock(kernel, kernel') /\ StatesBut(kernel, kernel', irq.target)
        /\ kernel'.current = kernel.current /\ kernel'.tcb[irq.target].state = eNotified
        /\ kernel'.yieldPending = kernel.yieldPending
        /\ \A u \in Tasks :
             /\ Home(kernel', u) = IF u = irq.target /\ kernel.tcb[irq.target].state = eWaiting
                                      /\ kernel.suspended = 0
                                   THEN "ready" ELSE Home(kernel, u)
             /\ Event(kernel', u) = IF u = irq.target /\ kernel.tcb[irq.target].state = eWaiting
                                       /\ kernel.suspended # 0
                                    THEN "xPendingReadyList" ELSE Event(kernel, u)
    BY <1>2, <2>1, <2>2, <2>3, NotifiedFromISR
  <2>5. NoticedBut(irq)
    BY <1>2, <1>6, <2>2, <2>4 DEF NoticedBut, Overlooked, Above, StatesBut, KernelOK, KernelShape
  <2> QED BY <1>1, <2>1, <2>2, <2>4, <2>5, Notifies
<1> QED BY <1>4, <1>5, <1>6 DEF Interrupt

\* The first section of ulTaskNotifyTake and of xTaskNotifyWait: the task
\* sleeps, unless it has what it wants.
LEMMA AwaitStep ==
    ASSUME FreeRTOSInv, CallsInv, NEW t \in Tasks, NEW c \in Calls(t), AwaitNotify(t, c)
    PROVE  FreeRTOSInv' /\ SameTime(kernel, kernel') /\ Noticed
<1>1. /\ kernel.current = t /\ pc[t] = "user" /\ Aside /\ Goto(t, "collect") /\ Keep(t, c)
      /\ c \in plan.calls[t] /\ c.op \in {"ulTaskNotifyTake", "xTaskNotifyWait"}
  BY DEF AwaitNotify, Calling, At, Aside
<1>2. /\ KernelOK(kernel) /\ TaskOK(t) /\ kernel.suspended = 0 /\ t # IdleTask
      /\ Home(kernel, t) = "ready" /\ \A u \in Tasks : TaskOK(u)
      /\ kernel.tcb[t].value \in Nat
  BY <1>1, Running DEF Suspending, Closing, Resumes, FreeRTOSInv, KernelOK, KernelShape, TCBs
<1>3. Event(kernel, t) = "none" /\ ~Held
  BY <1>1, <1>2, WaitsForNothing DEF Held
<1>4. c.ticks \in Ticks
  BY <1>1, Planned DEF CallOK
<1>5. PICK satisfied \in BOOLEAN, cleared \in Nat :
         /\ kernel' = AwaitNotification(kernel, satisfied, cleared, c.ticks)
         /\ c.op = "ulTaskNotifyTake" /\ ~satisfied => cleared = 0
  <2>1. CASE c.op = "ulTaskNotifyTake"
    <3>1. kernel' = AwaitNotification(kernel, kernel.tcb[t].value # 0, kernel.tcb[t].value, c.ticks)
      BY <2>1 DEF AwaitNotify, Calling
    <3>2. (kernel.tcb[t].value # 0) \in BOOLEAN
      OBVIOUS
    <3> QED BY <1>2, <3>1, <3>2, Zenon
  <2>2. CASE c.op = "xTaskNotifyWait"
    <3> DEFINE cleared == IF c.clearOnEntry THEN 0 ELSE kernel.tcb[t].value
    <3>1. kernel' = AwaitNotification(kernel, kernel.tcb[t].state = eNotified, cleared, c.ticks)
      BY <2>2 DEF AwaitNotify, Calling
    <3>2. (kernel.tcb[t].state = eNotified) \in BOOLEAN /\ cleared \in Nat
      BY <1>2
    <3> QED BY <2>2, <3>1, <3>2
  <2> QED BY <1>1, <2>1, <2>2
<1>6. /\ KernelOK(kernel') /\ SameClock(kernel, kernel') /\ StatesBut(kernel, kernel', t)
      /\ Prompt(kernel, kernel')
      /\ kernel'.current = t \/ Home(kernel', kernel'.current) = "ready"
      /\ \/ Home(kernel', t) = Home(kernel, t)
         \/ /\ Home(kernel', t) \in Blocked /\ Home(kernel', kernel'.current) = "ready" /\ ~satisfied
            /\ kernel'.tcb[t].state = eWaiting /\ kernel'.tcb[t].value = cleared
      /\ \A u \in Tasks : /\ u # t => Home(kernel', u) = Home(kernel, u)
                          /\ Event(kernel', u) = Event(kernel, u)
  BY <1>1, <1>2, <1>4, <1>5, Awaited
<1>7. /\ pc'[t] = "collect" /\ local'[t] = c
      /\ \A u \in Tasks : u # t => pc'[u] = pc[u] /\ local'[u] = local[u]
  BY <1>1, Went, Kept
<1>8. SuspensionInv' /\ CurrentInv'
  <2>1. Home(kernel', kernel'.current) = "ready"
    BY <1>2, <1>6
  <2> QED BY <1>1, <1>2, <1>6, <1>7, <2>1, GaveWay DEF SameClock, Suspending
<1>9. ASSUME NEW u \in Tasks, u # t PROVE Steady(u)
  BY <1>2, <1>3, <1>6, <1>7, <1>1, <1>9 DEF Steady, StatesBut, TaskOK, EventOK, Aside
<1>10. NoneAppears /\ DeadStay
  BY <1>1, <1>2, <1>6, <1>7 DEF NoneAppears, DeadStay
<1>11. TaskOK(t)'
  <2>1. HomeOK(t)' /\ EventOK(t)'
    BY <1>2, <1>3, <1>5, <1>6, <1>7 DEF HomeOK, EventOK, Blocked
  <2>2. LabelOK(t)' /\ LifeOK(t)' /\ TimeOK(t)'
    BY <1>1, <1>2, <1>7 DEF TaskOK, LabelOK, LifeOK, TimeOK, Closing, Resumes, Aside
  <2> QED BY <2>1, <2>2 DEF TaskOK
<1>12. kernel'.pended <= MaxPended
  BY <1>6 DEF SameClock, FreeRTOSInv
<1>13. Noticed
  BY <1>1, <1>6, NoticedByKernel
<1> QED BY <1>1, <1>6, <1>8, <1>9, <1>10, <1>11, <1>12, <1>13, AsideKept DEF SameClock, SameTime

\* The second section: the task has been woken, by a notification or in time.
LEMMA CollectStep ==
    ASSUME FreeRTOSInv, CallsInv, NEW t \in Tasks, CollectNotification(t)
    PROVE  FreeRTOSInv' /\ SameTime(kernel, kernel') /\ Noticed
<1>1. /\ kernel.current = t /\ pc[t] = "collect" /\ Aside /\ Goto(t, "user") /\ Keep(t, NoCall)
  BY DEF CollectNotification, Return, Keep, At, Aside
<1>2. /\ KernelOK(kernel) /\ TaskOK(t) /\ kernel.suspended = 0 /\ t # IdleTask
      /\ Home(kernel, t) = "ready" /\ \A u \in Tasks : TaskOK(u)
      /\ kernel.tcb[t].value \in Nat
  BY <1>1, Running DEF Suspending, Closing, Resumes, FreeRTOSInv, KernelOK, KernelShape, TCBs
<1>3. ~Held
  BY <1>1, <1>2 DEF Held
<1>4. Event(kernel, t) = "none"
  BY <1>2, <1>3 DEF TaskOK, EventOK, Blocked
<1>5. PICK left \in Nat : kernel' = EndNotification(kernel, left)
  <2> DEFINE tcb == kernel.tcb[t]
             left == IF local[t].op = "ulTaskNotifyTake"
                     THEN IF tcb.value = 0 \/ local[t].clearOnExit THEN 0 ELSE tcb.value - 1
                     ELSE IF tcb.state # eWaiting /\ local[t].clearOnExit THEN 0 ELSE tcb.value
  <2>1. left \in Nat
    BY <1>2
  <2>2. kernel' = EndNotification(kernel, left)
    BY DEF CollectNotification
  <2> QED BY <2>1, <2>2
<1>6. /\ KernelOK(kernel') /\ Stays(kernel, kernel') /\ SameClock(kernel, kernel')
      /\ StatesBut(kernel, kernel', t) /\ kernel'.current = t /\ kernel'.tcb[t].state = eNotWaiting
      /\ kernel'.yieldPending = kernel.yieldPending
  BY <1>1, <1>2, <1>5, NotificationEnded
<1>7. /\ pc'[t] = "user" /\ local'[t] = NoCall
      /\ \A u \in Tasks : u # t => pc'[u] = pc[u] /\ local'[u] = local[u]
  BY <1>1, Went, Kept
<1>8. SuspensionInv' /\ CurrentInv'
  BY <1>1, <1>2, <1>6, <1>7, Stayed DEF Stays, SameClock, Suspending
<1>9. ASSUME NEW u \in Tasks, u # t PROVE Steady(u)
  BY <1>1, <1>2, <1>3, <1>6, <1>7, <1>9 DEF Steady, Stays, StatesBut, TaskOK, EventOK, Aside
<1>10. NoneAppears /\ DeadStay
  BY <1>1, <1>6, <1>7 DEF NoneAppears, DeadStay, Stays
<1>11. TaskOK(t)'
  <2>1. HomeOK(t)' /\ EventOK(t)'
    BY <1>2, <1>4, <1>6, <1>7 DEF HomeOK, EventOK, Stays, eNotWaiting, eWaiting
  <2>2. LabelOK(t)' /\ LifeOK(t)' /\ TimeOK(t)'
    BY <1>1, <1>2, <1>7 DEF TaskOK, LabelOK, LifeOK, TimeOK, Closing, Resumes, Aside
  <2> QED BY <2>1, <2>2 DEF TaskOK
<1>12. kernel'.pended <= MaxPended
  BY <1>6 DEF SameClock, FreeRTOSInv
<1>13. Noticed
  BY <1>1, <1>6, NoticedByKernel DEF Stays, StatesBut
<1> QED BY <1>1, <1>6, <1>8, <1>9, <1>10, <1>11, <1>12, <1>13, AsideKept DEF SameClock, SameTime

-----------------------------------------------------------------------------
(* Tasks that come and go. *)

\* prvResetNextTaskUnblockTime, after the deletion of another task.
LEMMA ResetNextStep ==
    ASSUME FreeRTOSInv, CallsInv, NEW t \in Tasks, ResetNext(t)
    PROVE  FreeRTOSInv' /\ SameTime(kernel, kernel') /\ Noticed
<1>1. /\ kernel.current = t /\ pc[t] = "resetNext" /\ Aside /\ Goto(t, "user") /\ local' = local
      /\ kernel' = prvResetNextTaskUnblockTime(kernel)
  BY DEF ResetNext, At, Aside
<1>2. /\ KernelOK(kernel) /\ TaskOK(t) /\ kernel.suspended = 0 /\ t # IdleTask
      /\ Home(kernel, t) = "ready" /\ \A u \in Tasks : TaskOK(u)
  BY <1>1, Running DEF Suspending, Closing, Resumes, FreeRTOSInv
<1>3. Event(kernel, t) = "none" /\ kernel.tcb[t].state # eWaiting /\ ~Held
  BY <1>1, <1>2, WaitsForNothing DEF Held
<1>4. /\ KernelOK(kernel') /\ SameRest(kernel, kernel')
      /\ \A u \in Tasks : Home(kernel', u) = Home(kernel, u) /\ Event(kernel', u) = Event(kernel, u)
  BY <1>1, <1>2, NextReset
<1>5. pc'[t] = "user" /\ \A u \in Tasks : u # t => pc'[u] = pc[u]
  BY <1>1, Went
<1>6. SuspensionInv' /\ CurrentInv'
  BY <1>1, <1>2, <1>4, <1>5, Stayed DEF SameRest, SameData, Suspending
<1>7. ASSUME NEW u \in Tasks, u # t PROVE Steady(u)
  BY <1>1, <1>2, <1>3, <1>4, <1>5, <1>7 DEF Steady, SameRest, SameData, TaskOK, EventOK, Aside
<1>8. NoneAppears /\ DeadStay
  BY <1>1, <1>4, <1>5 DEF NoneAppears, DeadStay
<1>9. TaskOK(t)'
  <2>1. HomeOK(t)' /\ EventOK(t)'
    BY <1>2, <1>3, <1>4, <1>5 DEF HomeOK, EventOK, SameRest, SameData
  <2>2. LabelOK(t)' /\ LifeOK(t)' /\ TimeOK(t)'
    BY <1>1, <1>2, <1>5 DEF TaskOK, LabelOK, LifeOK, TimeOK, Closing, Resumes, Aside
  <2> QED BY <2>1, <2>2 DEF TaskOK
<1>10. kernel'.pended <= MaxPended
  BY <1>4 DEF SameRest, SameData, FreeRTOSInv
<1>11. Noticed
  BY <1>1, <1>4, NoticedByKernel DEF SameRest, SameData
<1> QED BY <1>1, <1>4, <1>6, <1>7, <1>8, <1>9, <1>10, <1>11, AsideKept DEF SameRest, SameData, SameTime

\* Two tasks change their labels: the one that runs, and the one it deals with.
LEMMA BothWent ==
    ASSUME FreeRTOSInv, NEW t \in Tasks, NEW v \in Tasks, t # v, kernel.current = t,
           kernel.suspended = 0, kernel'.current = t, kernel'.suspended = 0,
           pc'[t] \notin Suspending \cup {"catchUp"}, pc'[v] \notin Suspending \cup {"catchUp"},
           \A u \in Tasks : u \notin {t, v} => pc'[u] = pc[u],
           Home(kernel', t) = "ready"
    PROVE  SuspensionInv' /\ CurrentInv'
<1>1. \A u \in Tasks : u # t => pc[u] \notin Suspending \cup {"catchUp"}
  BY DEF FreeRTOSInv, SuspensionInv
<1>2. \A u \in Tasks : pc'[u] \notin Suspending \cup {"catchUp"}
  BY <1>1
<1>3. SuspensionInv'
  BY <1>2 DEF SuspensionInv
<1>4. CurrentInv'
  BY DEF CurrentInv
<1> QED BY <1>3, <1>4

\* The critical section of xTaskGenericCreate: the control block is the task's
\* own, for no other task creates the same one.
LEMMA AddStep ==
    ASSUME FreeRTOSInv, CallsInv, NEW t \in Tasks, Add(t)
    PROVE  FreeRTOSInv' /\ SameTime(kernel, kernel') /\ Noticed
<1>0. PICK new : new = local[t].target
  OBVIOUS
<1>1. /\ kernel.current = t /\ pc[t] = "add" /\ Aside
      /\ kernel' = AddTask(kernel, new, local[t].prio)
      /\ \/ /\ pc' = [pc EXCEPT ![t] = "yield", ![new] = "user"]
            /\ Keep(t, [call |-> NoCall, then |-> "user"])
         \/ /\ pc' = [pc EXCEPT ![t] = "user", ![new] = "user"]
            /\ Keep(t, NoCall) /\ ~(Prio(kernel, t) < local[t].prio)
  BY <1>0 DEF Add, At, Aside
<1>2. /\ KernelOK(kernel) /\ TaskOK(t) /\ kernel.suspended = 0 /\ t # IdleTask
      /\ Home(kernel, t) = "ready" /\ \A u \in Tasks : TaskOK(u)
      /\ IdleTask \in Tasks
  BY <1>1, Running, KernelAssumption DEF Suspending, Closing, Resumes, FreeRTOSInv
<1>3. Event(kernel, t) = "none" /\ kernel.tcb[t].state # eWaiting /\ ~Held
  BY <1>1, <1>2, WaitsForNothing DEF Held
<1>4. Creates(t, local[t])
  BY <1>1, <1>2 DEF TaskOK, LifeOK
<1>5. local[t].prio \in Priorities /\ new \in Tasks /\ pc[new] = "none" /\ new # t
  BY <1>0, <1>1, <1>4, Planned DEF Creates, CallOK
<1>6. Home(kernel, new) = "nowhere" /\ Event(kernel, new) = "none" /\ new # IdleTask
  BY <1>2, <1>5 DEF TaskOK, HomeOK, EventOK, LabelOK, Blocked, Resumes
<1>7. \A u \in Tasks : \A d : u # t /\ Creates(u, d) => d.target # new /\ d.target \in Tasks
  BY <1>0, <1>4, Planned DEF Creates, CallOK
<1>8. /\ KernelOK(kernel') /\ SameClock(kernel, kernel') /\ kernel'.current = t
      /\ kernel'.tcb[new].state = eNotWaiting /\ Prio(kernel', new) = local[t].prio
      /\ kernel'.yieldPending = kernel.yieldPending
      /\ \A u \in Tasks : /\ Home(kernel', u) = IF u = new THEN "ready" ELSE Home(kernel, u)
                          /\ Event(kernel', u) = Event(kernel, u)
                          /\ u # new => /\ Prio(kernel', u) = Prio(kernel, u)
                                        /\ kernel'.tcb[u].state = kernel.tcb[u].state
                                        /\ kernel'.tcb[u].value = kernel.tcb[u].value
  BY <1>1, <1>2, <1>5, <1>6, TaskCreated
<1>9. /\ \/ pc'[t] = "yield" /\ local'[t].then = "user"
         \/ pc'[t] = "user" /\ ~(Prio(kernel, t) < local[t].prio)
      /\ pc'[new] = "user" /\ \A u \in Tasks : u \notin {t, new} => pc'[u] = pc[u]
      /\ \A u \in Tasks : u # t => local'[u] = local[u]
  <2>1. t \in DOMAIN pc /\ new \in DOMAIN pc /\ \A u \in Tasks : u \in DOMAIN pc
    BY <1>5 DEF CallsInv
  <2>2. pc'[t] \in {"yield", "user"} /\ pc'[new] = "user"
        /\ \A u \in Tasks : u \notin {t, new} => pc'[u] = pc[u]
    BY <1>1, <1>5, <2>1
  <2>3. pc'[t] = "yield" => Keep(t, [call |-> NoCall, then |-> "user"])
    BY <1>1, <1>5, <2>1
  <2>4. pc'[t] = "yield" => local'[t].then = "user"
    BY <2>3, Kept
  <2>5. \A u \in Tasks : u # t => local'[u] = local[u]
    BY <1>1, Kept
  <2>6. pc'[t] = "user" => ~(Prio(kernel, t) < local[t].prio)
    BY <1>1, <1>5, <2>1
  <2> QED BY <2>2, <2>4, <2>5, <2>6
<1>10. SuspensionInv' /\ CurrentInv'
  BY <1>1, <1>2, <1>5, <1>8, <1>9, BothWent DEF SameClock, Suspending
<1>11. DeadStay
  BY <1>6, <1>8 DEF DeadStay
<1>12. ASSUME NEW u \in Tasks, u \notin {t, new} PROVE TaskOK(u)'
  <2>1. Steady(u)
    BY <1>1, <1>2, <1>3, <1>8, <1>9, <1>12 DEF Steady, TaskOK, EventOK, Aside
  <2>2. ASSUME NEW d, Creates(u, d) PROVE Creates(u, d)'
    <3>1. d.target \in Tasks /\ d.target \notin {t, new}
      BY <1>1, <1>7, <1>12, <2>2 DEF Creates
    <3> QED BY <1>1, <1>9, <2>2, <3>1 DEF Creates, Aside
  <2> QED BY <1>1, <1>11, <2>1, <2>2, SteadyKept DEF Aside
<1>13. TaskOK(new)'
  <2>1. HomeOK(new)' /\ EventOK(new)'
    BY <1>5, <1>6, <1>8, <1>9 DEF HomeOK, EventOK, eNotWaiting, eWaiting
  <2>2. LabelOK(new)' /\ LifeOK(new)'
    BY <1>6, <1>9 DEF LabelOK, LifeOK, Closing, Resumes
  <2>3. TimeOK(new)'
    BY <1>1, <1>2, <1>5, <1>9 DEF TaskOK, TimeOK, Closing, Resumes, Aside
  <2> QED BY <2>1, <2>2, <2>3 DEF TaskOK
<1>14. TaskOK(t)'
  <2>1. HomeOK(t)' /\ EventOK(t)'
    BY <1>2, <1>3, <1>5, <1>8, <1>9 DEF HomeOK, EventOK
  <2>2. LabelOK(t)' /\ LifeOK(t)' /\ TimeOK(t)'
    BY <1>1, <1>2, <1>9 DEF TaskOK, LabelOK, LifeOK, TimeOK, Closing, Resumes, Aside
  <2> QED BY <2>1, <2>2 DEF TaskOK
<1>15. kernel'.pended <= MaxPended /\ Over(wakeTime', Tasks) /\ nextFree' \in 0 .. HeapSize
  BY <1>1, <1>8 DEF SameClock, FreeRTOSInv, Aside
<1>16. \A u \in Tasks : TaskOK(u)'
  BY <1>12, <1>13, <1>14
<1>17. Noticed
  <2>1. CASE pc'[t] = "yield"
    BY <1>8, <2>1 DEF Noticed
  <2>2. CASE pc'[t] # "yield"
    <3>1. Prio(kernel, t) \in Nat /\ local[t].prio \in Nat
      BY <1>2, <1>5 DEF KernelOK, KernelShape, TCBs, Prio, Priorities
    <3>2. ~Above(kernel', new)
      BY <1>5, <1>8, <1>9, <2>2, <3>1 DEF Above
    <3>3. ASSUME NEW u \in Tasks, u # new, Overlooked(kernel', u) PROVE Overlooked(kernel, u)
      BY <1>1, <1>5, <1>8, <3>3 DEF Overlooked, Above
    <3> QED BY <1>1, <3>2, <3>3 DEF Noticed, Overlooked
  <2> QED BY <2>1, <2>2
<1> QED BY <1>8, <1>10, <1>15, <1>16, <1>17 DEF FreeRTOSInv, SameClock, SameTime

\* vTaskDelete, of the running task or of another.
LEMMA DeleteStep ==
    ASSUME FreeRTOSInv, CallsInv, NEW t \in Tasks, NEW c \in Calls(t), vTaskDelete(t, c)
    PROVE  FreeRTOSInv' /\ SameTime(kernel, kernel') /\ Noticed
<1>1. /\ kernel.current = t /\ pc[t] = "user" /\ Aside /\ kernel' = Terminate(kernel, c.target)
      /\ Alive(c.target) /\ c \in plan.calls[t] /\ c.op = "vTaskDelete"
  BY DEF vTaskDelete, Calling, At, Aside
<1>2. /\ KernelOK(kernel) /\ TaskOK(t) /\ kernel.suspended = 0 /\ t # IdleTask
      /\ Home(kernel, t) = "ready" /\ \A u \in Tasks : TaskOK(u)
  BY <1>1, Running DEF Suspending, Closing, Resumes, FreeRTOSInv
<1>3. Event(kernel, t) = "none" /\ kernel.tcb[t].state # eWaiting /\ ~Held
  BY <1>1, <1>2, WaitsForNothing DEF Held
<1>4. PICK v \in Tasks \ {IdleTask} : v = c.target
  BY <1>1, Planned DEF CallOK
<1>5. /\ KernelOK(kernel') /\ SameRest(kernel, kernel')
      /\ \A u \in Tasks : /\ Home(kernel', u) = IF u = v THEN "termination" ELSE Home(kernel, u)
                          /\ Event(kernel', u) = IF u = v THEN "none" ELSE Event(kernel, u)
  BY <1>1, <1>2, <1>4, Terminated
<1>6. DeadStay /\ kernel'.pended <= MaxPended /\ SameTime(kernel, kernel')
  BY <1>5 DEF DeadStay, SameRest, SameData, FreeRTOSInv, SameTime
<1>7. v # t => Noticed
  BY <1>1, <1>5, NoticedByKernel DEF SameRest, SameData
<1>8. CASE v = t
  <2>1. Goto(t, "yield") /\ Keep(t, [call |-> NoCall, then |-> "deleted"])
    BY <1>4, <1>8 DEF vTaskDelete
  <2>2. /\ pc'[t] = "yield" /\ local'[t] = [call |-> NoCall, then |-> "deleted"]
        /\ \A u \in Tasks : u # t => pc'[u] = pc[u] /\ local'[u] = local[u]
    BY <2>1, Went, Kept
  <2>3. SuspensionInv' /\ CurrentInv'
    BY <1>1, <1>2, <1>5, <1>8, <2>2, Stayed DEF SameRest, SameData, Suspending
  <2>4. ASSUME NEW u \in Tasks, u # t PROVE Steady(u)
    BY <1>1, <1>2, <1>3, <1>5, <1>8, <2>2, <2>4
       DEF Steady, SameRest, SameData, TaskOK, EventOK, Aside
  <2>5. NoneAppears
    BY <1>1, <2>2 DEF NoneAppears
  <2>6. HomeOK(t)' /\ EventOK(t)'
    BY <1>3, <1>5, <1>8, <2>2 DEF HomeOK, EventOK, SameRest, SameData
  <2>7. LabelOK(t)' /\ LifeOK(t)' /\ TimeOK(t)'
    BY <1>1, <1>2, <2>2 DEF TaskOK, LabelOK, LifeOK, TimeOK, Closing, Resumes, Aside
  <2>8. TaskOK(t)'
    BY <2>6, <2>7 DEF TaskOK
  <2>9. Noticed
    BY <1>1, <1>5, <2>2 DEF Noticed, SameRest
  <2> QED BY <1>1, <1>5, <1>6, <2>3, <2>4, <2>5, <2>8, <2>9, AsideKept
<1>9. CASE v # t
  <2>1. pc' = [pc EXCEPT ![t] = "resetNext", ![v] = "deleted"] /\ Keep(v, NoCall)
    BY <1>4, <1>9 DEF vTaskDelete
  <2>2. /\ pc'[t] = "resetNext" /\ pc'[v] = "deleted" /\ pc[v] # "none"
        /\ \A u \in Tasks : u \notin {t, v} => pc'[u] = pc[u]
        /\ \A u \in Tasks : u # v => local'[u] = local[u]
    <3>1. t \in DOMAIN pc /\ v \in DOMAIN pc /\ \A u \in Tasks : u \in DOMAIN pc
      BY DEF CallsInv
    <3>2. \A u \in Tasks : u # v => local'[u] = local[u]
      BY <2>1, Kept
    <3> QED BY <1>1, <1>4, <1>9, <2>1, <3>1, <3>2 DEF Alive
  <2>3. SuspensionInv' /\ CurrentInv'
    BY <1>1, <1>2, <1>5, <1>9, <2>2, BothWent DEF SameRest, SameData, Suspending
  <2>4. NoneAppears
    BY <1>1, <2>2 DEF NoneAppears
  <2>5. ASSUME NEW u \in Tasks, u \notin {t, v} PROVE TaskOK(u)'
    <3>1. Steady(u)
      BY <1>1, <1>2, <1>3, <1>5, <2>2, <2>5 DEF Steady, SameRest, SameData, TaskOK, EventOK, Aside
    <3> QED BY <1>1, <1>6, <2>4, <3>1, SteadyKept, CreatesKept DEF Aside
  <2>6. TaskOK(v)'
    <3>1. HomeOK(v)' /\ EventOK(v)'
      BY <1>5, <2>2 DEF HomeOK, EventOK
    <3>2. LabelOK(v)' /\ LifeOK(v)' /\ TimeOK(v)'
      BY <1>1, <1>2, <2>2 DEF TaskOK, LabelOK, LifeOK, TimeOK, Closing, Resumes, Aside
    <3> QED BY <3>1, <3>2 DEF TaskOK
  <2>7. TaskOK(t)'
    <3>1. HomeOK(t)' /\ EventOK(t)'
      BY <1>2, <1>3, <1>5, <1>9, <2>2 DEF HomeOK, EventOK, SameRest, SameData
    <3>2. LabelOK(t)' /\ LifeOK(t)' /\ TimeOK(t)'
      BY <1>1, <1>2, <2>2 DEF TaskOK, LabelOK, LifeOK, TimeOK, Closing, Resumes, Aside
    <3> QED BY <3>1, <3>2 DEF TaskOK
  <2>8. \A u \in Tasks : TaskOK(u)'
    BY <2>5, <2>6, <2>7
  <2>9. Over(wakeTime', Tasks) /\ nextFree' \in 0 .. HeapSize
    BY <1>1 DEF FreeRTOSInv, Aside
  <2> QED BY <1>5, <1>6, <1>7, <1>9, <2>3, <2>8, <2>9 DEF FreeRTOSInv
<1> QED BY <1>8, <1>9

\* prvCheckTasksWaitingTermination: only the idle task reclaims, and what it
\* has seen waiting is still there.
LEMMA ReclaimStep ==
    ASSUME FreeRTOSInv, CallsInv, NEW t \in Tasks, Reclaimed(t)
    PROVE  FreeRTOSInv' /\ SameTime(kernel, kernel') /\ Noticed
<1>1. /\ kernel.current = t /\ pc[t] = "reclaim" /\ Aside /\ kernel' = Reclaim(kernel)
      /\ pc' = [pc EXCEPT ![t] = "idle", ![HeadEntry(kernel.termination)] = "none"]
      /\ Keep(HeadEntry(kernel.termination), NoCall)
  BY DEF Reclaimed, At, Aside
<1>2. /\ KernelOK(kernel) /\ TaskOK(t) /\ kernel.suspended = 0
      /\ Home(kernel, t) = "ready" /\ \A u \in Tasks : TaskOK(u)
  BY <1>1, Running DEF Suspending, Closing, Resumes, FreeRTOSInv
<1>3. t = IdleTask
  BY <1>1, <1>2 DEF TaskOK, LabelOK
<1>4. Event(kernel, t) = "none" /\ kernel.tcb[t].state # eWaiting /\ ~Held
  BY <1>1, <1>2, WaitsForNothing DEF Held
<1>5. \E u \in Tasks : Home(kernel, u) = "termination"
  BY <1>1, <1>2 DEF TaskOK, LifeOK
<1>6. /\ KernelOK(kernel') /\ SameRest(kernel, kernel')
      /\ HeadEntry(kernel.termination) \in Tasks
      /\ Home(kernel, HeadEntry(kernel.termination)) = "termination"
      /\ \A u \in Tasks :
            /\ Home(kernel', u) = IF u = HeadEntry(kernel.termination) THEN "nowhere" ELSE Home(kernel, u)
            /\ Event(kernel', u) = Event(kernel, u)
  BY <1>1, <1>2, <1>5, TaskReclaimed
<1>7. PICK v \in Tasks : v = HeadEntry(kernel.termination)
  BY <1>6
<1>8. /\ v # t /\ Home(kernel, v) = "termination" /\ Home(kernel', v) = "nowhere"
      /\ Event(kernel', v) = "none"
      /\ \A u \in Tasks : u # v => Home(kernel', u) = Home(kernel, u) /\ Event(kernel', u) = Event(kernel, u)
  BY <1>2, <1>6, <1>7 DEF TaskOK, EventOK, Blocked
<1>9. /\ pc'[t] = "idle" /\ pc'[v] = "none"
      /\ \A u \in Tasks : u \notin {t, v} => pc'[u] = pc[u]
      /\ \A u \in Tasks : u # v => local'[u] = local[u]
  <2>1. t \in DOMAIN pc /\ v \in DOMAIN pc /\ \A u \in Tasks : u \in DOMAIN pc
    BY DEF CallsInv
  <2>2. pc' = [pc EXCEPT ![t] = "idle", ![v] = "none"] /\ Keep(v, NoCall)
    BY <1>1, <1>7
  <2>3. \A u \in Tasks : u # v => local'[u] = local[u]
    BY <2>2, Kept
  <2> QED BY <1>8, <2>1, <2>2, <2>3
<1>10. SuspensionInv' /\ CurrentInv'
  <2>1. kernel'.current = t /\ kernel'.suspended = 0 /\ Home(kernel', t) = "ready"
    BY <1>1, <1>2, <1>6, <1>8 DEF SameRest, SameData
  <2> QED BY <1>1, <1>2, <1>8, <1>9, <2>1, BothWent DEF Suspending
<1>11. NoneAppears
  BY <1>1, <1>9 DEF NoneAppears
<1>12. ASSUME NEW u \in Tasks, u \notin {t, v} PROVE TaskOK(u)'
  <2>1. /\ pc'[u] = pc[u] /\ local'[u] = local[u] /\ wakeTime'[u] = wakeTime[u]
        /\ Home(kernel', u) = Home(kernel, u) /\ Event(kernel', u) = Event(kernel, u)
        /\ kernel'.tcb[u].state = kernel.tcb[u].state /\ kernel'.tcb[u].value = kernel.tcb[u].value
        /\ u # IdleTask
    BY <1>1, <1>3, <1>6, <1>8, <1>9, <1>12 DEF SameRest, SameData, Aside
  <2>2. HomeOK(u)'
    BY <1>2, <2>1 DEF TaskOK, HomeOK
  <2>3. EventOK(u)'
    BY <1>2, <1>4, <2>1 DEF TaskOK, EventOK
  <2>4. LabelOK(u)' /\ TimeOK(u)'
    BY <1>2, <2>1 DEF TaskOK, LabelOK, TimeOK
  <2>5. ASSUME NEW d, Creates(u, d) PROVE Creates(u, d)'
    BY <1>1, <1>11, <2>5, CreatesKept DEF Aside
  <2>6. LifeOK(u)'
    BY <1>2, <2>1, <2>5 DEF TaskOK, LabelOK, LifeOK
  <2> QED BY <2>2, <2>3, <2>4, <2>6 DEF TaskOK
<1>13. TaskOK(v)'
  <2>1. HomeOK(v)' /\ EventOK(v)'
    BY <1>8, <1>9 DEF HomeOK, EventOK
  <2>2. LabelOK(v)' /\ LifeOK(v)' /\ TimeOK(v)'
    BY <1>1, <1>2, <1>3, <1>8, <1>9 DEF TaskOK, LabelOK, LifeOK, TimeOK, Closing, Resumes, Aside
  <2> QED BY <2>1, <2>2 DEF TaskOK
<1>14. TaskOK(t)'
  <2>1. HomeOK(t)' /\ EventOK(t)'
    BY <1>2, <1>4, <1>6, <1>8, <1>9 DEF HomeOK, EventOK, SameRest, SameData
  <2>2. LabelOK(t)' /\ LifeOK(t)' /\ TimeOK(t)'
    BY <1>1, <1>2, <1>3, <1>9 DEF TaskOK, LabelOK, LifeOK, TimeOK, Closing, Resumes, Aside
  <2> QED BY <2>1, <2>2 DEF TaskOK
<1>15. \A u \in Tasks : TaskOK(u)'
  BY <1>12, <1>13, <1>14
<1>16. Over(wakeTime', Tasks) /\ nextFree' \in 0 .. HeapSize /\ kernel'.pended <= MaxPended
  BY <1>1, <1>6 DEF FreeRTOSInv, Aside, SameRest, SameData
<1>17. Noticed
  BY <1>1, <1>6, NoticedByKernel DEF SameRest, SameData
<1> QED BY <1>6, <1>10, <1>15, <1>16, <1>17 DEF FreeRTOSInv, SameRest, SameData, SameTime

-----------------------------------------------------------------------------
(* The lock counts of the queue. *)

\* What moves an item leaves the locks alone.
LEMMA CopyingLeavesLocks ==
    ASSUME NEW q, StorageOK(q), NEW item, NEW position, NEW f \in {"txLock", "rxLock"}
    PROVE  /\ prvCopyDataToQueue(q, item, position)[f] = q[f]
           /\ f \in DOMAIN prvCopyDataToQueue(q, item, position)
           /\ prvCopyDataFromQueue(q).queue[f] = q[f]
           /\ f \in DOMAIN prvCopyDataFromQueue(q).queue
<1>1. DOMAIN q = Fields
  BY DEF StorageOK
<1>2. f \in DOMAIN q /\ f \notin {"slots", "writeTo", "readFrom", "waiting"}
  BY <1>1 DEF Fields
<1>3. /\ prvCopyDataToQueue(q, item, position)[f] = q[f]
      /\ f \in DOMAIN prvCopyDataToQueue(q, item, position)
  BY <1>2 DEF prvCopyDataToQueue
<1>4. /\ prvCopyDataFromQueue(q).queue[f] = q[f]
      /\ f \in DOMAIN prvCopyDataFromQueue(q).queue
  BY <1>2 DEF prvCopyDataFromQueue
<1> QED BY <1>3, <1>4

\* A count is raised from unlocked by the lock alone, and by an interrupt only
\* below its bound.
LEMMA LocksKept ==
    ASSUME StorageOK(queue), LocksOK, [Next]_vars
    PROVE  LocksOK'
<1>1. DOMAIN queue = Fields /\ {"txLock", "rxLock"} \subseteq Fields
  BY DEF StorageOK, Fields
<1>2. MaxLock \in Nat
  BY BoundAssumption
<1>3. ASSUME \A f \in {"txLock", "rxLock"} : queue'[f] \in {queue[f], -1} PROVE LocksOK'
  BY <1>2, <1>3 DEF LocksOK
<1>4. ASSUME NEW t \in Tasks, TaskStep(t) PROVE LocksOK'
  <2>1. CASE Lock(t)
    <3>1. /\ queue' = [queue EXCEPT !.rxLock = Max2(@, 0), !.txLock = Max2(@, 0)]
      BY <2>1 DEF Lock, prvLockQueue, queueLOCKED_UNMODIFIED
    <3>2. queue'.rxLock = Max2(queue.rxLock, 0) /\ queue'.txLock = Max2(queue.txLock, 0)
      BY <1>1, <3>1
    <3> QED BY <1>2, <3>2 DEF LocksOK, Max2
  <2>2. CASE Unlock(t)
    <3>1. \/ queue' = [queue EXCEPT !.txLock = -1] \/ queue' = [queue EXCEPT !.rxLock = -1]
      BY <2>2 DEF Unlock, UnlockTx, UnlockRx, queueUNLOCKED
    <3> QED BY <1>1, <1>3, <3>1
  <2>3. ASSUME NEW c, Reset(t, c) PROVE LocksOK'
    <3>1. queue' = ResetQueue(queue)
      BY <2>3 DEF Reset, xQueueReset
    <3> QED BY <1>1, <1>3, <3>1 DEF ResetQueue, ResetStorage, queueUNLOCKED
  <2>4. ASSUME NEW c, TrySend(t, c) PROVE LocksOK'
    <3>1. queue' = queue \/ queue' = prvCopyDataToQueue(queue, c.item, c.position)
      BY <2>4 DEF TrySend, TryQueue, SendItem
    <3> QED BY <1>3, <3>1, CopyingLeavesLocks
  <2>5. ASSUME NEW c, TryReceive(t, c) PROVE LocksOK'
    <3>1. \/ queue' = queue
          \/ queue' = [prvCopyDataFromQueue(queue).queue EXCEPT !.readFrom = queue.readFrom]
          \/ queue' = [prvCopyDataFromQueue(queue).queue EXCEPT !.waiting = @ - 1]
      BY <2>5 DEF TryReceive, TryQueue, PeekItem, ReceiveItem
    <3>2. ASSUME NEW r, NEW f \in {"txLock", "rxLock"}, f \in DOMAIN r, NEW read, NEW waiting
          PROVE  [r EXCEPT !.readFrom = read][f] = r[f] /\ [r EXCEPT !.waiting = waiting][f] = r[f]
      BY <3>2
    <3> QED BY <1>3, <3>1, <3>2, CopyingLeavesLocks
  <2>6. ASSUME queue' = queue PROVE LocksOK'
    BY <2>6 DEF LocksOK
  <2> QED BY <1>4, <2>1, <2>2, <2>3, <2>4, <2>5, <2>6
       DEF TaskStep, taskYIELD, Yield, Resume, Resuming, ResumeEnd, SuspendForQueue, Test, Place,
           CollectNotification, Add, ResetNext, IdleLook, Reclaimed, IdleYield, SuspendAll, vTaskDelay,
           vTaskDelayUntil, AwaitNotify, SendNotification, Allocate, vTaskDelete
<1>5. ASSUME NEW irq \in plan.irqs, Interrupt(irq) PROVE LocksOK'
  <2>1. CASE irq.op = "xQueueSendFromISR"
    <3> DEFINE copied == prvCopyDataToQueue(queue, irq.item, irq.position)
    <3>1. /\ queue' = [copied EXCEPT !.txLock = IF @ = -1 THEN @ ELSE @ + 1]
          /\ queue.txLock < MaxLock
      BY <1>5, <2>1 DEF Interrupt, SendFromISR, queueUNLOCKED
    <3>2. \A f \in {"txLock", "rxLock"} : copied[f] = queue[f] /\ f \in DOMAIN copied
      BY CopyingLeavesLocks
    <3> HIDE DEF copied
    <3>3. /\ queue'.txLock = IF queue.txLock = -1 THEN -1 ELSE queue.txLock + 1
          /\ queue'.rxLock = queue.rxLock
      BY <3>1, <3>2
    <3> QED BY <1>2, <3>1, <3>3 DEF LocksOK
  <2>2. CASE irq.op = "xQueueReceiveFromISR"
    <3> DEFINE copied == prvCopyDataFromQueue(queue).queue
    <3>1. /\ queue' = [copied EXCEPT !.waiting = @ - 1, !.rxLock = IF @ = -1 THEN @ ELSE @ + 1]
          /\ queue.rxLock < MaxLock
      BY <1>5, <2>2 DEF Interrupt, ReceiveFromISR, queueUNLOCKED
    <3>2. \A f \in {"txLock", "rxLock"} : copied[f] = queue[f] /\ f \in DOMAIN copied
      BY CopyingLeavesLocks
    <3> HIDE DEF copied
    <3>3. /\ queue'.rxLock = IF queue.rxLock = -1 THEN -1 ELSE queue.rxLock + 1
          /\ queue'.txLock = queue.txLock
      BY <3>1, <3>2
    <3> QED BY <1>2, <3>1, <3>3 DEF LocksOK
  <2>3. CASE irq.op = "xTaskNotifyFromISR"
    BY <1>5, <2>3 DEF Interrupt, LocksOK
  <2> QED BY <1>5, <2>1, <2>2, <2>3 DEF Interrupt
<1>6. CASE Tick \/ UNCHANGED vars
  BY <1>6 DEF Tick, vars, LocksOK
<1> QED BY <1>4, <1>5, <1>6 DEF Next

-----------------------------------------------------------------------------
(* The invariant of the whole. *)

\* The lists and the labels, the calls and the storage, and the lock counts.
SystemInv == FreeRTOSInv /\ QueueInv /\ LocksOK

\* What a step does to the time.
TimeStep ==
    \/ SameTime(kernel, kernel')
    \/ /\ \E t \in Tasks : Resuming(t)
       /\ kernel.pended # 0 /\ kernel'.pended = kernel.pended - 1
       /\ kernel'.tick = Stored(kernel.tick + 1)
       /\ kernel'.overflows = Overflowed(kernel, kernel'.tick)

\* A step of a task keeps the invariant, and counts no tick but a pended one.
LEMMA TaskKept ==
    ASSUME SystemInv, NEW t \in Tasks, TaskStep(t)
    PROVE  FreeRTOSInv' /\ TimeStep /\ Noticed
<1>1. FreeRTOSInv /\ CallsInv /\ queue.txLock \in Int /\ queue.rxLock \in Int
  BY BoundAssumption DEF SystemInv, QueueInv, LocksOK
<1>2. ASSUME FreeRTOSInv', SameTime(kernel, kernel'), Noticed PROVE FreeRTOSInv' /\ TimeStep /\ Noticed
  BY <1>2 DEF TimeStep
<1>3. CASE taskYIELD(t) \/ IdleYield(t)
  BY <1>1, <1>2, <1>3, SwitchSteps
<1>4. CASE Yield(t)
  BY <1>1, <1>2, <1>4, YieldStep
<1>5. CASE Resume(t)
  BY <1>1, <1>2, <1>5, ResumeStep
<1>6. CASE Resuming(t)
  BY <1>1, <1>6, ResumingStep DEF TimeStep
<1>7. CASE ResumeEnd(t)
  BY <1>1, <1>2, <1>7, ResumeEndStep
<1>8. CASE SuspendForQueue(t) \/ IdleLook(t) \/ \E c \in Calls(t) : SuspendAll(t, c) \/ Allocate(t, c)
  BY <1>1, <1>2, <1>8, SuspendSteps
<1>9. CASE Lock(t) \/ Test(t)
  BY <1>1, <1>2, <1>9, TestSteps
<1>10. CASE Place(t)
  BY <1>1, <1>2, <1>10, PlaceStep
<1>11. CASE Unlock(t)
  BY <1>1, <1>2, <1>11, UnlockStep
<1>12. CASE CollectNotification(t)
  BY <1>1, <1>2, <1>12, CollectStep
<1>13. CASE Add(t)
  BY <1>1, <1>2, <1>13, AddStep
<1>14. CASE ResetNext(t)
  BY <1>1, <1>2, <1>14, ResetNextStep
<1>15. CASE Reclaimed(t)
  BY <1>1, <1>2, <1>15, ReclaimStep
<1>16. ASSUME NEW c \in Calls(t), vTaskDelay(t, c) \/ vTaskDelayUntil(t, c)
       PROVE  FreeRTOSInv' /\ TimeStep /\ Noticed
  BY <1>1, <1>2, <1>16, DelaySteps
<1>17. ASSUME NEW c \in Calls(t), TrySend(t, c) \/ TryReceive(t, c) \/ Reset(t, c)
       PROVE  FreeRTOSInv' /\ TimeStep /\ Noticed
  BY <1>1, <1>2, <1>17, QueueSteps
<1>18. ASSUME NEW c \in Calls(t), AwaitNotify(t, c) PROVE FreeRTOSInv' /\ TimeStep /\ Noticed
  BY <1>1, <1>2, <1>18, AwaitStep
<1>19. ASSUME NEW c \in Calls(t), SendNotification(t, c) PROVE FreeRTOSInv' /\ TimeStep /\ Noticed
  BY <1>1, <1>2, <1>19, NotifyStep
<1>20. ASSUME NEW c \in Calls(t), vTaskDelete(t, c) PROVE FreeRTOSInv' /\ TimeStep /\ Noticed
  BY <1>1, <1>2, <1>20, DeleteStep
<1> QED
  BY <1>3, <1>4, <1>5, <1>6, <1>7, <1>8, <1>9, <1>10, <1>11, <1>12, <1>13, <1>14, <1>15, <1>16,
     <1>17, <1>18, <1>19, <1>20 DEF TaskStep

\* Every step keeps the invariant.
LEMMA SystemKept ==
    ASSUME SystemInv, [Next]_vars
    PROVE  SystemInv'
<1>1. QueueInv' /\ LocksOK'
  BY QueueKept, LocksKept DEF SystemInv, QueueInv
<1>2. FreeRTOSInv'
  <2>1. CASE \E t \in Tasks : TaskStep(t)
    BY <2>1, TaskKept
  <2>2. CASE Tick
    BY <2>2, TickStep DEF SystemInv, QueueInv
  <2>3. CASE \E irq \in plan.irqs : Interrupt(irq)
    BY <2>3, InterruptStep DEF SystemInv, QueueInv
  <2>4. CASE UNCHANGED vars
    BY <2>4 DEF SystemInv, vars, FreeRTOSInv, SuspensionInv, CurrentInv, TaskOK, HomeOK, EventOK, Held,
       LabelOK, LifeOK, Creates, TimeOK
  <2> QED BY <2>1, <2>2, <2>3, <2>4 DEF Next
<1> QED BY <1>1, <1>2 DEF SystemInv

\* It holds when the scheduler starts.
LEMMA SystemStarts ==
    ASSUME Init
    PROVE  SystemInv
<1>1. /\ KernelOK(kernel) /\ kernel.pended = 0 /\ kernel.suspended = 0
      /\ Home(kernel, kernel.current) = "ready"
      /\ \A u \in Tasks :
            /\ Event(kernel, u) = "none" /\ kernel.tcb[u].state = eNotWaiting
            /\ Home(kernel, u) = IF u = IdleTask \/ \E i \in DOMAIN plan.start : plan.start[i] = u
                                 THEN "ready" ELSE "nowhere"
  BY Started
<1>2. QueueInv
  BY QueueStarts
<1>3. \A u \in Tasks :
         /\ pc[u] = IF u = IdleTask THEN "idle"
                    ELSE IF \E i \in DOMAIN plan.start : plan.start[i] = u THEN "user" ELSE "none"
         /\ wakeTime[u] = 0
  BY DEF Init
<1>4. /\ Len(plan.start) \in Nat /\ (Len(plan.start) + 1) * (StackSize + TcbSize) <= HeapSize
      /\ nextFree = (Len(plan.start) + 1) * (StackSize + TcbSize)
  BY TaskAssumption DEF Init
<1>5. nextFree \in 0 .. HeapSize
  <2>1. \A n, m \in Nat : n * m \in Nat
    OBVIOUS
  <2>2. PICK n \in Nat, m \in Nat : n = Len(plan.start) + 1 /\ m = StackSize + TcbSize
    BY <1>4, BoundAssumption
  <2>3. nextFree = n * m /\ n * m <= HeapSize /\ n * m \in Nat
    BY <1>4, <2>1, <2>2
  <2> QED BY <2>3, BoundAssumption
<1>6. LocksOK
  <2>1. queue.txLock = -1 /\ queue.rxLock = -1
    BY DEF Init, NewQueue, ResetQueue, ResetStorage, queueUNLOCKED
  <2> QED BY <2>1, BoundAssumption DEF LocksOK
<1>7. kernel.current \in Tasks
  BY <1>1 DEF KernelOK, KernelShape
<1>8. SuspensionInv /\ CurrentInv
  BY <1>1, <1>3, <1>7 DEF SuspensionInv, CurrentInv, Suspending
<1>9. ASSUME NEW u \in Tasks PROVE TaskOK(u)
  <2>1. HomeOK(u) /\ EventOK(u)
    BY <1>1, <1>3 DEF HomeOK, EventOK, eNotWaiting, eWaiting
  <2>2. LabelOK(u) /\ LifeOK(u)
    BY <1>3 DEF LabelOK, LifeOK, Closing, Resumes
  <2>3. TimeOK(u)
    BY <1>3, TimeAssumption DEF TimeOK, Ticks, Closing, Resumes
  <2> QED BY <2>1, <2>2, <2>3 DEF TaskOK
<1>10. Over(wakeTime, Tasks) /\ kernel.pended <= MaxPended
  <2>1. wakeTime = [t \in Tasks |-> 0]
    BY DEF Init
  <2>2. \A t \in Tasks : wakeTime[t] = 0
    BY <2>1
  <2>3. Over(wakeTime, Tasks)
    BY <2>1, <2>2, Zenon DEF Over
  <2> QED BY <1>1, <2>3, BoundAssumption
<1> QED BY <1>1, <1>2, <1>5, <1>6, <1>8, <1>9, <1>10 DEF SystemInv, FreeRTOSInv

-----------------------------------------------------------------------------
(* The order in which waiting tasks are served. *)

\* The lists stay in order; of the tasks that leave them none is passed over, but
\* by one whose time is up or that is deleted.
InOrder(k, l) ==
    /\ Orderly(l)
    /\ \A list \in QueueLists : \A t \in Left(k, l, list) :
          l.tick = k.tick /\ ~Holds(l.termination, t) =>
              \A u \in Tasks : Holds(l.event[list], u) => Prio(k, u) <= Prio(k, t)

LEMMA ServedInOrder ==
    ASSUME NEW k, NEW l, Serves(k, l)
    PROVE  InOrder(k, l)
BY DEF Serves, InOrder

LEMMA QuietInOrder ==
    ASSUME NEW k, Orderly(k), NEW l, Quiet(k, l)
    PROVE  InOrder(k, l)
BY QuietServes, ServedInOrder

\* Where no task leaves, there is no order to keep.
LEMMA NoneLeaves ==
    ASSUME NEW k, NEW l, Orderly(l),
           \A list \in QueueLists : \A t \in Tasks : Holds(k.event[list], t) => Holds(l.event[list], t)
    PROVE  InOrder(k, l)
BY DEF InOrder, Left

\* The list a task is in, as Event has it.
LEMMA ListedByEvent ==
    ASSUME NEW k, KernelOK(k), NEW t \in Tasks, NEW list \in QueueLists
    PROVE  Holds(k.event[list], t) <=> Event(k, t) = list
BY DEF KernelOK, Places, QueueLists, EventLists, ToSend, ToReceive

\* A counted tick is a new one.
LEMMA TickMovesOn ==
    ASSUME NEW tick \in Ticks
    PROVE  Stored(tick + 1) # tick
BY TimeAssumption DEF Ticks, Stored

\* The rounds of xTaskResumeAll.
LEMMA ResumingServes ==
    ASSUME FreeRTOSInv, Orderly(kernel), NEW t \in Tasks, Resuming(t)
    PROVE  InOrder(kernel, kernel')
<1>1. /\ kernel.current = t /\ pc[t] = "catchUp" /\ kernel' = CatchUp(kernel) /\ ~CaughtUp(kernel)
  BY DEF Resuming, At
<1>2. KernelOK(kernel) /\ kernel.suspended = 0 /\ kernel.tick \in Ticks
  BY <1>1, Running DEF Suspending, FreeRTOSInv, KernelOK, KernelShape
<1>3. CASE IsEmpty(kernel.event["xPendingReadyList"])
  <2>1. kernel' = CountPended(kernel) /\ kernel.pended # 0
    BY <1>1, <1>2, <1>3 DEF CatchUp, CaughtUp
  <2>2. Passes(kernel, kernel') /\ kernel'.tick = Stored(kernel.tick + 1)
    BY <1>2, <2>1, PendedCounted
  <2> QED BY <1>2, <2>2, TickMovesOn DEF Passes, InOrder
<1>4. CASE ~IsEmpty(kernel.event["xPendingReadyList"])
  <2>1. kernel' = ReadyPending(kernel)
    BY <1>1, <1>4 DEF CatchUp
  <2>2. /\ KernelOK(kernel')
        /\ \E v \in Tasks : /\ Event(kernel, v) = "xPendingReadyList"
                            /\ \A u \in Tasks : u # v => Event(kernel', u) = Event(kernel, u)
    BY <1>2, <1>4, <2>1, PendingReadied
  <2>3. PICK v \in Tasks : /\ Event(kernel, v) = "xPendingReadyList"
                           /\ \A u \in Tasks : u # v => Event(kernel', u) = Event(kernel, u)
    BY <2>2
  <2>4. ASSUME NEW list \in QueueLists, NEW u \in Tasks, Holds(kernel.event[list], u)
        PROVE  Holds(kernel'.event[list], u)
    <3>1. Event(kernel, u) = list /\ list # "xPendingReadyList"
      BY <1>2, <2>4, ListedByEvent DEF QueueLists, ToSend, ToReceive
    <3> QED BY <2>2, <2>3, <3>1, ListedByEvent
  <2>5. Orderly(kernel')
    BY <2>1, OrderlyReadied
  <2> QED BY <2>4, <2>5, NoneLeaves
<1> QED BY <1>3, <1>4

\* vTaskPlaceOnEventList.
LEMMA PlaceServes ==
    ASSUME FreeRTOSInv, Orderly(kernel), NEW t \in Tasks, Place(t)
    PROVE  InOrder(kernel, kernel')
<1>1. kernel.current = t /\ pc[t] = "place"
  BY DEF Place, At
<1>2. PICK list, ticks : list \in QueueLists /\ kernel' = vTaskPlaceOnEventList(kernel, list, ticks)
  BY DEF Place, QueueLists
<1>3. KernelOK(kernel) /\ Home(kernel, t) = "ready"
  BY <1>1, Running DEF Closing, Resumes
<1>4. Event(kernel, t) = "none"
  BY <1>1, <1>3, WaitsForNothing
<1>5. \A other \in QueueLists : ~Holds(kernel.event[other], t)
  BY <1>3, <1>4, ListedByEvent DEF QueueLists, ToSend, ToReceive
<1>6. /\ Orderly(kernel')
      /\ \A other \in QueueLists : \A u \in Tasks :
            Holds(kernel.event[other], u) => Holds(kernel'.event[other], u)
  BY <1>1, <1>2, <1>5, OrderlyPlaced
<1> QED BY <1>6, NoneLeaves

\* A task that is created waits for nothing yet.
LEMMA AddServes ==
    ASSUME FreeRTOSInv, CallsInv, Orderly(kernel), NEW t \in Tasks, Add(t)
    PROVE  InOrder(kernel, kernel')
<1>0. PICK new, prio : new = local[t].target /\ prio = local[t].prio
  OBVIOUS
<1>1. pc[t] = "add" /\ kernel' = AddTask(kernel, new, prio)
  BY <1>0 DEF Add, At
<1>2. KernelOK(kernel) /\ TaskOK(t) /\ \A u \in Tasks : TaskOK(u)
  BY DEF FreeRTOSInv
<1>3. Creates(t, local[t])
  BY <1>1, <1>2 DEF TaskOK, LifeOK
<1>4. prio \in Priorities /\ new \in Tasks /\ pc[new] = "none"
  BY <1>0, <1>3, Planned DEF Creates, CallOK
<1>5. Event(kernel, new) = "none"
  BY <1>2, <1>4 DEF TaskOK, HomeOK, EventOK, Blocked
<1>6. \A list \in QueueLists : ~Holds(kernel.event[list], new)
  BY <1>2, <1>4, <1>5, ListedByEvent DEF QueueLists, ToSend, ToReceive
<1>7. Orderly(kernel') /\ \A list \in QueueLists : kernel'.event[list] = kernel.event[list]
  BY <1>1, <1>4, <1>6, OrderlyAdded
<1> QED BY <1>7, NoneLeaves

\* Only the deleted task leaves its list.
LEMMA DeleteServes ==
    ASSUME FreeRTOSInv, CallsInv, Orderly(kernel), NEW t \in Tasks, NEW c \in Calls(t), vTaskDelete(t, c)
    PROVE  InOrder(kernel, kernel')
<1>1. /\ kernel' = Terminate(kernel, c.target) /\ c.target \in Tasks \ {IdleTask}
  BY Planned DEF vTaskDelete, Calling, At, CallOK
<1>2. KernelOK(kernel)
  BY DEF FreeRTOSInv
<1>3. /\ KernelOK(kernel') /\ Home(kernel', c.target) = "termination"
      /\ \A u \in Tasks : u # c.target => Event(kernel', u) = Event(kernel, u)
  BY <1>1, <1>2, Terminated
<1>4. Orderly(kernel')
  BY <1>1, OrderlyTerminated
<1>5. ASSUME NEW list \in QueueLists, NEW u \in Left(kernel, kernel', list)
      PROVE  Holds(kernel'.termination, u)
  <2>1. u = c.target
    BY <1>2, <1>3, ListedByEvent DEF Left
  <2> QED BY <1>1, <1>3, <2>1 DEF KernelOK, Places
<1> QED BY <1>4, <1>5 DEF InOrder

\* The calls on the queue wake the first of a list, and none but the first.
LEMMA QueueServes ==
    ASSUME FreeRTOSInv, Orderly(kernel), NEW t \in Tasks, NEW c \in Calls(t),
           TrySend(t, c) \/ TryReceive(t, c) \/ Reset(t, c)
    PROVE  InOrder(kernel, kernel')
<1>1. kernel' = kernel \/ \E list \in {ToSend, ToReceive} : kernel' = WakeAndYield(kernel, list)
  BY DEF TrySend, TryReceive, Reset, TryQueue, SendItem, PeekItem, ReceiveItem, xQueueReset
<1>2. WakesSome(kernel, kernel')
  BY <1>1, WokenAndYielded, WakesNone DEF FreeRTOSInv
<1> QED BY <1>2, ServedInOrder DEF WakesSome

LEMMA UnlockServes ==
    ASSUME FreeRTOSInv, Orderly(kernel), NEW t \in Tasks, Unlock(t),
           queue.txLock \in Int, queue.rxLock \in Int
    PROVE  InOrder(kernel, kernel')
<1>1. \/ kernel' = WakeWaiting(kernel, ToReceive, queue.txLock)
      \/ kernel' = WakeWaiting(kernel, ToSend, queue.rxLock)
  BY DEF Unlock, UnlockTx, UnlockRx
<1>2. WakesSome(kernel, kernel')
  BY <1>1, WaitingWoken DEF FreeRTOSInv
<1> QED BY <1>2, ServedInOrder DEF WakesSome

\* The sections that no event list takes part in.
LEMMA QuietSteps ==
    ASSUME Orderly(kernel), NEW t \in Tasks,
           \/ taskYIELD(t) \/ Yield(t) \/ Resume(t) \/ ResumeEnd(t) \/ SuspendForQueue(t)
           \/ Lock(t) \/ Test(t) \/ CollectNotification(t) \/ ResetNext(t)
           \/ IdleLook(t) \/ Reclaimed(t) \/ IdleYield(t)
           \/ \E c \in Calls(t) : \/ SuspendAll(t, c) \/ vTaskDelay(t, c) \/ vTaskDelayUntil(t, c)
                                  \/ AwaitNotify(t, c) \/ SendNotification(t, c) \/ Allocate(t, c)
    PROVE  InOrder(kernel, kernel')
<1> DEFINE Does(l) == Quiet(kernel, l)
           m == vTaskSuspendAll(kernel)
<1>1. Keyed(kernel) /\ Does(kernel)
  BY QuietSame
<1>2. /\ Does(m) /\ Keyed(m) /\ Does(Resumed(kernel)) /\ Does(vTaskSwitchContext(kernel))
      /\ Does(prvResetNextTaskUnblockTime(kernel)) /\ Does(Reclaim(kernel))
  BY <1>1, QuietSuspension, QuietSwitch, QuietNext, QuietReclaim
<1> HIDE DEF m
<1>3. \A ticks : Does(BlockUntil(m, ticks)) /\ Does(BlockFor(m, ticks))
  BY <1>2, QuietWaiting, QuietOn DEF BlockFor
<1>4. /\ \A left : Does(EndNotification(kernel, left))
      /\ \A satisfied, cleared, ticks : Does(AwaitNotification(kernel, satisfied, cleared, ticks))
      /\ \A target, value : Does(xTaskGenericNotify(kernel, target, value))
  <2>1. \A left : EndNotification(kernel, left) = Marked(kernel, kernel.current, eNotWaiting, left)
    BY DEF EndNotification, Marked
  <2> QED BY <1>1, <2>1, QuietMark, QuietAwait, QuietNotify
<1> HIDE DEF Does
<1>5. Does(kernel')
  <2>1. CASE taskYIELD(t) \/ Yield(t) \/ Resume(t) \/ ResumeEnd(t) \/ Lock(t) \/ Test(t)
    BY <1>1, <1>2, <2>1 DEF taskYIELD, Yield, Resume, ResumeEnd, Lock, Test
  <2>2. CASE SuspendForQueue(t) \/ ResetNext(t) \/ IdleLook(t) \/ Reclaimed(t) \/ IdleYield(t)
    BY <1>2, <2>2 DEF SuspendForQueue, ResetNext, IdleLook, Reclaimed, IdleYield, m
  <2>3. CASE CollectNotification(t)
    BY <1>4, <2>3 DEF CollectNotification
  <2>4. ASSUME NEW c \in Calls(t), SuspendAll(t, c) \/ Allocate(t, c) PROVE Does(kernel')
    BY <1>2, <2>4 DEF SuspendAll, Allocate, m
  <2>5. ASSUME NEW c \in Calls(t), vTaskDelay(t, c) \/ vTaskDelayUntil(t, c) PROVE Does(kernel')
    BY <1>2, <1>3, <2>5 DEF vTaskDelay, vTaskDelayUntil, m
  <2>6. ASSUME NEW c \in Calls(t), AwaitNotify(t, c) \/ SendNotification(t, c) PROVE Does(kernel')
    BY <1>4, <2>6 DEF AwaitNotify, SendNotification
  <2> QED BY <2>1, <2>2, <2>3, <2>4, <2>5, <2>6
<1> QED BY <1>5, QuietInOrder DEF Does

\* A handler wakes the first of a list, or marks a task as notified.
LEMMA InterruptServes ==
    ASSUME FreeRTOSInv, Orderly(kernel), NEW irq \in plan.irqs, Interrupt(irq)
    PROVE  InOrder(kernel, kernel')
<1>1. CASE \E list \in {ToSend, ToReceive} : \E lock : kernel' = WakeFromISR(kernel, list, lock)
  <2>1. WakesSome(kernel, kernel')
    BY <1>1, WokenFromISR DEF FreeRTOSInv
  <2> QED BY <2>1, ServedInOrder DEF WakesSome
<1>2. CASE \E value : kernel' = xTaskGenericNotifyFromISR(kernel, irq.target, value)
  BY <1>2, QuietSame, QuietNotify, QuietInOrder
<1> QED BY <1>1, <1>2 DEF Interrupt, SendFromISR, ReceiveFromISR

\* The handler of the tick interrupt: a task leaves only when a tick is counted.
LEMMA TickServes ==
    ASSUME FreeRTOSInv, Orderly(kernel), Tick
    PROVE  InOrder(kernel, kernel')
<1>1. KernelOK(kernel) /\ kernel.tick \in Ticks /\ kernel' = vPortYieldFromTick(kernel)
  BY DEF FreeRTOSInv, KernelOK, KernelShape, Tick
<1>2. /\ KernelOK(kernel') /\ Passes(kernel, kernel')
      /\ IF kernel.suspended # 0 THEN \A u \in Tasks : Event(kernel', u) = Event(kernel, u)
         ELSE kernel'.tick = Stored(kernel.tick + 1)
  BY <1>1, TickHandled
<1>3. Orderly(kernel')
  BY <1>2 DEF Passes
<1>4. CASE kernel.suspended # 0
  BY <1>1, <1>2, <1>3, <1>4, ListedByEvent, NoneLeaves
<1>5. CASE kernel.suspended = 0
  BY <1>1, <1>2, <1>3, <1>5, TickMovesOn DEF InOrder
<1> QED BY <1>4, <1>5

\* Every step.
LEMMA StepServes ==
    ASSUME SystemInv, EventsSorted(kernel), [Next]_vars
    PROVE  InOrder(kernel, kernel')
<1>1. /\ FreeRTOSInv /\ CallsInv /\ queue.txLock \in Int /\ queue.rxLock \in Int
      /\ Orderly(kernel)
  BY BoundAssumption, OrderlyFrom DEF SystemInv, QueueInv, LocksOK, FreeRTOSInv
<1>2. ASSUME NEW t \in Tasks, TaskStep(t) PROVE InOrder(kernel, kernel')
  <2>1. CASE Resuming(t) \/ Place(t) \/ Unlock(t) \/ Add(t)
    BY <1>1, <2>1, ResumingServes, PlaceServes, UnlockServes, AddServes
  <2>2. ASSUME NEW c \in Calls(t), TrySend(t, c) \/ TryReceive(t, c) \/ Reset(t, c) \/ vTaskDelete(t, c)
        PROVE  InOrder(kernel, kernel')
    BY <1>1, <2>2, QueueServes, DeleteServes
  <2>3. CASE \/ taskYIELD(t) \/ Yield(t) \/ Resume(t) \/ ResumeEnd(t) \/ SuspendForQueue(t)
             \/ Lock(t) \/ Test(t) \/ CollectNotification(t) \/ ResetNext(t)
             \/ IdleLook(t) \/ Reclaimed(t) \/ IdleYield(t)
             \/ \E c \in Calls(t) : \/ SuspendAll(t, c) \/ vTaskDelay(t, c) \/ vTaskDelayUntil(t, c)
                                    \/ AwaitNotify(t, c) \/ SendNotification(t, c) \/ Allocate(t, c)
    BY <1>1, <2>3, QuietSteps
  <2> QED BY <1>2, <2>1, <2>2, <2>3 DEF TaskStep
<1>3. CASE UNCHANGED vars
  BY <1>1, <1>3, QuietSame, QuietInOrder DEF vars
<1> QED BY <1>1, <1>2, <1>3, InterruptServes, TickServes DEF Next

-----------------------------------------------------------------------------
(* The turns of the ready tasks. *)

\* A task that is made ready again while it is late.
LEMMA LateIs ==
    ASSUME FreeRTOSInv, NEW u \in Tasks, Home(kernel, u) = "ready",
           kernel.tcb[u].state = eWaiting \/ Event(kernel, u) = "xPendingReadyList"
    PROVE  u \in Late
<1>1. KernelOK(kernel) /\ Prio(kernel, u) \in Priorities /\ "xPendingReadyList" \in EventLists
  BY DEF FreeRTOSInv, KernelOK, KernelShape, TCBs, Prio, EventLists
<1>2. Ready(u)
  BY <1>1 DEF KernelOK, Places, Ready
<1>3. Event(kernel, u) = "xPendingReadyList" => Pending(u)
  BY <1>1 DEF KernelOK, Places, Pending
<1> QED BY <1>2, <1>3 DEF Late

\* A step in which v gets on in its list, v and the task at its index not being late.
Sliced(v) == {v, First(kernel, v)} \cap Late = {} => Slices(kernel, kernel', v)

\* Where nothing but the choice of the current task changes.
LEMMA TurnSliced ==
    ASSUME NEW v \in Tasks, Turns(kernel, kernel')
    PROVE  Sliced(v)
BY DEF Turns, InTurn, NoneBefore, Slices, Sliced

LEMMA SwitchSliced ==
    ASSUME KernelOK(kernel), NEW v \in Tasks, kernel' = vTaskSwitchContext(kernel)
    PROVE  Sliced(v)
<1>1. Turns(kernel, kernel)
  BY TurnsAlike
<1> QED BY <1>1, SwitchTurns, SlicesOn DEF Turns, Sliced

\* The sections that at most choose another task.
LEMMA ChoiceSteps ==
    ASSUME NEW t \in Tasks,
           \/ taskYIELD(t) \/ Yield(t) \/ Resume(t) \/ ResumeEnd(t) \/ SuspendForQueue(t)
           \/ Lock(t) \/ Test(t) \/ CollectNotification(t) \/ IdleLook(t) \/ IdleYield(t)
           \/ \E c \in Calls(t) : SuspendAll(t, c) \/ Allocate(t, c)
    PROVE  \/ kernel' = vTaskSwitchContext(kernel)
           \/ kernel' = kernel
           \/ \E n : kernel' = [kernel EXCEPT !.suspended = n]
           \/ \E left : kernel' = EndNotification(kernel, left)
<1>1. CASE taskYIELD(t) \/ Yield(t) \/ Resume(t) \/ ResumeEnd(t) \/ SuspendForQueue(t)
  BY <1>1 DEF taskYIELD, Yield, Resume, Resumed, ResumeEnd, SuspendForQueue, vTaskSuspendAll
<1>2. CASE Lock(t) \/ Test(t) \/ CollectNotification(t) \/ IdleLook(t) \/ IdleYield(t)
  BY <1>2 DEF Lock, Test, CollectNotification, IdleLook, IdleYield, vTaskSuspendAll
<1>3. CASE \E c \in Calls(t) : SuspendAll(t, c) \/ Allocate(t, c)
  BY <1>3 DEF SuspendAll, Allocate, vTaskSuspendAll
<1> QED BY <1>1, <1>2, <1>3

LEMMA EndTurns ==
    ASSUME NEW k, KernelOK(k), NEW left
    PROVE  Turns(k, EndNotification(k, left))
<1> DEFINE l == EndNotification(k, left)
<1>1. k = [f \in KernelFields |-> k[f]] /\ k.tcb \in [Tasks -> TCBs]
  BY DEF KernelOK, KernelShape, Over
<1>2. l.ready = k.ready /\ \A u \in Tasks : Prio(l, u) = Prio(k, u)
  BY <1>1 DEF EndNotification, KernelFields, TCBs, Prio
<1> QED BY <1>2, TurnsAlike

LEMMA ChoiceSliced ==
    ASSUME FreeRTOSInv, NEW v \in Tasks,
           \/ kernel' = vTaskSwitchContext(kernel)
           \/ kernel' = kernel
           \/ \E n : kernel' = [kernel EXCEPT !.suspended = n]
           \/ \E left : kernel' = EndNotification(kernel, left)
    PROVE  Sliced(v)
<1>1. KernelOK(kernel)
  BY DEF FreeRTOSInv
<1>2. CASE kernel' = kernel \/ \E n : kernel' = [kernel EXCEPT !.suspended = n]
  <2>1. kernel'.ready = kernel.ready /\ kernel'.tcb = kernel.tcb
    BY <1>1, <1>2 DEF KernelOK, KernelShape, KernelFields, Over
  <2> QED BY <2>1, TurnsAlike, TurnSliced DEF Prio
<1>3. CASE \E left : kernel' = EndNotification(kernel, left)
  BY <1>1, <1>3, EndTurns, TurnSliced
<1> QED BY <1>1, <1>2, <1>3, SwitchSliced

\* The rounds of xTaskResumeAll: a late task may be among those still to be readied.
LEMMA ResumingSliced ==
    ASSUME FreeRTOSInv, NEW v \in Tasks, NEW t \in Tasks, Resuming(t)
    PROVE  Sliced(v)
<1>1. kernel.current = t /\ pc[t] = "catchUp" /\ kernel' = CatchUp(kernel)
  BY DEF Resuming, At
<1>2. KernelOK(kernel) /\ kernel.suspended = 0
  BY <1>1, Running DEF Suspending
<1>3. CASE IsEmpty(kernel.event["xPendingReadyList"])
  BY <1>1, <1>2, <1>3, PendedTurns, TurnSliced DEF CatchUp
<1>4. CASE ~IsEmpty(kernel.event["xPendingReadyList"])
  <2>1. kernel' = ReadyPending(kernel)
    BY <1>1, <1>4 DEF CatchUp
  <2>2. PICK u : u = HeadEntry(kernel.event["xPendingReadyList"])
    OBVIOUS
  <2>3. "xPendingReadyList" \in EventLists
    BY DEF EventLists
  <2>4. u \in Tasks /\ Holds(kernel.event["xPendingReadyList"], u)
    BY <1>2, <1>4, <2>2, <2>3, HeadIsHeld DEF KernelOK, KernelLists
  <2>5. Event(kernel, u) = "xPendingReadyList"
    BY <1>2, <2>3, <2>4 DEF KernelOK, Places
  <2>6. Home(kernel, u) = "ready" => u \in Late
    BY <2>4, <2>5, LateIs
  <2>7. {v, First(kernel, v)} \cap Late = {} => InTurn(kernel, kernel', v)
    BY <1>2, <2>1, <2>2, <2>4, <2>6, PendingTurns
  <2> QED BY <2>7 DEF InTurn, NoneBefore, Slices, Sliced
<1> QED BY <1>3, <1>4

\* Delays: the task that delays leaves its list.
LEMMA DelaySliced ==
    ASSUME FreeRTOSInv, CallsInv, NEW v \in Tasks, NEW t \in Tasks, NEW c \in Calls(t),
           vTaskDelay(t, c) \/ vTaskDelayUntil(t, c)
    PROVE  Sliced(v)
<1> DEFINE m == vTaskSuspendAll(kernel)
<1>1. kernel.current = t /\ pc[t] = "user" /\ c \in plan.calls[t]
  BY DEF vTaskDelay, vTaskDelayUntil, Calling, At
<1>2. /\ KernelOK(kernel) /\ kernel.suspended = 0 /\ t # IdleTask /\ wakeTime[t] \in Ticks
  BY <1>1, Running DEF Suspending, Resumes, TaskOK, TimeOK
<1>3. m = [kernel EXCEPT !.suspended = 1]
  BY <1>2 DEF vTaskSuspendAll
<1>4. KernelOK(m) /\ m.current = t /\ m.tick \in Ticks
  BY <1>1, <1>2, <1>3, SuspensionCounted DEF KernelOK, KernelShape
<1>5. m.ready = kernel.ready /\ m.tcb = kernel.tcb
  BY <1>2, <1>3 DEF KernelOK, KernelShape, KernelFields, Over
<1> HIDE DEF m
<1>6. Turns(kernel, m)
  BY <1>5, TurnsAlike DEF Prio
<1>7. ASSUME NEW wake \in Ticks, kernel' = BlockUntil(m, wake) PROVE Sliced(v)
  <2>1. Slices(m, kernel', v)
    BY <1>2, <1>4, <1>7, SleepSlices
  <2> QED BY <1>6, <2>1 DEF Turns, InTurn, NoneBefore, Slices, Sliced
<1>8. CASE vTaskDelay(t, c)
  <2>1. c.ticks \in Ticks
    BY <1>1, <1>8, Planned DEF CallOK, vTaskDelay, Calling
  <2>2. kernel' = vTaskSwitchContext(kernel) \/ kernel' = BlockUntil(m, Stored(m.tick + c.ticks))
    BY <1>8 DEF vTaskDelay, BlockFor, m
  <2> QED BY <1>2, <1>4, <1>7, <2>1, <2>2, StoredIsTick, SwitchSliced
<1>9. CASE vTaskDelayUntil(t, c)
  <2>1. c.increment \in Ticks
    BY <1>1, <1>9, Planned DEF CallOK, vTaskDelayUntil, Calling
  <2>2. kernel' = m \/ kernel' = BlockUntil(m, Stored(wakeTime[t] + c.increment))
    BY <1>9 DEF vTaskDelayUntil, m
  <2> QED BY <1>2, <1>6, <1>7, <2>1, <2>2, StoredIsTick, TurnSliced
<1> QED BY <1>8, <1>9

\* vTaskPlaceOnEventList.
LEMMA PlaceSliced ==
    ASSUME FreeRTOSInv, NEW v \in Tasks, NEW t \in Tasks, Place(t)
    PROVE  Sliced(v)
<1>1. kernel.current = t /\ pc[t] = "place"
  BY DEF Place, At
<1>2. PICK list \in QueueLists : kernel' = vTaskPlaceOnEventList(kernel, list, local[t].ticks)
  BY DEF Place, QueueLists
<1>3. /\ KernelOK(kernel) /\ Home(kernel, t) = "ready" /\ t # IdleTask /\ local[t].ticks \in Ticks
  BY <1>1, Running DEF Closing, Resumes, TaskOK, TimeOK, Waits
<1>4. Event(kernel, t) = "none" /\ list \in EventLists
  BY <1>1, <1>3, WaitsForNothing DEF QueueLists, EventLists, ToSend, ToReceive
<1> QED BY <1>1, <1>2, <1>3, <1>4, PlaceSlices DEF Sliced

\* The calls and the handlers that wake tasks that wait for the queue: none of them is ready.
LEMMA QueueSliced ==
    ASSUME FreeRTOSInv, NEW v \in Tasks,
           \/ kernel' = kernel
           \/ \E list \in {ToSend, ToReceive} :
                 \/ kernel' = WakeAndYield(kernel, list)
                 \/ \E lock : kernel' = WakeFromISR(kernel, list, lock)
                 \/ \E moved \in Int : kernel' = WakeWaiting(kernel, list, moved)
    PROVE  Sliced(v)
<1>1. KernelOK(kernel)
  BY DEF FreeRTOSInv
<1>2. Asleep(kernel)
  BY DEF FreeRTOSInv, TaskOK, EventOK, Asleep, Blocked, ToSend, ToReceive
<1>3. CASE kernel' = kernel
  BY <1>3, TurnsAlike, TurnSliced
<1>4. ASSUME NEW list \in {ToSend, ToReceive}, kernel' = WakeAndYield(kernel, list) PROVE Sliced(v)
  BY <1>1, <1>2, <1>4, WakeSlices DEF Sliced
<1>5. ASSUME NEW list \in {ToSend, ToReceive}, NEW lock, kernel' = WakeFromISR(kernel, list, lock)
      PROVE  Sliced(v)
  BY <1>1, <1>2, <1>5, WakeISRTurns, TurnSliced
<1>6. ASSUME NEW list \in {ToSend, ToReceive}, NEW moved \in Int,
             kernel' = WakeWaiting(kernel, list, moved)
      PROVE  Sliced(v)
  BY <1>1, <1>2, <1>6, WaitingTurns, TurnSliced
<1> QED BY <1>3, <1>4, <1>5, <1>6

\* A task goes to sleep for a notification.
LEMMA AwaitCalls ==
    ASSUME FreeRTOSInv, CallsInv, NEW t \in Tasks, NEW c \in Calls(t), AwaitNotify(t, c)
    PROVE  /\ kernel.current = t /\ KernelOK(kernel) /\ kernel.suspended = 0 /\ t # IdleTask
           /\ Home(kernel, t) = "ready" /\ c.ticks \in Ticks
           /\ \E satisfied \in BOOLEAN, cleared \in Nat :
                 kernel' = AwaitNotification(kernel, satisfied, cleared, c.ticks)
<1>1. /\ kernel.current = t /\ pc[t] = "user" /\ c \in plan.calls[t]
      /\ c.op \in {"ulTaskNotifyTake", "xTaskNotifyWait"}
  BY DEF AwaitNotify, Calling, At
<1>2. /\ KernelOK(kernel) /\ kernel.suspended = 0 /\ t # IdleTask /\ kernel.tcb[t].value \in Nat
      /\ Home(kernel, t) = "ready"
  BY <1>1, Running DEF Suspending, Closing, Resumes, KernelOK, KernelShape, TCBs
<1>3. c.ticks \in Ticks
  BY <1>1, Planned DEF CallOK
<1>4. \E satisfied \in BOOLEAN, cleared \in Nat :
         kernel' = AwaitNotification(kernel, satisfied, cleared, c.ticks)
  <2>1. CASE c.op = "ulTaskNotifyTake"
    <3>1. kernel' = AwaitNotification(kernel, kernel.tcb[t].value # 0, kernel.tcb[t].value, c.ticks)
      BY <2>1 DEF AwaitNotify, Calling
    <3>2. (kernel.tcb[t].value # 0) \in BOOLEAN
      OBVIOUS
    <3> QED BY <1>2, <3>1, <3>2, Zenon
  <2>2. CASE c.op = "xTaskNotifyWait"
    <3> DEFINE cleared == IF c.clearOnEntry THEN 0 ELSE kernel.tcb[t].value
    <3>1. kernel' = AwaitNotification(kernel, kernel.tcb[t].state = eNotified, cleared, c.ticks)
      BY <2>2 DEF AwaitNotify, Calling
    <3>2. (kernel.tcb[t].state = eNotified) \in BOOLEAN /\ cleared \in Nat
      BY <1>2
    <3> QED BY <3>1, <3>2, Zenon
  <2> QED BY <1>1, <2>1, <2>2
<1> QED BY <1>1, <1>2, <1>3, <1>4

LEMMA AwaitSliced ==
    ASSUME FreeRTOSInv, CallsInv, NEW v \in Tasks, NEW t \in Tasks, NEW c \in Calls(t), AwaitNotify(t, c)
    PROVE  Sliced(v)
BY AwaitCalls, AwaitSlices DEF Sliced

\* A task is notified: a ready one goes to the end of its list only if it is late.
LEMMA NotifySliced ==
    ASSUME FreeRTOSInv, CallsInv, NEW v \in Tasks, NEW c, CallOK(c),
           c.op \in {"xTaskNotify", "xTaskNotifyFromISR"}, NEW value,
           value = NotifiedValue(kernel.tcb[c.target], c.action),
           \/ kernel' = xTaskGenericNotify(kernel, c.target, value)
           \/ kernel' = xTaskGenericNotifyFromISR(kernel, c.target, value)
    PROVE  Sliced(v)
<1>1. KernelOK(kernel) /\ kernel.tcb \in [Tasks -> TCBs]
  BY DEF FreeRTOSInv, KernelOK, KernelShape
<1>2. c.target \in Tasks /\ value \in Nat
  BY <1>1, NotifiedValueIsNat DEF CallOK
<1>3. SUFFICES ASSUME {v, First(kernel, v)} \cap Late = {} PROVE Slices(kernel, kernel', v)
  BY DEF Sliced
<1>4. Home(kernel, c.target) = "ready" /\ kernel.tcb[c.target].state = eWaiting =>
          c.target \notin {v, First(kernel, v)}
  BY <1>2, <1>3, LateIs
<1> QED BY <1>1, <1>2, <1>4, NotifySlices, NotifyISRSlices

\* Tasks that come and go.
LEMMA LifeSliced ==
    ASSUME FreeRTOSInv, CallsInv, NEW v \in Tasks, NEW t \in Tasks,
           \/ Add(t) \/ ResetNext(t) \/ Reclaimed(t)
           \/ \E c \in Calls(t) : vTaskDelete(t, c)
    PROVE  Sliced(v)
<1>1. KernelOK(kernel) /\ \A u \in Tasks : TaskOK(u)
  BY DEF FreeRTOSInv
<1>2. CASE Add(t)
  <2>1. PICK new, prio : new = local[t].target /\ prio = local[t].prio
    OBVIOUS
  <2>2. pc[t] = "add" /\ kernel' = AddTask(kernel, new, prio)
    BY <1>2, <2>1 DEF Add, At
  <2>3. Creates(t, local[t])
    BY <1>1, <2>2 DEF TaskOK, LifeOK
  <2>4. prio \in Priorities /\ new \in Tasks /\ pc[new] = "none"
    BY <2>1, <2>3, Planned DEF Creates, CallOK
  <2>5. Home(kernel, new) = "nowhere"
    BY <1>1, <2>4 DEF TaskOK, HomeOK
  <2> QED BY <1>1, <2>2, <2>4, <2>5, AddTurns, TurnSliced
<1>3. CASE ResetNext(t)
  BY <1>1, <1>3, NextReset, TurnSliced DEF ResetNext
<1>4. CASE Reclaimed(t)
  <2>1. \E u \in Tasks : Home(kernel, u) = "termination"
    BY <1>1, <1>4 DEF Reclaimed, At, TaskOK, LifeOK
  <2> QED BY <1>1, <1>4, <2>1, ReclaimTurns, TurnSliced DEF Reclaimed
<1>5. ASSUME NEW c \in Calls(t), vTaskDelete(t, c) PROVE Sliced(v)
  <2>1. kernel' = Terminate(kernel, c.target) /\ c.target \in Tasks \ {IdleTask}
    BY <1>5, Planned DEF vTaskDelete, Calling, At, CallOK
  <2> QED BY <1>1, <2>1, TerminateSlices DEF Sliced
<1> QED BY <1>2, <1>3, <1>4, <1>5

\* Every step.
LEMMA StepSliced ==
    ASSUME SystemInv, [Next]_vars, NEW v \in Tasks
    PROVE  Sliced(v)
<1>1. FreeRTOSInv /\ CallsInv /\ queue.txLock \in Int /\ queue.rxLock \in Int /\ KernelOK(kernel)
  BY BoundAssumption DEF SystemInv, QueueInv, LocksOK, FreeRTOSInv
<1>2. ASSUME NEW t \in Tasks, TaskStep(t) PROVE Sliced(v)
  <2>1. CASE \/ taskYIELD(t) \/ Yield(t) \/ Resume(t) \/ ResumeEnd(t) \/ SuspendForQueue(t)
             \/ Lock(t) \/ Test(t) \/ CollectNotification(t) \/ IdleLook(t) \/ IdleYield(t)
             \/ \E c \in Calls(t) : SuspendAll(t, c) \/ Allocate(t, c)
    BY <1>1, <2>1, ChoiceSteps, ChoiceSliced
  <2>2. CASE Resuming(t) \/ Place(t)
    BY <1>1, <2>2, ResumingSliced, PlaceSliced
  <2>3. CASE Unlock(t)
    BY <1>1, <2>3, QueueSliced DEF Unlock, UnlockTx, UnlockRx
  <2>4. CASE \/ Add(t) \/ ResetNext(t) \/ Reclaimed(t) \/ \E c \in Calls(t) : vTaskDelete(t, c)
    BY <1>1, <2>4, LifeSliced
  <2>5. ASSUME NEW c \in Calls(t), vTaskDelay(t, c) \/ vTaskDelayUntil(t, c) \/ AwaitNotify(t, c)
        PROVE  Sliced(v)
    BY <1>1, <2>5, DelaySliced, AwaitSliced
  <2>6. ASSUME NEW c \in Calls(t), TrySend(t, c) \/ TryReceive(t, c) \/ Reset(t, c) PROVE Sliced(v)
    <3>1. kernel' = kernel \/ \E list \in {ToSend, ToReceive} : kernel' = WakeAndYield(kernel, list)
      BY <2>6 DEF TrySend, TryReceive, Reset, TryQueue, SendItem, PeekItem, ReceiveItem, xQueueReset
    <3> QED BY <1>1, <3>1, QueueSliced
  <2>7. ASSUME NEW c \in Calls(t), SendNotification(t, c) PROVE Sliced(v)
    <3>1. CallOK(c) /\ c.op = "xTaskNotify"
      BY <1>1, <2>7, Planned DEF SendNotification
    <3> QED BY <1>1, <2>7, <3>1, NotifySliced DEF SendNotification
  <2> QED BY <1>2, <2>1, <2>2, <2>3, <2>4, <2>5, <2>6, <2>7 DEF TaskStep
<1>3. CASE Tick
  BY <1>1, <1>3, TickHandled DEF Tick, Sliced
<1>4. ASSUME NEW irq \in plan.irqs, Interrupt(irq) PROVE Sliced(v)
  <2>1. CASE \E list \in {ToSend, ToReceive} : \E lock : kernel' = WakeFromISR(kernel, list, lock)
    BY <1>1, <2>1, QueueSliced
  <2>2. CASE /\ irq.op = "xTaskNotifyFromISR"
             /\ kernel' = xTaskGenericNotifyFromISR(kernel, irq.target,
                                NotifiedValue(kernel.tcb[irq.target], irq.action))
    BY <1>1, <2>2, Planned, NotifySliced
  <2> QED BY <1>4, <2>1, <2>2 DEF Interrupt, SendFromISR, ReceiveFromISR
<1>5. CASE UNCHANGED vars
  BY <1>1, <1>5, QueueSliced DEF vars
<1> QED BY <1>2, <1>3, <1>4, <1>5 DEF Next

-----------------------------------------------------------------------------
(* How long a call on the queue has waited. *)

\* A task on its way round the loop of a call on the queue, and the call.
InWait(t) == pc[t] \in Asking \/ (pc[t] \in Closing \cup {"yield"} /\ local[t].then = "try")
WaitOf(t) == IF pc[t] \in Asking THEN local[t] ELSE local[t].call

\* The ticks from entry to now, but for turns of the counter.
Gone(now, entry) == IF now >= entry THEN now - entry ELSE now - entry + TickMod

\* Of the ticks a call was asked to wait all have passed, or at least those it
\* no longer counts and those since its time-out was set; and where the
\* counter has wrapped and come round to that again, all.
Counted(k, c, all, passed) ==
    /\ all \in Ticks \ {0} /\ passed \in 0 .. all
    /\ passed >= all \/ passed >= all - c.ticks + Gone(k.tick, c.timeOut.entry)
    /\ k.overflows # c.timeOut.overflows /\ k.tick >= c.timeOut.entry => passed >= all

WaitInv ==
    \A t \in Tasks :
        /\ pc[t] = "user" => asked[t] = 0
        /\ InWait(t) => Counted(kernel, WaitOf(t), asked[t], age[t])

\* The calls that wait on the queue: an application has some, t makes one such
\* call, and c is one it makes.
QueueOps == {"xQueueSend", "xQueueReceive"}
WaitsOnQueue == \E t \in Tasks : \E c \in plan.calls[t] : c.op \in QueueOps /\ c.ticks # 0
Makes(t, op) == \E c \in plan.calls[t] : c.op = op /\ c.ticks # 0
Asks(t, c) == "op" \in DOMAIN c /\ c.op \in QueueOps /\ Makes(t, c.op)

\* What a step that counts no tick may do to a wait.
Begins(t) ==
    /\ Asks(t, local'[t])
    /\ pc[t] = "user" /\ pc'[t] = "suspend" /\ local'[t].ticks \in Ticks \ {0}
    /\ local'[t].timeOut = vTaskSetTimeOutState(kernel)
Checks(t) ==
    LET c == local[t]
        waited == xTaskCheckForTimeOut(kernel, c.timeOut, c.ticks)
    IN  /\ pc[t] = "test" /\ ~waited.expired
        /\ WaitOf(t)'.ticks = waited.ticks /\ WaitOf(t)'.timeOut = waited.timeOut
        /\ Asks(t, c) => Asks(t, WaitOf(t)')
WaitStep(t) ==
    \/ pc'[t] = pc[t] /\ local'[t] = local[t]
    \/ ~InWait(t)'
    \/ InWait(t) /\ WaitOf(t)' = WaitOf(t)
    \/ Begins(t) \/ Checks(t)

\* Only a check that finds the time expired gives a call up, and only one that
\* does not lets it sleep.
GivesUp(t) == pc[t] = "test" /\ pc'[t] = "unlockTx" /\ local'[t].then = "user"
GivenUp(t) ==
    /\ GivesUp(t) => xTaskCheckForTimeOut(kernel, local[t].timeOut, local[t].ticks).expired
    /\ pc[t] = "test" /\ pc'[t] = "place" => Checks(t)

\* The call a task waits in has ticks and a time-out.
LEMMA WaitTimed ==
    ASSUME FreeRTOSInv, NEW t \in Tasks, InWait(t)
    PROVE  Waits(WaitOf(t))
<1>1. TimeOK(t)
  BY DEF FreeRTOSInv, TaskOK
<1> QED BY <1>1 DEF TimeOK, InWait, WaitOf, Asking, Closing, Resumes

\* A round of the loop, up to the section under a suspended scheduler.
LEMMA TryWaits ==
    ASSUME FreeRTOSInv, CallsInv, NEW t \in Tasks, NEW c \in Calls(t), TrySend(t, c) \/ TryReceive(t, c),
           NEW u \in Tasks
    PROVE  WaitStep(u) /\ GivenUp(u)
<1>1. /\ pc[t] \in {"user", "try"}
      /\ pc[t] = "user" => c \in plan.calls[t]
      /\ pc[t] = "try" => c = local[t]
      /\ c.op \in {"xQueueSend", "xQueueReceive"}
      /\ \/ Return(t)
         \/ /\ c.ticks # 0 /\ Goto(t, "suspend")
            /\ Keep(t, IF c.timeOut = NoTimeOut
                       THEN [c EXCEPT !.timeOut = vTaskSetTimeOutState(kernel)] ELSE c)
  BY DEF TrySend, TryReceive, TryQueue, Calling, At
<1>2. CASE Return(t)
  <2>1. pc'[t] = "user" /\ (u # t => pc'[u] = pc[u] /\ local'[u] = local[u])
    BY <1>2, Went, Kept DEF Return, Keep
  <2> QED BY <1>1, <2>1 DEF WaitStep, InWait, Asking, Closing, Resumes, GivenUp, GivesUp
<1>3. ASSUME NEW call, c.ticks # 0, Goto(t, "suspend"), Keep(t, call),
             call = IF c.timeOut = NoTimeOut THEN [c EXCEPT !.timeOut = vTaskSetTimeOutState(kernel)] ELSE c
      PROVE  WaitStep(u) /\ GivenUp(u)
  <2>1. /\ pc'[t] = "suspend" /\ local'[t] = call
        /\ u # t => pc'[u] = pc[u] /\ local'[u] = local[u]
    BY <1>3, Went, Kept
  <2>2. CASE pc[t] = "user"
    <3>1. {"op", "ticks", "timeOut"} \subseteq DOMAIN c /\ c.ticks \in Ticks /\ c.timeOut = NoTimeOut
      BY <1>1, <2>2, Planned DEF CallOK
    <3>2. /\ call.ticks = c.ticks /\ call.timeOut = vTaskSetTimeOutState(kernel)
          /\ "op" \in DOMAIN call /\ call.op = c.op
      BY <1>3, <3>1
    <3>3. Asks(t, call)
      BY <1>1, <1>3, <2>2, <3>2 DEF Asks, Makes, QueueOps
    <3>4. Begins(t)
      BY <1>3, <2>1, <2>2, <3>1, <3>2, <3>3 DEF Begins
    <3> QED BY <1>1, <2>1, <3>4 DEF WaitStep, GivenUp, GivesUp
  <2>3. CASE pc[t] = "try"
    <3>1. Waits(c) /\ InWait(t)
      BY <1>1, <2>3 DEF FreeRTOSInv, TaskOK, TimeOK, InWait, Asking
    <3>2. c.timeOut # NoTimeOut
      BY <3>1, TimeAssumption DEF Waits, NoTimeOut, Ticks
    <3>3. WaitOf(t)' = WaitOf(t)
      BY <1>1, <1>3, <2>1, <2>3, <3>2 DEF WaitOf, Asking
    <3> QED BY <1>1, <2>1, <3>1, <3>3 DEF WaitStep, GivenUp, GivesUp
  <2> QED BY <1>1, <2>2, <2>3
<1> QED BY <1>1, <1>2, <1>3

\* The check for a time-out.
LEMMA TestWaits ==
    ASSUME FreeRTOSInv, CallsInv, NEW t \in Tasks, Test(t), NEW u \in Tasks
    PROVE  WaitStep(u) /\ GivenUp(u)
<1> DEFINE c == local[t]
           waited == xTaskCheckForTimeOut(kernel, c.timeOut, c.ticks)
           call == [c EXCEPT !.timeOut = waited.timeOut, !.ticks = waited.ticks]
           done == [call |-> NoCall, then |-> "user", mustYield |-> FALSE]
           again == [call |-> call, then |-> "try", mustYield |-> FALSE]
<1>1. /\ pc[t] = "test"
      /\ \/ Goto(t, "unlockTx") /\ Keep(t, done) /\ waited.expired
         \/ Goto(t, "place") /\ Keep(t, call) /\ ~waited.expired
         \/ Goto(t, "unlockTx") /\ Keep(t, again) /\ ~waited.expired
  BY DEF Test, At
<1>2. Waits(c)
  BY <1>1 DEF FreeRTOSInv, TaskOK, TimeOK
<1>3. call.ticks = waited.ticks /\ call.timeOut = waited.timeOut /\ (Asks(t, c) => Asks(t, call))
  <2> HIDE DEF waited
  <2>1. "op" \in DOMAIN c => "op" \in DOMAIN call /\ call.op = c.op
    OBVIOUS
  <2>2. call.ticks = waited.ticks /\ call.timeOut = waited.timeOut
    BY <1>2 DEF Waits
  <2> QED BY <2>1, <2>2 DEF Asks
<1>4. /\ \/ pc'[t] = "unlockTx" /\ local'[t] = done /\ waited.expired
         \/ pc'[t] = "place" /\ local'[t] = call /\ ~waited.expired
         \/ pc'[t] = "unlockTx" /\ local'[t] = again /\ ~waited.expired
      /\ u # t => pc'[u] = pc[u] /\ local'[u] = local[u]
  <2> HIDE DEF waited, call, done, again
  <2> QED BY <1>1, Went, Kept
<1>5. again.then = "try" /\ again.call = call /\ done.then = "user"
  OBVIOUS
<1> HIDE DEF call, done, again
<1>6. ~InWait(t)' \/ Checks(t)
  BY <1>1, <1>3, <1>4, <1>5 DEF InWait, Checks, WaitOf, Asking, Closing, Resumes
<1>7. GivenUp(t)
  BY <1>4, <1>5, <1>6 DEF GivenUp, GivesUp, InWait, Asking
<1>8. u # t => WaitStep(u) /\ GivenUp(u)
  BY <1>4 DEF WaitStep, GivenUp, GivesUp
<1> QED BY <1>6, <1>7, <1>8 DEF WaitStep

\* Steps of other calls, and those that go on with a call.
LEMMA OtherWaits ==
    ASSUME FreeRTOSInv, CallsInv, NEW t \in Tasks, NEW u \in Tasks,
           \/ taskYIELD(t) \/ Yield(t) \/ Resume(t) \/ Resuming(t) \/ ResumeEnd(t)
           \/ SuspendForQueue(t) \/ Lock(t) \/ Place(t) \/ Unlock(t)
           \/ CollectNotification(t) \/ Add(t) \/ ResetNext(t)
           \/ IdleLook(t) \/ Reclaimed(t) \/ IdleYield(t)
           \/ \E c \in Calls(t) : \/ SuspendAll(t, c) \/ vTaskDelay(t, c) \/ vTaskDelayUntil(t, c)
                                  \/ Reset(t, c) \/ AwaitNotify(t, c) \/ SendNotification(t, c)
                                  \/ Allocate(t, c) \/ vTaskDelete(t, c)
    PROVE  WaitStep(u) /\ GivenUp(u)
<1> DEFINE Ends(v) == pc'[v] \notin Asking \cup Closing \cup {"yield"}
           Same(v) == pc'[v] = pc[v] /\ local'[v] = local[v]
<1>1. ASSUME Same(u) \/ Ends(u) PROVE WaitStep(u) /\ GivenUp(u)
  BY <1>1 DEF WaitStep, InWait, GivenUp, GivesUp, Closing, Asking
<1>2. ASSUME NEW label, NEW call, Goto(t, label), Keep(t, call),
             \/ label \notin Asking \cup Closing \cup {"yield"}
             \/ label \in Closing \cup {"yield"} /\ call.then # "try" /\ pc[t] # "test"
             \/ label \in Asking /\ pc[t] \in Closing \cup {"yield"} /\ local[t].then = "try" /\ call = local[t].call
             \/ label \in Closing \cup {"yield"} /\ pc[t] \in Asking \ {"test"} /\ call.call = local[t]
      PROVE  WaitStep(u) /\ GivenUp(u)
  <2>1. pc'[t] = label /\ local'[t] = call /\ (u # t => Same(u))
    BY <1>2, Went, Kept
  <2>2. Closing \cap Asking = {} /\ "yield" \notin Asking /\ {"test", "yield"} \cap Closing = {}
        /\ "unlockTx" \in Closing /\ {"test", "place"} \subseteq Asking
    BY DEF Closing, Resumes, Asking
  <2>3. WaitStep(t)
    BY <1>2, <2>1, <2>2 DEF WaitStep, InWait, WaitOf
  <2>4. GivenUp(t)
    BY <1>2, <2>1, <2>2 DEF GivenUp, GivesUp
  <2> QED BY <1>1, <2>1, <2>3, <2>4
<1>3. ASSUME NEW label, Goto(t, label), local' = local,
             \/ label \notin Asking \cup Closing \cup {"yield"}
             \/ label \in Closing \cup {"yield"} /\ pc[t] \in Closing \cup {"yield"}
             \/ label \in Closing /\ pc[t] = "held"
             \/ label \in Asking /\ pc[t] \in Asking \ {"test"}
      PROVE  WaitStep(u) /\ GivenUp(u)
  <2>1. pc'[t] = label /\ (u # t => Same(u))
    BY <1>3, Went
  <2>2. Closing \cap Asking = {} /\ "yield" \notin Asking /\ {"test", "yield"} \cap Closing = {}
        /\ "unlockTx" \in Closing /\ {"test", "place"} \subseteq Asking
    BY DEF Closing, Resumes, Asking
  <2>3. pc[t] = "held" => local[t].then = "user"
    BY DEF FreeRTOSInv, TaskOK, LabelOK
  <2>4. WaitStep(t)
    BY <1>3, <2>1, <2>2, <2>3 DEF WaitStep, InWait, WaitOf
  <2>5. GivenUp(t)
    BY <1>3, <2>1, <2>2 DEF GivenUp, GivesUp
  <2> QED BY <1>1, <1>3, <2>1, <2>4, <2>5
<1>4. ASSUME NEW call, NEW label, NEW mustYield, ResumeThen(t, call, label, mustYield), label # "try",
             pc[t] # "test"
      PROVE  WaitStep(u) /\ GivenUp(u)
  BY <1>2, <1>4 DEF ResumeThen, Closing, Resumes
<1>5. CASE Yield(t) \/ ResumeEnd(t)
  <2>1. /\ pc[t] \in {"yield", "catchUp"}
        /\ \/ Goto(t, local[t].then) /\ Keep(t, local[t].call)
           \/ Goto(t, "yield") /\ local' = local
    BY <1>5 DEF Yield, ResumeEnd, At
  <2>2. local[t].then \notin (Asking \cup Unwinding) \ {"try"}
    BY <2>1 DEF CallsInv, Unwinding
  <2>3. local[t].then = "try" \/ local[t].then \notin Asking \cup Closing \cup {"yield"}
    BY <2>2 DEF Unwinding, Closing, Resumes
  <2> QED BY <1>2, <1>3, <2>1, <2>3 DEF Closing, Resumes, Asking
<1>6. CASE Resume(t) \/ SuspendForQueue(t) \/ Lock(t) \/ Unlock(t) \/ ResetNext(t)
  BY <1>3, <1>6 DEF Resume, SuspendForQueue, Lock, Unlock, ResetNext, At, Closing, Resumes, Asking
<1>7. CASE Place(t)
  <2>1. pc[t] = "place" /\ Goto(t, "unlockTx") /\ Keep(t, [call |-> local[t], then |-> "try", mustYield |-> TRUE])
    BY <1>7 DEF Place, At
  <2> QED BY <1>2, <2>1 DEF Closing, Resumes, Asking
<1>8. CASE taskYIELD(t) \/ Resuming(t) \/ IdleYield(t)
  BY <1>1, <1>8 DEF taskYIELD, Resuming, IdleYield
<1>9. CASE CollectNotification(t)
  BY <1>2, <1>9 DEF CollectNotification, Return, Keep, Closing, Resumes, Asking
<1>10. ASSUME NEW v \in Tasks, NEW a, NEW b, NEW w \in Tasks, NEW call,
              pc' = [pc EXCEPT ![t] = a, ![v] = b], Keep(w, call), w \in {t, v},
              a \notin Asking \cup Closing, a = "yield" => call.then = "user" /\ w = t,
              b \notin Asking \cup Closing \cup {"yield"}, pc[t] # "test"
       PROVE  WaitStep(u) /\ GivenUp(u)
  <2>1. pc = [x \in Tasks |-> pc[x]]
    BY DEF CallsInv
  <2>2. /\ pc'[v] = b /\ (t # v => pc'[t] = a)
        /\ u \notin {t, v} => pc'[u] = pc[u]
        /\ local'[w] = call /\ (u # w => local'[u] = local[u])
    BY <1>10, <2>1, Kept
  <2>3. "unlockTx" \in Closing /\ "yield" \notin Asking \cup Closing
    BY DEF Closing, Resumes, Asking
  <2> QED BY <1>1, <1>10, <2>2, <2>3 DEF WaitStep, InWait, GivenUp, GivesUp
<1>11. CASE Add(t)
  <2>1. PICK new : new = local[t].target
    OBVIOUS
  <2>2. /\ pc[t] = "add"
        /\ \/ /\ pc' = [pc EXCEPT ![t] = "yield", ![new] = "user"]
              /\ Keep(t, [call |-> NoCall, then |-> "user"])
           \/ pc' = [pc EXCEPT ![t] = "user", ![new] = "user"] /\ Keep(t, NoCall)
    BY <1>11, <2>1 DEF Add, At
  <2>3. Creates(t, local[t])
    BY <2>2 DEF FreeRTOSInv, TaskOK, LifeOK
  <2>4. new \in Tasks
    BY <2>1, <2>3, Planned DEF Creates, CallOK
  <2> QED BY <1>10, <2>2, <2>4 DEF Closing, Resumes, Asking
<1>12. CASE Reclaimed(t)
  <2>1. /\ kernel.current = t /\ pc[t] = "reclaim" /\ KernelOK(kernel)
        /\ pc' = [pc EXCEPT ![t] = "idle", ![HeadEntry(kernel.termination)] = "none"]
        /\ Keep(HeadEntry(kernel.termination), NoCall)
    BY <1>12 DEF Reclaimed, At, FreeRTOSInv
  <2>2. PICK v \in Tasks : Home(kernel, v) = "termination"
    BY <2>1 DEF FreeRTOSInv, TaskOK, LifeOK
  <2>3. ListTypeOK(kernel.termination) /\ Holds(kernel.termination, v)
    BY <2>1, <2>2 DEF KernelOK, KernelLists, Places
  <2>4. HeadEntry(kernel.termination) \in Tasks
    BY <2>3, EmptyOrNot, HeadIsHeld
  <2> QED BY <1>10, <2>1, <2>4 DEF Closing, Resumes, Asking
<1>13. CASE IdleLook(t)
  BY <1>4, <1>13 DEF IdleLook, At
<1>14. ASSUME NEW c \in Calls(t), \/ SuspendAll(t, c) \/ vTaskDelay(t, c) \/ vTaskDelayUntil(t, c)
                                  \/ Reset(t, c) \/ AwaitNotify(t, c) \/ SendNotification(t, c)
                                  \/ Allocate(t, c)
       PROVE  WaitStep(u) /\ GivenUp(u)
  <2>1. CASE SuspendAll(t, c)
    BY <1>2, <2>1 DEF SuspendAll, Closing, Resumes, Asking
  <2>2. CASE vTaskDelay(t, c) \/ vTaskDelayUntil(t, c)
    BY <1>1, <1>4, <2>2 DEF vTaskDelay, vTaskDelayUntil, Calling, At
  <2>3. CASE Reset(t, c) \/ SendNotification(t, c)
    BY <1>1, <2>3 DEF Reset, SendNotification
  <2>4. CASE AwaitNotify(t, c)
    BY <1>2, <2>4 DEF AwaitNotify, Closing, Resumes, Asking
  <2>5. CASE Allocate(t, c)
    BY <1>4, <2>5 DEF Allocate, Calling, At
  <2> QED BY <1>14, <2>1, <2>2, <2>3, <2>4, <2>5
<1>15. ASSUME NEW c \in Calls(t), vTaskDelete(t, c) PROVE WaitStep(u) /\ GivenUp(u)
  <2>1. pc[t] = "user" /\ c \in plan.calls[t] /\ c.op = "vTaskDelete"
    BY <1>15 DEF vTaskDelete, Calling, At
  <2>2. PICK v \in Tasks : v = c.target
    BY <2>1, Planned DEF CallOK
  <2>3. CASE v = t
    <3>1. Goto(t, "yield") /\ Keep(t, [call |-> NoCall, then |-> "deleted"])
      BY <1>15, <2>2, <2>3 DEF vTaskDelete
    <3> QED BY <1>2, <2>1, <3>1
  <2>4. CASE v # t
    <3>1. pc' = [pc EXCEPT ![t] = "resetNext", ![v] = "deleted"] /\ Keep(v, NoCall)
      BY <1>15, <2>2, <2>4 DEF vTaskDelete
    <3> QED BY <1>10, <2>1, <3>1 DEF Closing, Resumes, Asking
  <2> QED BY <2>3, <2>4
<1> QED
  BY <1>5, <1>6, <1>7, <1>8, <1>9, <1>11, <1>12, <1>13, <1>14, <1>15

\* A step of the system.
LEMMA WaitSteps ==
    ASSUME SystemInv, [Next]_vars, NEW u \in Tasks
    PROVE  /\ WaitStep(u) /\ GivenUp(u)
           /\ \/ kernel'.tick = kernel.tick /\ kernel'.overflows = kernel.overflows
              \/ /\ pc' = pc /\ local' = local
                 /\ kernel'.tick = Stored(kernel.tick + 1)
                 /\ kernel'.overflows = Overflowed(kernel, kernel'.tick)
<1>1. FreeRTOSInv /\ CallsInv
  BY DEF SystemInv, QueueInv
<1>2. ASSUME pc' = pc /\ local' = local PROVE WaitStep(u) /\ GivenUp(u)
  BY <1>2 DEF WaitStep, GivenUp, GivesUp
<1>3. ASSUME NEW t \in Tasks, TaskStep(t) PROVE WaitStep(u) /\ GivenUp(u)
  <2>1. CASE Test(t)
    BY <1>1, <2>1, TestWaits
  <2>2. ASSUME NEW c \in Calls(t), TrySend(t, c) \/ TryReceive(t, c) PROVE WaitStep(u) /\ GivenUp(u)
    BY <1>1, <2>2, TryWaits
  <2> QED BY <1>1, <1>3, <2>1, <2>2, OtherWaits DEF TaskStep
<1>4. ASSUME NEW t \in Tasks, TaskStep(t)
      PROVE  \/ kernel'.tick = kernel.tick /\ kernel'.overflows = kernel.overflows
             \/ /\ pc' = pc /\ local' = local
                /\ kernel'.tick = Stored(kernel.tick + 1)
                /\ kernel'.overflows = Overflowed(kernel, kernel'.tick)
  <2>1. TimeStep
    BY <1>4, TaskKept
  <2> QED BY <2>1 DEF TimeStep, SameTime, Resuming
<1>5. CASE Tick
  BY <1>1, <1>2, <1>5, TickStep DEF Tick
<1>6. ASSUME NEW irq \in plan.irqs, Interrupt(irq)
      PROVE  WaitStep(u) /\ GivenUp(u) /\ kernel'.tick = kernel.tick /\ kernel'.overflows = kernel.overflows
  BY <1>1, <1>2, <1>6, InterruptStep DEF Interrupt, SameTime
<1>7. CASE UNCHANGED vars
  BY <1>2, <1>7 DEF vars
<1> QED BY <1>3, <1>4, <1>5, <1>6, <1>7 DEF Next

\* A tick adds to what has passed, and the counter may wrap.
LEMMA WaitGoesOn ==
    ASSUME NEW all \in Ticks \ {0}, NEW passed \in 0 .. all, NEW ticks \in Ticks, NEW entry \in Ticks,
           NEW tick \in Ticks, NEW now, now = Stored(tick + 1),
           NEW wrapped \in BOOLEAN, NEW wraps \in BOOLEAN, wraps => wrapped \/ now = 0,
           passed >= all \/ passed >= all - ticks + Gone(tick, entry),
           wrapped /\ tick >= entry => passed >= all,
           NEW next, next = IF passed + 1 <= all THEN passed + 1 ELSE all
    PROVE  /\ next \in 0 .. all
           /\ next >= all \/ next >= all - ticks + Gone(now, entry)
           /\ wraps /\ now >= entry => next >= all
<1>1. /\ TickMod \in Nat /\ TickMod > 1 /\ all \in 1 .. TickMod - 1 /\ ticks \in 0 .. TickMod - 1
      /\ entry \in 0 .. TickMod - 1 /\ tick \in 0 .. TickMod - 1 /\ passed \in 0 .. all
      /\ next \in 0 .. all /\ next >= passed
  BY TimeAssumption DEF Ticks
<1>2. now = IF tick = TickMod - 1 THEN 0 ELSE tick + 1
  BY <1>1 DEF Stored
<1>3. CASE Gone(tick, entry) = TickMod - 1
  <2>1. next >= all
    BY <1>1, <1>3
  <2> QED BY <1>1, <2>1
<1>4. CASE Gone(tick, entry) # TickMod - 1
  <2>1. /\ Gone(now, entry) = Gone(tick, entry) + 1 /\ Gone(tick, entry) \in Nat
        /\ wraps /\ now >= entry => wrapped /\ tick >= entry
    BY <1>1, <1>2, <1>4 DEF Gone
  <2> QED BY <1>1, <2>1
<1> QED BY <1>3, <1>4

\* A check that does not find the time expired starts the count anew.
LEMMA WaitChecked ==
    ASSUME NEW all \in Ticks \ {0}, NEW passed \in 0 .. all, NEW ticks \in Ticks, NEW entry \in Ticks,
           NEW now \in Ticks, passed >= all \/ passed >= all - ticks + Gone(now, entry),
           ~(now - entry >= ticks)
    PROVE  passed >= all \/ passed >= all - Remaining(now, entry, ticks) + Gone(now, now)
BY TimeAssumption DEF Ticks, Gone, Remaining, Stored

\* The lesser of two numbers.
LEMMA LesserOf ==
    ASSUME NEW a \in Int, NEW b \in Int
    PROVE  Min({a, b}) = IF a <= b THEN a ELSE b
<1>1. PICK m : m = IF a <= b THEN a ELSE b
  OBVIOUS
<1>2. m \in {a, b} /\ \A y \in {a, b} : m <= y
  BY <1>1
<1>3. \A x \in {a, b} : (\A y \in {a, b} : x <= y) => x = m
  BY <1>1
<1>4. Min({a, b}) = m
  BY <1>2, <1>3 DEF Min
<1> QED BY <1>1, <1>4

-----------------------------------------------------------------------------
(* The delayed lists. *)

\* A call that waits on the queue sleeps for some time.
NoZeroWait == \A t \in Tasks : pc[t] = "place" => local[t].ticks # 0

LEMMA ReadyAwake ==
    ASSUME NEW k, KernelOK(k), NEW t \in Tasks, Home(k, t) \notin Blocked
    PROVE  Awake(k, t)
BY DEF KernelOK, Places, Awake, Blocked

LEMMA ChoiceDelays ==
    ASSUME Timed(kernel),
           \/ kernel' = vTaskSwitchContext(kernel)
           \/ kernel' = kernel
           \/ \E n : kernel' = [kernel EXCEPT !.suspended = n]
           \/ \E left : kernel' = EndNotification(kernel, left)
    PROVE  Delays(kernel, kernel')
<1>1. CASE kernel' = vTaskSwitchContext(kernel)
  BY <1>1, RestsSwitch, DropsOn DEF Delays
<1>2. CASE kernel' = kernel
  BY <1>2, RestsSame, DropsOn DEF Delays
<1>3. ASSUME NEW n, kernel' = [kernel EXCEPT !.suspended = n] PROVE Delays(kernel, kernel')
  <2>1. Rests(kernel, kernel')
    BY <1>3, RestsPending
  <2> QED BY <2>1, DropsOn DEF Delays
<1>4. ASSUME NEW left, kernel' = EndNotification(kernel, left) PROVE Delays(kernel, kernel')
  BY <1>4, NotifyDrops DEF Delays
<1> QED BY <1>1, <1>2, <1>3, <1>4

\* The time vTaskDelayUntil waits: its wake time is not now.
LEMMA UntilIsLater ==
    ASSUME NEW previous \in Ticks, NEW wake \in Ticks, NEW now \in Ticks, DelayUntilWaits(previous, wake, now)
    PROVE  \E n \in 1 .. portMAX_DELAY : wake = Stored(now + n)
<1> DEFINE n == IF wake > now THEN wake - now ELSE wake - now + TickMod
<1>1. TickMod \in Nat /\ wake \in 0 .. TickMod - 1 /\ now \in 0 .. TickMod - 1 /\ previous \in 0 .. TickMod - 1
  BY TimeAssumption DEF Ticks
<1>2. wake # now
  BY <1>1 DEF DelayUntilWaits
<1>3. n \in 1 .. portMAX_DELAY /\ wake = Stored(now + n)
  BY <1>1, <1>2 DEF portMAX_DELAY, Stored
<1> QED BY <1>3

LEMMA DelayDelays ==
    ASSUME FreeRTOSInv, CallsInv, Timed(kernel), NEW t \in Tasks, NEW c \in Calls(t),
           vTaskDelay(t, c) \/ vTaskDelayUntil(t, c)
    PROVE  Delays(kernel, kernel')
<1> DEFINE m == vTaskSuspendAll(kernel)
<1>1. kernel.current = t /\ pc[t] = "user" /\ c \in plan.calls[t]
  BY DEF vTaskDelay, vTaskDelayUntil, Calling, At
<1>2. /\ KernelOK(kernel) /\ kernel.suspended = 0 /\ Home(kernel, t) = "ready" /\ wakeTime[t] \in Ticks
      /\ kernel.tick \in Ticks /\ kernel.next \in Ticks
  BY <1>1, Running DEF Suspending, Closing, Resumes, TaskOK, TimeOK, KernelOK, KernelShape
<1>3. Awake(kernel, t)
  BY <1>2, ReadyAwake DEF Blocked
<1>4. m = [kernel EXCEPT !.suspended = 1]
  BY <1>2 DEF vTaskSuspendAll
<1>5. m.current = t
  BY <1>1, <1>2, <1>4 DEF KernelOK, KernelShape, Over, KernelFields
<1> HIDE DEF m
<1>6. Rests(kernel, m) /\ Timed(m)
  BY <1>4, RestsPending
<1>7. m.tick = kernel.tick /\ m.next = kernel.next /\ Awake(m, t)
  BY <1>3, <1>6 DEF Rests, Leaves, SameSleep, Awake
<1>8. CASE vTaskDelay(t, c)
  <2>1. c.ticks \in Ticks
    BY <1>1, <1>8, Planned DEF CallOK, vTaskDelay, Calling
  <2>2. CASE c.ticks = 0
    <3>1. kernel' = vTaskSwitchContext(kernel)
      BY <1>8, <2>2 DEF vTaskDelay
    <3> QED BY <3>1, ChoiceDelays
  <2>3. CASE c.ticks # 0
    <3>1. kernel' = BlockFor(m, c.ticks)
      BY <1>8, <2>3 DEF vTaskDelay, m
    <3>2. FallsAsleep(m, kernel')
      BY <1>2, <1>5, <1>6, <1>7, <2>1, <2>3, <3>1, BlockSleeps
    <3> QED BY <1>6, <3>2, SleepsOn DEF Delays
  <2> QED BY <2>2, <2>3
<1>9. CASE vTaskDelayUntil(t, c)
  <2> DEFINE wake == Stored(wakeTime[t] + c.increment)
  <2>1. c.increment \in Ticks
    BY <1>1, <1>9, Planned DEF CallOK, vTaskDelayUntil, Calling
  <2>2. wake \in Ticks
    BY <1>2, <2>1, StoredIsTick
  <2>3. \/ kernel' = m
        \/ kernel' = BlockUntil(m, wake) /\ DelayUntilWaits(wakeTime[t], wake, kernel.tick)
    BY <1>9 DEF vTaskDelayUntil, m
  <2> HIDE DEF wake
  <2>4. CASE kernel' = m
    BY <1>6, <2>4, DropsOn DEF Delays
  <2>5. CASE kernel' = BlockUntil(m, wake) /\ DelayUntilWaits(wakeTime[t], wake, kernel.tick)
    <3>1. PICK n \in 1 .. portMAX_DELAY : wake = Stored(kernel.tick + n)
      BY <1>2, <2>2, <2>5, UntilIsLater
    <3>2. Dozes(m, kernel', t, wake)
      BY <1>2, <1>5, <1>6, <1>7, <2>2, <2>5, BlockedDozes
    <3>3. Dozes(kernel, kernel', t, wake)
      BY <1>6, <3>2, DozesOn
    <3> QED BY <1>3, <3>1, <3>3 DEF FallsAsleep, Delays
  <2> QED BY <2>3, <2>4, <2>5
<1> QED BY <1>8, <1>9

LEMMA PlaceDelays ==
    ASSUME FreeRTOSInv, Timed(kernel), NoZeroWait, NEW t \in Tasks, Place(t)
    PROVE  Delays(kernel, kernel')
<1>1. kernel.current = t /\ pc[t] = "place"
  BY DEF Place, At
<1>2. PICK list : kernel' = vTaskPlaceOnEventList(kernel, list, local[t].ticks)
  BY DEF Place
<1>3. /\ KernelOK(kernel) /\ Home(kernel, t) = "ready" /\ local[t].ticks \in Ticks
      /\ kernel.tick \in Ticks /\ kernel.next \in Ticks
  BY <1>1, Running DEF Closing, Resumes, TaskOK, TimeOK, Waits, KernelOK, KernelShape
<1>4. Awake(kernel, t) /\ local[t].ticks # 0
  BY <1>1, <1>3, ReadyAwake DEF Blocked, NoZeroWait
<1>5. FallsAsleep(kernel, kernel')
  BY <1>1, <1>2, <1>3, <1>4, PlaceSleeps
<1> QED BY <1>5 DEF Delays

\* The calls and the handlers that wake tasks that wait for the queue, or
\* leave it to the resume.
LEMMA QueueDelays ==
    ASSUME Timed(kernel),
           \/ kernel' = kernel
           \/ \E list : kernel' = WakeAndYield(kernel, list) \/ \E lock : kernel' = WakeFromISR(kernel, list, lock)
    PROVE  Delays(kernel, kernel')
BY WakeDrops, RestsSame, DropsOn DEF Delays

LEMMA UnlockDelays ==
    ASSUME FreeRTOSInv, Timed(kernel), queue.txLock \in Int, queue.rxLock \in Int, NEW t \in Tasks, Unlock(t)
    PROVE  Delays(kernel, kernel')
<1>1. kernel.current = t /\ pc[t] \in {"unlockTx", "unlockRx"}
  BY DEF Unlock, At
<1>2. kernel.suspended # 0
  BY <1>1, Running DEF Suspending
<1>3. \E list : \E moved \in Int : kernel' = WakeWaiting(kernel, list, moved)
  BY DEF Unlock, UnlockTx, UnlockRx
<1> QED BY <1>2, <1>3, WaitingRests, DropsOn DEF Delays

LEMMA AwaitDelaysStep ==
    ASSUME FreeRTOSInv, CallsInv, Timed(kernel), NEW t \in Tasks, NEW c \in Calls(t), AwaitNotify(t, c)
    PROVE  Delays(kernel, kernel')
<1>1. /\ kernel.current = t /\ KernelOK(kernel) /\ Home(kernel, t) = "ready" /\ c.ticks \in Ticks
  BY AwaitCalls
<1>2. PICK satisfied \in BOOLEAN, cleared \in Nat :
         kernel' = AwaitNotification(kernel, satisfied, cleared, c.ticks)
  BY AwaitCalls
<1>3. Awake(kernel, t) /\ kernel.tick \in Ticks /\ kernel.next \in Ticks
  BY <1>1, ReadyAwake DEF Blocked, KernelOK, KernelShape
<1> QED BY <1>1, <1>2, <1>3, AwaitDelays

\* Tasks that come and go.
LEMMA LifeDelays ==
    ASSUME FreeRTOSInv, CallsInv, Timed(kernel), NEW t \in Tasks,
           \/ Add(t) \/ ResetNext(t) \/ Reclaimed(t)
           \/ \E c \in Calls(t) : vTaskDelete(t, c) \/ SendNotification(t, c)
    PROVE  Delays(kernel, kernel')
<1>1. KernelOK(kernel) /\ \A u \in Tasks : TaskOK(u)
  BY DEF FreeRTOSInv
<1>2. CASE Add(t)
  <2>1. PICK new, prio : new = local[t].target /\ prio = local[t].prio
    OBVIOUS
  <2>2. pc[t] = "add" /\ kernel' = AddTask(kernel, new, prio)
    BY <1>2, <2>1 DEF Add, At
  <2>3. Creates(t, local[t])
    BY <1>1, <2>2 DEF TaskOK, LifeOK
  <2>4. new \in Tasks /\ pc[new] = "none"
    BY <2>1, <2>3, Planned DEF Creates, CallOK
  <2>5. Awake(kernel, new)
    BY <1>1, <2>4, ReadyAwake DEF TaskOK, HomeOK, Blocked
  <2> QED BY <2>2, <2>4, <2>5, AddRests, DropsOn DEF Delays
<1>3. CASE ResetNext(t)
  BY <1>3, ResetNextTimed DEF ResetNext, Delays
<1>4. CASE Reclaimed(t)
  BY <1>4, GoneDrops DEF Reclaimed, Delays
<1>5. ASSUME NEW c \in Calls(t), vTaskDelete(t, c) PROVE Delays(kernel, kernel')
  BY <1>5, GoneDrops DEF vTaskDelete, Delays
<1>6. ASSUME NEW c \in Calls(t), SendNotification(t, c) PROVE Delays(kernel, kernel')
  BY <1>6, NotifyDrops DEF SendNotification, Delays
<1> QED BY <1>2, <1>3, <1>4, <1>5, <1>6

\* Every step.
LEMMA StepDelays ==
    ASSUME SystemInv, Timed(kernel), NoZeroWait, [Next]_vars
    PROVE  Delays(kernel, kernel')
<1>1. /\ FreeRTOSInv /\ CallsInv /\ queue.txLock \in Int /\ queue.rxLock \in Int
      /\ kernel.tick \in Ticks
  BY BoundAssumption DEF SystemInv, QueueInv, LocksOK, FreeRTOSInv, KernelOK, KernelShape
<1>2. ASSUME NEW t \in Tasks, TaskStep(t) PROVE Delays(kernel, kernel')
  <2>1. CASE \/ taskYIELD(t) \/ Yield(t) \/ Resume(t) \/ ResumeEnd(t) \/ SuspendForQueue(t)
             \/ Lock(t) \/ Test(t) \/ CollectNotification(t) \/ IdleLook(t) \/ IdleYield(t)
             \/ \E c \in Calls(t) : SuspendAll(t, c) \/ Allocate(t, c)
    BY <2>1, ChoiceSteps, ChoiceDelays
  <2>2. CASE Resuming(t)
    <3>1. kernel.current = t /\ pc[t] = "catchUp" /\ kernel' = CatchUp(kernel)
      BY <2>2 DEF Resuming, At
    <3>2. kernel.suspended = 0
      BY <1>1, <3>1, Running DEF Suspending
    <3> QED BY <1>1, <3>1, <3>2, CatchUpDelays
  <2>3. CASE Place(t) \/ Unlock(t)
    BY <1>1, <2>3, PlaceDelays, UnlockDelays
  <2>4. CASE \/ Add(t) \/ ResetNext(t) \/ Reclaimed(t)
             \/ \E c \in Calls(t) : vTaskDelete(t, c) \/ SendNotification(t, c)
    BY <1>1, <2>4, LifeDelays
  <2>5. ASSUME NEW c \in Calls(t), vTaskDelay(t, c) \/ vTaskDelayUntil(t, c) \/ AwaitNotify(t, c)
        PROVE  Delays(kernel, kernel')
    BY <1>1, <2>5, DelayDelays, AwaitDelaysStep
  <2>6. ASSUME NEW c \in Calls(t), TrySend(t, c) \/ TryReceive(t, c) \/ Reset(t, c)
        PROVE  Delays(kernel, kernel')
    <3>1. kernel' = kernel \/ \E list : kernel' = WakeAndYield(kernel, list)
      BY <2>6 DEF TrySend, TryReceive, Reset, TryQueue, SendItem, PeekItem, ReceiveItem, xQueueReset
    <3> QED BY <3>1, QueueDelays
  <2> QED BY <1>2, <2>1, <2>2, <2>3, <2>4, <2>5, <2>6 DEF TaskStep
<1>3. CASE Tick
  BY <1>1, <1>3, TickDelays DEF Tick
<1>4. ASSUME NEW irq \in plan.irqs, Interrupt(irq) PROVE Delays(kernel, kernel')
  <2>1. CASE \E list : \E lock : kernel' = WakeFromISR(kernel, list, lock)
    BY <2>1, QueueDelays
  <2>2. CASE \E value : kernel' = xTaskGenericNotifyFromISR(kernel, irq.target, value)
    BY <2>2, NotifyDrops DEF Delays
  <2> QED BY <1>4, <2>1, <2>2 DEF Interrupt, SendFromISR, ReceiveFromISR
<1>5. CASE UNCHANGED vars
  BY <1>5, QueueDelays DEF vars
<1> QED BY <1>2, <1>3, <1>4, <1>5 DEF Next

\* DelayedLists has the time of the kernel.
LEMMA ListsTime ==
    /\ Lists!portMAX_DELAY = portMAX_DELAY /\ \A n : Lists!Later(n) = Stored(kernel.tick + n)
    /\ \A l : Lists!Earliest(l) = EarliestOf(l, [t \in Tasks |-> Wake(kernel, t)])
<1>1. Lists!portMAX_DELAY = portMAX_DELAY
  BY DEF Lists!portMAX_DELAY, portMAX_DELAY
<1>2. \A n : Lists!Later(n) = Stored(kernel.tick + n)
  BY DEF Lists!Later, Lists!Stored, Stored
<1>3. \A l : Lists!Earliest(l) = EarliestOf(l, [t \in Tasks |-> Wake(kernel, t)])
  BY Zenon DEF Lists!Earliest, EarliestOf, Lists!Ticks, Ticks, Lists!portMAX_DELAY, portMAX_DELAY
<1> QED BY <1>1, <1>2, <1>3

\* What the delayed lists of the kernel do is what those of DelayedLists do.
LEMMA DelaysMapped ==
    ASSUME Timed(kernel), Delays(kernel, kernel')
    PROVE  [Lists!DelayedNext]_(Lists!delayedVars)
<1> DEFINE tick == kernel.tick
           next == kernel.next
           near == Listed(kernel.delayed)
           far == Listed(kernel.overflow)
           wake == [t \in Tasks |-> Wake(kernel, t)]
<1>1. /\ near' = Listed(kernel'.delayed) /\ far' = Listed(kernel'.overflow)
      /\ wake' = Wakes(kernel') /\ wake = Wakes(kernel)
  BY DEF Wakes, Wake
<1>2. \A t \in Tasks : /\ t \in near <=> Holds(kernel.delayed, t)
                       /\ t \in far <=> Holds(kernel.overflow, t)
                       /\ t \in near' <=> Holds(kernel'.delayed, t)
                       /\ t \in far' <=> Holds(kernel'.overflow, t)
                       /\ wake[t] = Wake(kernel, t) /\ wake'[t] = Wake(kernel', t)
  BY <1>1 DEF Listed, Wakes
<1>3. /\ near \subseteq Tasks /\ far \subseteq Tasks /\ near' \subseteq Tasks /\ far' \subseteq Tasks
      /\ Over(wake, Tasks) /\ Over(wake', Tasks)
  BY <1>1 DEF Listed, Wakes, Over
<1>4. Timed(kernel')
  BY DelaysTimed
<1>5. CASE Drops(kernel, kernel')
  <2>1. PICK s : Leaves(kernel, kernel', {s})
    BY <1>5 DEF Drops
  <2>2. /\ tick' = tick /\ next' = next
        /\ \A t \in Tasks : IF t = s THEN Awake(kernel', t) ELSE SameSleep(kernel, kernel', t)
    BY <2>1 DEF Leaves
  <2>3. \A t \in Tasks : Awake(kernel', t) => Wake(kernel', t) = 0
    BY <1>4 DEF Timed, Awake
  <2>4. \A t \in Tasks : /\ t \in near' <=> t \in near /\ t # s
                         /\ t \in far' <=> t \in far /\ t # s
                         /\ wake'[t] = IF t = s THEN 0 ELSE wake[t]
    BY <1>2, <2>2, <2>3 DEF Awake, SameSleep
  <2> HIDE DEF tick, next, near, far, wake
  <2>5. near' = near \ {s} /\ far' = far \ {s} /\ wake' = [wake EXCEPT ![s] = 0]
    <3>1. near' = near \ {s}
      BY <1>3, <2>4
    <3>2. far' = far \ {s}
      BY <1>3, <2>4
    <3> QED BY <1>3, <2>4, <3>1, <3>2 DEF Over
  <2>6. CASE s \in Tasks
    <3>1. Lists!Remove(s)
      BY <2>2, <2>5 DEF Lists!Remove, tick, next, near, far, wake
    <3> QED BY <2>6, <3>1 DEF Lists!DelayedNext
  <2>7. CASE s \notin Tasks
    <3>1. near' = near /\ far' = far /\ wake' = wake
      BY <1>3, <2>5, <2>7 DEF Over
    <3> QED BY <2>2, <3>1 DEF Lists!delayedVars, tick, next, near, far, wake
  <2> QED BY <2>6, <2>7
<1>6. CASE Resets(kernel, kernel')
  <2>1. /\ tick' = tick /\ next' = EarliestOf(near, wake)
        /\ \A t \in Tasks : SameSleep(kernel, kernel', t)
    BY <1>1, <1>6 DEF Resets
  <2>2. \A t \in Tasks : (t \in near' <=> t \in near) /\ (t \in far' <=> t \in far) /\ wake'[t] = wake[t]
    BY <1>2, <2>1 DEF SameSleep
  <2> HIDE DEF tick, next, near, far, wake
  <2>3. near' = near /\ far' = far /\ wake' = wake
    BY <1>3, <2>2 DEF Over
  <2>4. Lists!Earliest(near) = EarliestOf(near, wake)
    BY ListsTime DEF wake
  <2>5. Lists!ResetNext
    BY <2>1, <2>3, <2>4 DEF Lists!ResetNext, tick, next, near, far, wake
  <2> QED BY <2>5 DEF Lists!DelayedNext
<1>7. CASE FallsAsleep(kernel, kernel')
  <2>1. PICK s \in Tasks, n \in 1 .. portMAX_DELAY :
           Awake(kernel, s) /\ Dozes(kernel, kernel', s, Stored(tick + n))
    BY <1>7 DEF FallsAsleep
  <2> DEFINE w == Stored(tick + n)
  <2>2. /\ s \notin near /\ s \notin far /\ tick' = tick
        /\ \A t \in Tasks : t # s => (t \in near' <=> t \in near) /\ (t \in far' <=> t \in far) /\ wake'[t] = wake[t]
        /\ wake'[s] = w /\ (s \in far' <=> w < tick) /\ (s \in near' <=> ~(w < tick))
        /\ next' = IF ~(w < tick) /\ w < next THEN w ELSE next
    BY <1>2, <2>1 DEF Dozes, SameSleep, Awake
  <2>3. Lists!Later(n) = w /\ n \in 1 .. Lists!portMAX_DELAY
    BY ListsTime
  <2> HIDE DEF tick, next, near, far, wake, w
  <2>4. wake' = [wake EXCEPT ![s] = w]
    BY <1>3, <2>2 DEF Over
  <2>5. /\ s \notin near \cup far
        /\ IF w < tick THEN far' = far \cup {s} /\ near' = near /\ next' = next
           ELSE near' = near \cup {s} /\ next' = (IF w < next THEN w ELSE next) /\ far' = far
    <3>1. CASE w < tick
      <4>1. far' = far \cup {s} /\ near' = near
        BY <1>3, <2>2, <3>1
      <4> QED BY <2>2, <3>1, <4>1
    <3>2. CASE ~(w < tick)
      <4>1. near' = near \cup {s} /\ far' = far
        BY <1>3, <2>2, <3>2
      <4> QED BY <2>2, <3>2, <4>1
    <3> QED BY <3>1, <3>2
  <2>6. Lists!Block(s, n)
    BY <2>2, <2>3, <2>4, <2>5 DEF Lists!Block, tick, next, near, far, wake
  <2> QED BY <2>3, <2>6 DEF Lists!DelayedNext
<1>8. CASE Counts(kernel, kernel')
  <2> DEFINE now == Stored(tick + 1)
             list == IF now = 0 THEN far ELSE near
             look == now >= (IF now = 0 THEN EarliestOf(list, wake) ELSE next)
             due == IF look THEN {t \in list : wake[t] <= now} ELSE {}
  <2>1. /\ tick' = now
        /\ near' = list \ due
        /\ far' = (IF now = 0 THEN near ELSE far)
        /\ wake' = [t \in Tasks |-> IF t \in due THEN 0 ELSE wake[t]]
        /\ next' = IF look THEN EarliestOf(list \ due, wake)
                   ELSE IF now = 0 THEN EarliestOf(list, wake) ELSE next
    BY <1>1, <1>8, Zenon DEF Counts, DueIn
  <2> DEFINE nowL == Lists!Later(1)
             listL == IF nowL = 0 THEN far ELSE near
             lookL == nowL >= (IF nowL = 0 THEN Lists!Earliest(listL) ELSE next)
             dueL == IF lookL THEN {t \in listL : wake[t] <= nowL} ELSE {}
  <2>2. nowL = now /\ \A l : Lists!Earliest(l) = EarliestOf(l, wake)
    BY ListsTime
  <2> HIDE DEF now, nowL
  <2>3. listL = list
    BY <2>2
  <2> HIDE DEF list, listL
  <2>4. lookL = look
    BY <2>2, <2>3
  <2> HIDE DEF look, lookL
  <2>5. dueL = due
    BY <2>2, <2>3, <2>4
  <2> HIDE DEF due, dueL
  <2>6. /\ tick' = nowL
        /\ near' = listL \ dueL
        /\ far' = (IF nowL = 0 THEN near ELSE far)
        /\ wake' = [t \in Tasks |-> IF t \in dueL THEN 0 ELSE wake[t]]
        /\ next' = IF lookL THEN Lists!Earliest(listL \ dueL)
                   ELSE IF nowL = 0 THEN Lists!Earliest(listL) ELSE next
    <3> HIDE DEF tick, next, near, far, wake
    <3> QED BY <2>1, <2>2, <2>3, <2>4, <2>5
  <2>7. Lists!TickStep
    BY <2>6, Zenon DEF Lists!TickStep, nowL, listL, lookL, dueL
  <2> QED BY <2>7 DEF Lists!DelayedNext
<1> QED BY <1>5, <1>6, <1>7, <1>8 DEF Delays

\* The lists start empty.
LEMMA DelaysStart ==
    ASSUME Init
    PROVE  Lists!DelayedInit
<1>1. /\ Timed(kernel) /\ kernel.tick = 0 /\ kernel.next = portMAX_DELAY
      /\ \A t \in Tasks : Awake(kernel, t)
  BY StartedAwake
<1>2. Listed(kernel.delayed) = {} /\ Listed(kernel.overflow) = {}
  BY <1>1 DEF Listed, Awake
<1>3. \A t \in Tasks : Wake(kernel, t) = 0
  BY <1>1 DEF Timed, Awake
<1> QED BY <1>1, <1>2, <1>3, ListsTime DEF Lists!DelayedInit

-----------------------------------------------------------------------------
(* The theorems. *)

\* A step of the kernel with its history is a step of the kernel.
LEMMA HistoryIsNext == HistoryNext => Next
BY DEF HistoryNext, HistoryTick, HistoryTask, HistoryInterrupt, Next

\* The inductive invariant: whatever the tasks call, and whenever interrupts
\* come, the lists agree with the places the tasks have come to in their calls.
THEOREM FreeRTOSInvHolds == HistorySpec => []SystemInv
<1>1. HistoryInit => SystemInv
  BY SystemStarts DEF HistoryInit
<1>2. SystemInv /\ [HistoryNext]_<<vars, historyVars>> => SystemInv'
  BY SystemKept, HistoryIsNext DEF vars
<1> QED BY <1>1, <1>2, PTL DEF HistorySpec

\* KernelTypeOK: every list of the kernel stays one ring around its end marker,
\* and every counter, pointer and lock count keeps its range.
THEOREM KernelTypeCorrect == HistorySpec => []KernelTypeOK
<1>1. SystemInv => KernelTypeOK
  <2> SUFFICES ASSUME SystemInv PROVE KernelTypeOK
    OBVIOUS
  <2>1. FreeRTOSInv /\ StorageOK(queue) /\ LocksOK /\ KernelShape(kernel) /\ KernelLists(kernel)
    BY DEF SystemInv, QueueInv, FreeRTOSInv, KernelOK
  <2>2. kernel.suspended \in 0 .. 2 /\ kernel.pended \in 0 .. MaxPended
    BY <2>1, BoundAssumption DEF FreeRTOSInv, SuspensionInv, KernelShape
  <2>3. queue.writeTo \in Slots(queue)
    <3>1. /\ queue.uxLength \in Nat \ {0} /\ queue.waiting \in 0 .. queue.uxLength
          /\ queue.readFrom \in Slots(queue) /\ 0 \in 0 .. queue.uxLength
          /\ queue.writeTo = Behind(queue, Onward(queue, queue.readFrom, queue.waiting))
      BY <2>1 DEF StorageOK
    <3>2. Onward(queue, queue.readFrom, queue.waiting) \in Slots(queue)
      BY <3>1, Ring
    <3> QED BY <3>1, <3>2, Ring
  <2> QED BY <2>1, <2>2, <2>3 DEF KernelTypeOK, KernelShape, KernelLists, StorageOK, LocksOK, FreeRTOSInv
<1> QED BY <1>1, FreeRTOSInvHolds, PTL

\* OneStateList: a task that exists is in one list with its generic item, in
\* one event list at most and only while it is blocked or still to be readied.
THEOREM OneListPerTask == HistorySpec => []OneStateList
<1>1. SystemInv => OneStateList
  <2> SUFFICES ASSUME SystemInv, NEW t \in Tasks
               PROVE  /\ IF pc[t] = "none"
                         THEN \A home \in Homes : ~IsIn(kernel, home, t)
                         ELSE \E home \in Homes : \A h \in Homes : IsIn(kernel, h, t) <=> h = home
                      /\ \A p \in Priorities : Holds(kernel.ready[p], t) => p = Prio(kernel, t)
                      /\ \A l \in EventLists : Holds(kernel.event[l], t) =>
                            /\ pc[t] # "none"
                            /\ \A m \in EventLists : Holds(kernel.event[m], t) => m = l
                            /\ \/ t \in Delayed
                               \/ /\ l = "xPendingReadyList"
                                  /\ kernel.suspended # 0 \/ pc[kernel.current] = "catchUp"
                      /\ kernel.current = t => pc[t] # "none" /\ (pc[t] = "user" => Ready(t))
    BY DEF OneStateList
  <2>1. /\ HomeOK(t) /\ EventOK(t) /\ Places(kernel) /\ Prio(kernel, t) \in Priorities /\ FreeRTOSInv
    BY DEF SystemInv, FreeRTOSInv, TaskOK, KernelOK, KernelShape, TCBs, Prio
  <2>2. \A h \in Homes : IsIn(kernel, h, t) <=> Home(kernel, t) = h
    BY <2>1 DEF Places, IsIn, Homes
  <2>3. Home(kernel, t) \in Homes \cup {"nowhere"}
    BY DEF Home, Homes
  <2>4. IF pc[t] = "none" THEN \A home \in Homes : ~IsIn(kernel, home, t)
        ELSE \E home \in Homes : \A h \in Homes : IsIn(kernel, h, t) <=> h = home
    <3>1. CASE pc[t] = "none"
      BY <2>1, <2>2, <3>1 DEF HomeOK, Homes
    <3>2. CASE pc[t] # "none"
      BY <2>1, <2>2, <2>3, <3>2 DEF HomeOK
    <3> QED BY <3>1, <3>2
  <2>5. \A p \in Priorities : Holds(kernel.ready[p], t) => p = Prio(kernel, t)
    BY <2>1 DEF Places
  <2>6. ASSUME NEW l \in EventLists, Holds(kernel.event[l], t)
        PROVE  /\ pc[t] # "none" /\ \A m \in EventLists : Holds(kernel.event[m], t) => m = l
               /\ \/ t \in Delayed
                  \/ /\ l = "xPendingReadyList"
                     /\ kernel.suspended # 0 \/ pc[kernel.current] = "catchUp"
    <3>1. Event(kernel, t) = l /\ \A m \in EventLists : Holds(kernel.event[m], t) => m = l
      BY <2>1, <2>6 DEF Places
    <3>2. l # "none"
      BY DEF EventLists
    <3>3. Home(kernel, t) \in Blocked => t \in Delayed
      BY <2>1 DEF Places, Blocked, Delayed, Listed
    <3>4. \/ Home(kernel, t) \in Blocked
          \/ l = "xPendingReadyList" /\ pc[t] = "collect"
      BY <2>1, <3>1, <3>2 DEF EventOK
    <3>5. pc[t] # "none"
      BY <2>1, <3>4 DEF HomeOK, Blocked
    <3> QED BY <2>1, <3>1, <3>3, <3>4, <3>5 DEF EventOK, Held
  <2>7. ASSUME kernel.current = t PROVE pc[t] # "none" /\ (pc[t] = "user" => Ready(t))
    <3>1. pc[t] # "none" /\ (pc[t] = "user" => Home(kernel, t) = "ready")
      BY <2>1, <2>7, Running DEF Closing, Resumes
    <3> QED BY <2>1, <3>1 DEF Places, Ready
  <2> QED BY <2>4, <2>5, <2>6, <2>7
<1> QED BY <1>1, FreeRTOSInvHolds, PTL

\* TicksKept: the ticks that came under a suspended scheduler are all counted
\* when it is resumed, across the wrap of the counter too.
THEOREM NoTickLost == HistorySpec => []TicksKept
<1>1. HistoryInit => TicksKept
  <2> SUFFICES ASSUME HistoryInit PROVE TicksKept
    OBVIOUS
  <2>1. realTick = 0 /\ kernel.tick = 0 /\ kernel.pended = 0
    BY Started DEF HistoryInit
  <2> QED BY <2>1, TimeAssumption DEF TicksKept, Stored
<1>2. SystemInv /\ TicksKept /\ [HistoryNext]_<<vars, historyVars>> => TicksKept'
  <2> SUFFICES ASSUME SystemInv, TicksKept, [HistoryNext]_<<vars, historyVars>> PROVE TicksKept'
    OBVIOUS
  <2>1. /\ kernel.tick \in Ticks /\ kernel.pended \in Nat /\ kernel.pended <= MaxPended
        /\ MaxPended \in 0 .. TickMod - 1 /\ TickMod \in Nat /\ TickMod > 1
        /\ realTick = Stored(kernel.tick + kernel.pended)
    BY BoundAssumption, TimeAssumption DEF SystemInv, FreeRTOSInv, KernelOK, KernelShape, TicksKept
  <2>2. CASE HistoryTick
    <3>1. Tick /\ realTick' = Stored(realTick + 1)
      BY <2>2 DEF HistoryTick
    <3>2. /\ kernel'.pended \in Nat /\ kernel'.pended <= MaxPended
      BY <3>1, TickStep DEF SystemInv, QueueInv, FreeRTOSInv, KernelOK, KernelShape
    <3>3. IF kernel.suspended # 0
          THEN kernel'.pended = kernel.pended + 1 /\ kernel'.tick = kernel.tick
          ELSE kernel'.pended = kernel.pended /\ kernel'.tick = Stored(kernel.tick + 1)
      BY <3>1, TickStep DEF SystemInv, QueueInv
    <3>4. realTick' = Stored(kernel'.tick + kernel'.pended)
      BY <2>1, <3>1, <3>2, <3>3 DEF Stored, Ticks
    <3> QED BY <3>4 DEF TicksKept
  <2>3. ASSUME realTick' = realTick, TimeStep PROVE TicksKept'
    <3>1. CASE SameTime(kernel, kernel')
      BY <2>1, <2>3, <3>1 DEF SameTime, TicksKept
    <3>2. CASE /\ kernel.pended # 0 /\ kernel'.pended = kernel.pended - 1
               /\ kernel'.tick = Stored(kernel.tick + 1)
      BY <2>1, <2>3, <3>2 DEF TicksKept, Stored, Ticks
    <3> QED BY <2>3, <3>1, <3>2 DEF TimeStep
  <2>4. CASE HistoryTask
    BY <2>3, <2>4, TaskKept DEF HistoryTask
  <2>5. CASE HistoryInterrupt
    BY <2>3, <2>5, InterruptStep DEF HistoryInterrupt, SystemInv, QueueInv, TimeStep
  <2>6. CASE UNCHANGED <<vars, historyVars>>
    BY <2>6 DEF vars, historyVars, TicksKept
  <2> QED BY <2>2, <2>4, <2>5, <2>6 DEF HistoryNext
<1> QED BY <1>1, <1>2, FreeRTOSInvHolds, PTL DEF HistorySpec

\* NoLostNotification: a task that sleeps for a notification has not got it,
\* whoever notified it, and whenever.
THEOREM NotificationsArrive == HistorySpec => []NoLostNotification
<1>1. SystemInv => NoLostNotification
  <2> SUFFICES ASSUME SystemInv, NEW t \in Delayed, pc[t] = "collect", ~Pending(t)
               PROVE  /\ kernel.tcb[t].state = eWaiting
                      /\ local[t].op = "ulTaskNotifyTake" => kernel.tcb[t].value = 0
    BY DEF NoLostNotification
  <2>1. t \in Tasks
    BY DEF Delayed, Listed
  <2>2. EventOK(t) /\ Places(kernel)
    BY <2>1 DEF SystemInv, FreeRTOSInv, TaskOK, KernelOK
  <2>3. Home(kernel, t) \in Blocked
    BY <2>1, <2>2 DEF Places, Delayed, Listed, Blocked
  <2>4. Event(kernel, t) # "xPendingReadyList"
    BY <2>1, <2>2 DEF Places, Pending, EventLists
  <2> QED BY <2>2, <2>3, <2>4 DEF EventOK
<1> QED BY <1>1, FreeRTOSInvHolds, PTL

\* PromptPreemption: whatever makes a task ready that comes before the running
\* one, the switch is made, or noted, or still to be made by the running task; or
\* an interrupt has notified the task, and left the switch to its caller.
THEOREM PreemptionPrompt == HistorySpec => []PromptPreemption
<1> DEFINE PromptInv == \A u \in Tasks : Overlooked(kernel, u) =>
                            pc[kernel.current] = "yield" \/ u \in passedOver
<1>1. HistoryInit => PromptInv
  BY Started DEF HistoryInit, Overlooked
<1>2. SystemInv /\ SystemInv' /\ PromptInv /\ [HistoryNext]_<<vars, historyVars>> => PromptInv'
  <2> SUFFICES ASSUME SystemInv, SystemInv', PromptInv, [HistoryNext]_<<vars, historyVars>>,
                      NEW u \in Tasks, Overlooked(kernel', u)
               PROVE  pc'[kernel'.current] = "yield" \/ u \in passedOver'
    OBVIOUS
  <2>1. u \in ReadyAbove(kernel')
    <3>1. Places(kernel') /\ Prio(kernel', u) \in Priorities
      BY DEF SystemInv, FreeRTOSInv, KernelOK, KernelShape, TCBs, Prio
    <3> QED BY <3>1 DEF ReadyAbove, Overlooked, Above, Places
  <2>2. CASE HistoryTick
    <3>1. Prompt(kernel, kernel') /\ pc' = pc
      BY <2>2, TickStep DEF HistoryTick, Tick, SystemInv, QueueInv
    <3> QED BY <2>1, <2>2, <3>1 DEF Prompt, HistoryTick
  <2>3. CASE HistoryTask
    <3>1. Noticed
      BY <2>3, TaskKept DEF HistoryTask
    <3> QED BY <2>1, <2>3, <3>1 DEF Noticed, HistoryTask
  <2>4. CASE HistoryInterrupt
    <3>1. PICK irq \in plan.irqs :
             /\ Interrupt(irq)
             /\ passedOver' = (passedOver \cup IF irq.op = "xTaskNotifyFromISR" THEN {irq.target} ELSE {})
                                 \cap ReadyAbove(kernel')
      BY <2>4 DEF HistoryInterrupt
    <3>2. NoticedBut(irq) /\ pc' = pc
      BY <3>1, InterruptStep DEF Interrupt, SystemInv, QueueInv
    <3> QED BY <2>1, <3>1, <3>2 DEF NoticedBut
  <2>5. CASE UNCHANGED <<vars, historyVars>>
    BY <2>5 DEF vars, historyVars
  <2> QED BY <2>2, <2>3, <2>4, <2>5 DEF HistoryNext
<1>3. SystemInv /\ PromptInv => PromptPreemption
  <2> SUFFICES ASSUME SystemInv, PromptInv, NEW u \in ReadyAbove(kernel)
               PROVE  kernel.yieldPending \/ pc[kernel.current] = "yield" \/ u \in passedOver
    BY DEF PromptPreemption
  <2>1. u \in Tasks /\ Places(kernel)
    BY DEF ReadyAbove, SystemInv, FreeRTOSInv, KernelOK
  <2>2. Above(kernel, u)
    BY <2>1 DEF ReadyAbove, Places, Above
  <2> QED BY <2>1, <2>2 DEF Overlooked
<1> QED BY <1>1, <1>2, <1>3, FreeRTOSInvHolds, PTL DEF HistorySpec

\* HighestFirst: whatever wakes the tasks that wait for the queue, those of the
\* highest priority are woken first, because the lists they wait in stay sorted.
THEOREM HighestServedFirst == HistorySpec => HighestFirst
<1> DEFINE Sent == EventsSorted(kernel)
           FirstGoes == \A l \in {ToSend, ToReceive} : \A t \in Waiting(l) \ Listed(kernel'.event[l]) :
                        kernel'.tick = kernel.tick /\ ~Holds(kernel'.termination, t) =>
                           \A u \in Listed(kernel'.event[l]) : Prio(kernel, u) <= Prio(kernel, t)
<1>1. HistoryInit => Sent
  <2> SUFFICES ASSUME HistoryInit, NEW l \in {ToSend, ToReceive}
               PROVE  Sorted(kernel.event[l], EventValues(kernel))
    BY DEF EventsSorted
  <2>1. KernelOK(kernel) /\ l \in QueueLists /\ l # "none" /\ \A u \in Tasks : Event(kernel, u) = "none"
    BY Started DEF HistoryInit, QueueLists, ToSend, ToReceive
  <2>2. ListTypeOK(kernel.event[l]) /\ \A u \in Tasks : ~Holds(kernel.event[l], u)
    BY <2>1, ListedByEvent DEF KernelOK, KernelLists, QueueLists, EventLists, ToSend, ToReceive
  <2>3. kernel.event[l] = <<xListEnd>>
    BY <2>2, EmptyOrNot DEF IsEmpty, vListInitialise
  <2> QED BY <2>3 DEF Sorted
<1>2. SystemInv /\ Sent /\ [HistoryNext]_<<vars, historyVars>> => Sent' /\ FirstGoes
  <2> SUFFICES ASSUME SystemInv, Sent, [HistoryNext]_<<vars, historyVars>>
               PROVE  Sent' /\ FirstGoes
    OBVIOUS
  <2>1. InOrder(kernel, kernel')
    BY StepServes, HistoryIsNext DEF vars
  <2>2. Sent'
    BY <2>1 DEF InOrder, Orderly
  <2>3. FirstGoes
    BY <2>1 DEF InOrder, Left, QueueLists, Waiting, Listed
  <2> QED BY <2>2, <2>3
<1>3. FirstGoes => [FirstGoes]_kernel
  OBVIOUS
<1> HIDE DEF Sent, FirstGoes
<1> QED BY <1>1, <1>2, <1>3, FreeRTOSInvHolds, PTL DEF HistorySpec, HighestFirst, FirstGoes

\* FairSlices: while a ready task waits for its turn nobody gets in before it, nor
\* is it moved back, whatever is woken, notified, created or deleted meanwhile -
\* but for a task that is notified when its wait for a notification is over.
THEOREM SlicesAreFair == HistorySpec => FairSlices
<1> DEFINE Fair == \A t \in Tasks :
                     LET first == Head(kernel.ready[Prio(kernel, t)])
                     IN  /\ Ready(t) /\ first # t /\ {t, first} \cap Late = {}
                         /\ Holds(kernel'.ready[Prio(kernel', t)], t) /\ kernel'.current # t
                         => Ahead(kernel', t) \subseteq Ahead(kernel, t)
<1>1. SystemInv /\ [HistoryNext]_<<vars, historyVars>> => Fair
  <2> SUFFICES ASSUME SystemInv, [HistoryNext]_<<vars, historyVars>>, NEW t \in Tasks, Ready(t),
                      {t, First(kernel, t)} \cap Late = {}, First(kernel, t) # t,
                      Holds(kernel'.ready[Prio(kernel', t)], t), kernel'.current # t
               PROVE  Ahead(kernel', t) \subseteq Ahead(kernel, t)
    BY DEF First
  <2>1. Sliced(t)
    BY StepSliced, HistoryIsNext DEF vars
  <2>2. Home(kernel, t) = "ready" /\ Home(kernel', t) = "ready"
    BY DEF SystemInv, FreeRTOSInv, KernelOK, Places, Ready, Home
  <2> QED BY <2>1, <2>2 DEF Sliced, Slices
<1>2. Fair => [Fair]_kernel
  OBVIOUS
<1> HIDE DEF Fair
<1> QED BY <1>1, <1>2, FreeRTOSInvHolds, PTL DEF HistorySpec, FairSlices, Fair

\* What is counted of a wait is what has passed of it.
THEOREM WaitsCounted == HistorySpec => []WaitInv
<1>1. HistoryInit => WaitInv
  <2> SUFFICES ASSUME HistoryInit, NEW t \in Tasks PROVE asked[t] = 0 /\ ~InWait(t)
    BY DEF WaitInv
  <2>1. pc[t] \in {"idle", "user", "none"} /\ asked[t] = 0
    BY DEF HistoryInit, Init
  <2> QED BY <2>1 DEF InWait, Asking, Closing, Resumes
<1>2. SystemInv /\ WaitInv /\ [HistoryNext]_<<vars, historyVars>> => WaitInv'
  <2> SUFFICES ASSUME SystemInv, WaitInv, [HistoryNext]_<<vars, historyVars>>, NEW t \in Tasks
               PROVE  /\ pc'[t] = "user" => asked'[t] = 0
                      /\ InWait(t)' => Counted(kernel, WaitOf(t), asked[t], age[t])'
    BY DEF WaitInv
  <2>1. /\ WaitStep(t)
        /\ \/ kernel'.tick = kernel.tick /\ kernel'.overflows = kernel.overflows
           \/ /\ pc' = pc /\ local' = local
              /\ kernel'.tick = Stored(kernel.tick + 1)
              /\ kernel'.overflows = Overflowed(kernel, kernel'.tick)
    BY HistoryIsNext, WaitSteps DEF vars
  <2>2. /\ FreeRTOSInv /\ kernel.tick \in Ticks
        /\ InWait(t) => pc[t] # "user"
        /\ InWait(t)' => pc'[t] # "user"
    BY DEF SystemInv, FreeRTOSInv, KernelOK, KernelShape, InWait, Asking, Closing, Resumes
  <2>3. CASE UNCHANGED <<vars, historyVars>>
    BY <2>3 DEF vars, historyVars, InWait, WaitOf, Counted, WaitInv
  <2>4. CASE HistoryNext
    <3>1. HistoryStep
      BY <2>4 DEF HistoryNext, HistoryTick, HistoryTask, HistoryInterrupt
    <3>2. /\ asked'[t] = IF pc'[t] = "suspend" /\ pc[t] = "user" THEN local'[t].ticks
                         ELSE IF pc'[t] = "user" THEN 0 ELSE asked[t]
          /\ age'[t] = IF asked'[t] = 0 \/ asked[t] = 0 THEN 0
                       ELSE IF kernel'.tick # kernel.tick THEN Min({age[t] + 1, asked[t]}) ELSE age[t]
      BY <3>1 DEF HistoryStep
    <3>3. ASSUME Begins(t) PROVE Counted(kernel, WaitOf(t), asked[t], age[t])'
      <4>1. asked[t] = 0 /\ asked'[t] = local'[t].ticks /\ asked'[t] \in Ticks \ {0} /\ age'[t] = 0
        BY <3>2, <3>3 DEF Begins, WaitInv
      <4>2. WaitOf(t)' = local'[t]
        BY <3>3 DEF Begins, WaitOf, Asking
      <4>3. /\ local'[t].timeOut.entry = kernel.tick /\ local'[t].timeOut.overflows = kernel.overflows
            /\ kernel'.tick = kernel.tick /\ kernel'.overflows = kernel.overflows
        BY <2>1, <3>3 DEF Begins, vTaskSetTimeOutState
      <4>4. Gone(kernel.tick, kernel.tick) = 0
        BY <2>2 DEF Gone, Ticks
      <4> QED BY <4>1, <4>2, <4>3, <4>4, TimeAssumption DEF Counted, Ticks
    <3>4. ASSUME InWait(t), InWait(t)', WaitOf(t)' = WaitOf(t) \/ Checks(t)
          PROVE  Counted(kernel, WaitOf(t), asked[t], age[t])'
      <4> DEFINE c == WaitOf(t)
      <4>1. Counted(kernel, c, asked[t], age[t]) /\ Waits(c)
        BY <2>2, <3>4, WaitTimed DEF WaitInv
      <4>2. asked'[t] = asked[t] /\ asked[t] # 0
        BY <2>2, <3>2, <3>4, <4>1 DEF Counted
      <4>3. CASE Checks(t) /\ kernel'.tick = kernel.tick /\ kernel'.overflows = kernel.overflows
        <5> DEFINE waited == xTaskCheckForTimeOut(kernel, c.timeOut, c.ticks)
        <5>1. /\ c = local[t] /\ ~waited.expired
              /\ WaitOf(t)'.ticks = waited.ticks /\ WaitOf(t)'.timeOut = waited.timeOut
          BY <4>3 DEF Checks, WaitOf, Asking
        <5> HIDE DEF c
        <5>2. /\ ~(kernel.tick - c.timeOut.entry >= c.ticks)
              /\ WaitOf(t)'.ticks = Remaining(kernel.tick, c.timeOut.entry, c.ticks)
              /\ WaitOf(t)'.timeOut = vTaskSetTimeOutState(kernel)
          BY <5>1 DEF xTaskCheckForTimeOut, Expired
        <5>3. /\ WaitOf(t)'.timeOut.entry = kernel.tick
              /\ WaitOf(t)'.timeOut.overflows = kernel.overflows
          BY <5>2 DEF vTaskSetTimeOutState
        <5>4. /\ age[t] >= asked[t]
                 \/ age[t] >= asked[t] - WaitOf(t)'.ticks + Gone(kernel.tick, kernel.tick)
          BY <2>2, <4>1, <5>2, WaitChecked DEF Counted, Waits
        <5> QED BY <3>2, <4>1, <4>2, <4>3, <5>3, <5>4 DEF Counted
      <4>4. CASE WaitOf(t)' = c /\ kernel'.tick = kernel.tick /\ kernel'.overflows = kernel.overflows
        BY <3>2, <4>1, <4>2, <4>4 DEF Counted
      <4>5. CASE /\ WaitOf(t)' = c /\ kernel'.tick = Stored(kernel.tick + 1)
                 /\ kernel'.overflows = Overflowed(kernel, kernel'.tick)
        <5>1. kernel'.tick # kernel.tick /\ kernel'.tick \in Ticks
          BY <2>2, <4>5, TimeAssumption DEF Stored, Ticks
        <5>2. age'[t] = IF age[t] + 1 <= asked[t] THEN age[t] + 1 ELSE asked[t]
          BY <3>2, <4>1, <4>2, <5>1, LesserOf DEF Counted, Ticks
        <5> HIDE DEF c
        <5>3. PICK wrapped \in BOOLEAN, wraps \in BOOLEAN :
                 /\ wrapped <=> kernel.overflows # c.timeOut.overflows
                 /\ wraps <=> kernel'.overflows # c.timeOut.overflows
          OBVIOUS
        <5>4. wraps => wrapped \/ kernel'.tick = 0
          BY <4>5, <5>3 DEF Overflowed
        <5>5. /\ age'[t] \in 0 .. asked[t]
              /\ age'[t] >= asked[t] \/ age'[t] >= asked[t] - c.ticks + Gone(kernel'.tick, c.timeOut.entry)
              /\ wraps /\ kernel'.tick >= c.timeOut.entry => age'[t] >= asked[t]
          BY <2>2, <4>1, <4>5, <5>2, <5>3, <5>4, WaitGoesOn DEF Counted, Waits
        <5> QED BY <4>1, <4>2, <4>5, <5>3, <5>5 DEF Counted
      <4>6. pc' = pc /\ local' = local => WaitOf(t)' = c
        BY DEF WaitOf
      <4> QED BY <2>1, <3>4, <4>3, <4>4, <4>5, <4>6
    <3>5. ASSUME InWait(t)', pc'[t] = pc[t], local'[t] = local[t]
          PROVE  InWait(t) /\ WaitOf(t)' = WaitOf(t)
      BY <3>5 DEF InWait, WaitOf
    <3>6. InWait(t)' => Counted(kernel, WaitOf(t), asked[t], age[t])'
      <4>1. Checks(t) => InWait(t)
        BY DEF Checks, InWait, Asking
      <4> QED BY <2>1, <3>3, <3>4, <3>5, <4>1 DEF WaitStep
    <3> QED BY <3>2, <3>6
  <2> QED BY <2>3, <2>4
<1> HIDE DEF WaitInv
<1> QED BY <1>1, <1>2, FreeRTOSInvHolds, PTL DEF HistorySpec

\* NeverEarly: no call on the queue gives up before the ticks it was asked to wait
\* have passed, whenever it is woken in between and however the counter wraps.
THEOREM NoWaitEndsEarly == HistorySpec => NeverEarly
<1>1. SystemInv /\ WaitInv /\ [HistoryNext]_<<vars, historyVars>> =>
         \A t \in Tasks : asked[t] > 0 /\ pc[t] = "test" /\ pc'[t] = "unlockTx" /\ local'[t].then = "user"
                             => age[t] >= asked[t]
  <2> SUFFICES ASSUME SystemInv, WaitInv, [HistoryNext]_<<vars, historyVars>>,
                      NEW t \in Tasks, GivesUp(t)
               PROVE  age[t] >= asked[t]
    BY DEF GivesUp
  <2> DEFINE c == local[t]
  <2>1. Expired(kernel.tick, kernel.overflows # c.timeOut.overflows, c.timeOut.entry, c.ticks)
    BY HistoryIsNext, WaitSteps DEF vars, GivenUp, xTaskCheckForTimeOut
  <2>2. InWait(t) /\ WaitOf(t) = c /\ kernel.tick \in Ticks
    BY DEF GivesUp, InWait, WaitOf, Asking, SystemInv, FreeRTOSInv, KernelOK, KernelShape
  <2>3. Waits(c) /\ Counted(kernel, c, asked[t], age[t])
    BY <2>2, WaitTimed DEF WaitInv, SystemInv
  <2> QED BY <2>1, <2>2, <2>3, TimeAssumption DEF Expired, Counted, Gone, Waits, Ticks
<1> DEFINE NotEarly == \A t \in Tasks : asked[t] > 0 /\ pc[t] = "test" /\ pc'[t] = "unlockTx"
                                        /\ local'[t].then = "user" => age[t] >= asked[t]
<1> HIDE DEF WaitInv, NotEarly
<1> QED BY <1>1, FreeRTOSInvHolds, WaitsCounted, PTL DEF HistorySpec, NeverEarly, NotEarly

\* DelaysImplemented: as long as no call on the queue goes to sleep for no time
\* at all, tasks come and go on the delayed lists as DelayedLists says: they are
\* put where their wake time belongs, a tick takes from the lists those that
\* are due and no others, also where it is made up for, and whatever wakes,
\* notifies, deletes or creates a task leaves the others where they are.
THEOREM DelaysOnTheLists == HistorySpec /\ []NoZeroWait => DelaysImplemented
<1>1. HistoryInit => Timed(kernel) /\ Lists!DelayedInit
  BY StartedAwake, DelaysStart DEF HistoryInit
<1>2. SystemInv /\ NoZeroWait /\ Timed(kernel) /\ [HistoryNext]_<<vars, historyVars>> =>
         Timed(kernel)' /\ [Lists!DelayedNext]_(Lists!delayedVars)
  <2> SUFFICES ASSUME SystemInv, NoZeroWait, Timed(kernel), [HistoryNext]_<<vars, historyVars>>
               PROVE  Timed(kernel') /\ [Lists!DelayedNext]_(Lists!delayedVars)
    OBVIOUS
  <2>1. Delays(kernel, kernel')
    BY StepDelays, HistoryIsNext DEF vars
  <2> QED BY <2>1, DelaysTimed, DelaysMapped
<1> QED BY <1>1, <1>2, FreeRTOSInvHolds, PTL DEF HistorySpec, DelaysImplemented, Lists!DelayedSpec

-----------------------------------------------------------------------------
(* Waits that end before the counter wraps. *)

\* Calls that wait on the queue are made only where the clock of the plan ends
\* before the counter wraps.
WaitsEnd == WaitsOnQueue => plan.lastTick \in Ticks

\* Then a call waits for some time, from now on or a little before, and what it
\* has waited and still waits for is no more than it was asked to.
EndsInTime(k, c, all, passed) ==
    /\ WaitsOnQueue /\ c.ticks # 0 /\ c.timeOut.entry <= k.tick
    /\ passed + c.ticks <= all + (k.tick - c.timeOut.entry)

EndInv ==
    /\ WaitsEnd
    /\ WaitsOnQueue => kernel.tick + kernel.pended <= plan.lastTick
    /\ \A t \in Tasks : InWait(t) => EndsInTime(kernel, WaitOf(t), asked[t], age[t])

\* The plan is chosen once.
LEMMA PlanStays ==
    ASSUME [Next]_vars
    PROVE  plan' = plan
<1>1. ASSUME NEW t \in Tasks, TaskStep(t) PROVE plan' = plan
  <2>1. CASE \/ taskYIELD(t) \/ Yield(t) \/ Resume(t) \/ Resuming(t) \/ ResumeEnd(t)
             \/ SuspendForQueue(t) \/ Lock(t) \/ Test(t) \/ Place(t) \/ Unlock(t)
    BY <2>1 DEF taskYIELD, Yield, Resume, Resuming, ResumeEnd, SuspendForQueue, Lock, Test, Place, Unlock
  <2>2. CASE \/ CollectNotification(t) \/ Add(t) \/ ResetNext(t)
             \/ IdleLook(t) \/ Reclaimed(t) \/ IdleYield(t)
    BY <2>2 DEF CollectNotification, Add, ResetNext, IdleLook, Reclaimed, IdleYield
  <2>3. ASSUME NEW c \in Calls(t),
               \/ SuspendAll(t, c) \/ vTaskDelay(t, c) \/ vTaskDelayUntil(t, c)
               \/ TrySend(t, c) \/ TryReceive(t, c) \/ Reset(t, c)
        PROVE  plan' = plan
    BY <2>3 DEF SuspendAll, vTaskDelay, vTaskDelayUntil, TrySend, TryReceive, Reset, TryQueue
  <2>4. ASSUME NEW c \in Calls(t),
               AwaitNotify(t, c) \/ SendNotification(t, c) \/ Allocate(t, c) \/ vTaskDelete(t, c)
        PROVE  plan' = plan
    BY <2>4 DEF AwaitNotify, SendNotification, Allocate, vTaskDelete
  <2> QED BY <1>1, <2>1, <2>2, <2>3, <2>4 DEF TaskStep
<1> QED BY <1>1 DEF Next, Tick, Interrupt, vars

\* The clock stays behind its end, and does not wrap.
LEMMA ClockEnds ==
    ASSUME SystemInv, plan.lastTick \in Ticks, kernel.tick + kernel.pended <= plan.lastTick, [Next]_vars
    PROVE  /\ kernel'.tick + kernel'.pended <= plan.lastTick
           /\ kernel'.tick = kernel.tick \/ kernel'.tick = kernel.tick + 1
<1>1. /\ FreeRTOSInv /\ CallsInv /\ TickMod \in Nat /\ kernel.tick \in 0 .. TickMod - 1
      /\ kernel.pended \in Nat /\ plan.lastTick \in 0 .. TickMod - 1
  BY TimeAssumption DEF SystemInv, QueueInv, FreeRTOSInv, KernelOK, KernelShape, Ticks
<1>2. CASE SameTime(kernel, kernel')
  BY <1>2 DEF SameTime
<1>3. CASE /\ kernel.pended # 0 /\ kernel'.pended = kernel.pended - 1
           /\ kernel'.tick = Stored(kernel.tick + 1)
  BY <1>1, <1>3 DEF Stored
<1>4. CASE \E t \in Tasks : TaskStep(t)
  BY <1>2, <1>3, <1>4, TaskKept DEF TimeStep
<1>5. CASE Tick
  <2>1. kernel.tick + kernel.pended < plan.lastTick
    BY <1>5 DEF Tick
  <2>2. \/ kernel'.pended = kernel.pended + 1 /\ kernel'.tick = kernel.tick
        \/ kernel'.pended = kernel.pended /\ kernel'.tick = Stored(kernel.tick + 1)
    BY <1>1, <1>5, TickStep
  <2> QED BY <1>1, <2>1, <2>2 DEF Stored
<1>6. CASE \E irq \in plan.irqs : Interrupt(irq)
  BY <1>1, <1>2, <1>6, InterruptStep
<1>7. CASE UNCHANGED vars
  BY <1>2, <1>7 DEF vars, SameTime
<1> QED BY <1>4, <1>5, <1>6, <1>7 DEF Next

\* A check that does not find the time expired, where the counter has not wrapped.
LEMMA EndChecked ==
    ASSUME NEW all \in Int, NEW passed \in Int, NEW ticks \in Ticks, NEW entry \in Ticks, NEW now \in Ticks,
           entry <= now, ~(now - entry >= ticks), passed + ticks <= all + (now - entry)
    PROVE  /\ Remaining(now, entry, ticks) \in Ticks \ {0}
           /\ passed + Remaining(now, entry, ticks) <= all
BY TimeAssumption DEF Ticks, Remaining, Stored

\* A step of the system with its history.
LEMMA EndKept ==
    ASSUME SystemInv, WaitInv, EndInv, [HistoryNext]_<<vars, historyVars>>
    PROVE  EndInv'
<1>1. [Next]_vars
  BY HistoryIsNext DEF vars
<1>2. /\ plan' = plan /\ WaitsOnQueue' = WaitsOnQueue /\ WaitsEnd'
      /\ WaitsOnQueue => /\ kernel'.tick + kernel'.pended <= plan.lastTick
                         /\ kernel'.tick = kernel.tick \/ kernel'.tick = kernel.tick + 1
  <2>1. plan' = plan
    BY <1>1, PlanStays
  <2>2. WaitsOnQueue' = WaitsOnQueue /\ WaitsEnd'
    BY <2>1 DEF WaitsOnQueue, WaitsEnd, EndInv
  <2> QED BY <1>1, <2>1, <2>2, ClockEnds DEF EndInv, WaitsEnd
<1>3. FreeRTOSInv /\ kernel.tick \in Ticks
  BY DEF SystemInv, FreeRTOSInv, KernelOK, KernelShape
<1>4. ASSUME NEW t \in Tasks, InWait(t)' PROVE EndsInTime(kernel, WaitOf(t), asked[t], age[t])'
  <2>1. /\ WaitStep(t)
        /\ \/ kernel'.tick = kernel.tick
           \/ pc' = pc /\ local' = local /\ kernel'.tick = Stored(kernel.tick + 1)
    BY <1>1, WaitSteps
  <2>2. /\ InWait(t) => pc[t] # "user"
        /\ pc'[t] # "user"
    BY <1>4 DEF InWait, Asking, Closing, Resumes
  <2>3. CASE UNCHANGED <<vars, historyVars>>
    BY <1>4, <2>3 DEF vars, historyVars, InWait, WaitOf, EndsInTime, WaitsOnQueue, EndInv
  <2>4. CASE HistoryNext
    <3>1. HistoryStep
      BY <2>4 DEF HistoryNext, HistoryTick, HistoryTask, HistoryInterrupt
    <3>2. /\ asked'[t] = IF pc'[t] = "suspend" /\ pc[t] = "user" THEN local'[t].ticks
                         ELSE IF pc'[t] = "user" THEN 0 ELSE asked[t]
          /\ age'[t] = IF asked'[t] = 0 \/ asked[t] = 0 THEN 0
                       ELSE IF kernel'.tick # kernel.tick THEN Min({age[t] + 1, asked[t]}) ELSE age[t]
      BY <3>1 DEF HistoryStep
    <3>3. CASE Begins(t)
      <4>1. /\ WaitsOnQueue
            /\ asked'[t] = local'[t].ticks /\ local'[t].ticks \in Ticks \ {0} /\ age'[t] = 0
        <5>1. WaitsOnQueue
          BY <3>3 DEF Begins, Asks, Makes, WaitsOnQueue
        <5> QED BY <3>2, <3>3, <5>1 DEF Begins, WaitInv
      <4>2. WaitOf(t)' = local'[t]
        BY <3>3 DEF Begins, WaitOf, Asking
      <4>3. local'[t].timeOut.entry = kernel.tick /\ kernel'.tick = kernel.tick
        BY <2>1, <3>3 DEF Begins, vTaskSetTimeOutState
      <4> QED BY <1>2, <1>3, <4>1, <4>2, <4>3, TimeAssumption DEF EndsInTime, Ticks
    <3>4. CASE InWait(t) /\ (WaitOf(t)' = WaitOf(t) \/ Checks(t))
      <4> DEFINE c == WaitOf(t)
      <4>1. Counted(kernel, c, asked[t], age[t]) /\ Waits(c) /\ EndsInTime(kernel, c, asked[t], age[t])
        BY <1>3, <3>4, WaitTimed DEF WaitInv, EndInv
      <4>2. asked'[t] = asked[t] /\ asked[t] # 0
        BY <2>2, <3>2, <3>4, <4>1 DEF Counted
      <4>3. /\ asked[t] \in Nat /\ age[t] \in Nat /\ c.ticks \in Ticks /\ c.timeOut.entry \in Ticks
            /\ Ticks \subseteq Nat
        BY <4>1, TimeAssumption DEF Counted, Waits, Ticks
      <4>4. CASE Checks(t) /\ kernel'.tick = kernel.tick
        <5> DEFINE waited == xTaskCheckForTimeOut(kernel, c.timeOut, c.ticks)
        <5>1. /\ c = local[t] /\ ~waited.expired
              /\ WaitOf(t)'.ticks = waited.ticks /\ WaitOf(t)'.timeOut = waited.timeOut
          BY <4>4 DEF Checks, WaitOf, Asking
        <5> HIDE DEF c
        <5>2. /\ ~(kernel.tick - c.timeOut.entry >= c.ticks)
              /\ WaitOf(t)'.ticks = Remaining(kernel.tick, c.timeOut.entry, c.ticks)
              /\ WaitOf(t)'.timeOut = vTaskSetTimeOutState(kernel)
          BY <5>1 DEF xTaskCheckForTimeOut, Expired
        <5>3. WaitOf(t)'.timeOut.entry = kernel.tick
          BY <5>2 DEF vTaskSetTimeOutState
        <5>4. WaitOf(t)'.ticks \in Ticks \ {0} /\ age[t] + WaitOf(t)'.ticks <= asked[t]
          <6>1. /\ c.timeOut.entry <= kernel.tick
                /\ age[t] + c.ticks <= asked[t] + (kernel.tick - c.timeOut.entry)
            BY <4>1 DEF EndsInTime
          <6>2. asked[t] \in Int /\ age[t] \in Int
            BY <4>3
          <6>3. /\ Remaining(kernel.tick, c.timeOut.entry, c.ticks) \in Ticks \ {0}
                /\ age[t] + Remaining(kernel.tick, c.timeOut.entry, c.ticks) <= asked[t]
            BY <1>3, <4>3, <5>2, <6>1, <6>2, EndChecked
          <6> QED BY <5>2, <6>3
        <5>5. age'[t] = age[t]
          BY <3>2, <4>2, <4>4
        <5>6. kernel'.tick - kernel.tick = 0 /\ kernel.tick <= kernel.tick /\ asked[t] + 0 = asked[t]
          BY <1>3, <4>3, <4>4, TimeAssumption DEF Ticks
        <5>7. WaitsOnQueue'
          BY <1>2, <4>1 DEF EndsInTime
        <5> QED BY <4>2, <4>4, <5>3, <5>4, <5>5, <5>6, <5>7 DEF EndsInTime
      <4>5. CASE WaitOf(t)' = c /\ kernel'.tick = kernel.tick
        BY <1>2, <3>2, <4>1, <4>2, <4>5 DEF EndsInTime
      <4>6. CASE WaitOf(t)' = c /\ kernel'.tick = Stored(kernel.tick + 1)
        <5>1. kernel'.tick = kernel.tick + 1
          BY <1>2, <1>3, <4>1, <4>6, TimeAssumption DEF EndsInTime, Stored, Ticks
        <5>2. age'[t] <= age[t] + 1 /\ age'[t] \in Nat
          <6>1. age'[t] = IF age[t] + 1 <= asked[t] THEN age[t] + 1 ELSE asked[t]
            <7>1. kernel'.tick # kernel.tick /\ age[t] + 1 \in Int /\ asked[t] \in Int
              BY <1>3, <4>3, <5>1, TimeAssumption DEF Ticks
            <7>2. age'[t] = Min({age[t] + 1, asked[t]})
              BY <3>2, <4>2, <7>1
            <7> QED BY <7>1, <7>2, LesserOf
          <6> QED BY <4>3, <6>1
        <5> HIDE DEF c
        <5>3. /\ WaitsOnQueue' /\ c.ticks # 0 /\ c.timeOut.entry <= kernel.tick
              /\ age[t] + c.ticks <= asked[t] + (kernel.tick - c.timeOut.entry)
          BY <1>2, <4>1 DEF EndsInTime
        <5>4. /\ c.timeOut.entry <= kernel.tick + 1
              /\ age'[t] + c.ticks <= asked[t] + ((kernel.tick + 1) - c.timeOut.entry)
          BY <1>3, <4>3, <5>2, <5>3, TimeAssumption DEF Ticks
        <5> QED BY <4>2, <4>6, <5>1, <5>3, <5>4 DEF EndsInTime
      <4>7. pc' = pc /\ local' = local => WaitOf(t)' = c
        BY DEF WaitOf
      <4> QED BY <2>1, <3>4, <4>4, <4>5, <4>6, <4>7
    <3>5. pc'[t] = pc[t] /\ local'[t] = local[t] => InWait(t) /\ WaitOf(t)' = WaitOf(t)
      BY <1>4 DEF InWait, WaitOf
    <3>6. Checks(t) => InWait(t)
      BY DEF Checks, InWait, Asking
    <3> QED BY <1>4, <2>1, <3>3, <3>4, <3>5, <3>6 DEF WaitStep
  <2> QED BY <2>3, <2>4
<1> QED BY <1>2, <1>4 DEF EndInv

LEMMA EndStarts ==
    ASSUME HistoryInit, WaitsEnd
    PROVE  EndInv
<1>1. kernel.tick = 0 /\ kernel.pended = 0
  BY Started DEF HistoryInit
<1>2. \A t \in Tasks : ~InWait(t)
  BY DEF HistoryInit, Init, InWait, Asking, Closing, Resumes
<1> QED BY <1>1, <1>2, TimeAssumption DEF EndInv, WaitsEnd, Ticks

\* Where every wait on the queue ends before the counter wraps, the delayed
\* lists do what DelayedLists says.  (Across the wrap xTaskCheckForTimeOut may
\* leave nothing to wait for without finding the time expired.)
THEOREM DelaysKept == HistorySpec /\ WaitsEnd => DelaysImplemented
<1>1. HistoryInit /\ WaitsEnd => EndInv
  BY EndStarts
<1>2. SystemInv /\ WaitInv /\ EndInv /\ [HistoryNext]_<<vars, historyVars>> => EndInv'
  BY EndKept
<1>3. EndInv => NoZeroWait
  BY DEF EndInv, EndsInTime, NoZeroWait, InWait, WaitOf, Asking
<1> QED BY <1>1, <1>2, <1>3, FreeRTOSInvHolds, WaitsCounted, DelaysOnTheLists, PTL DEF HistorySpec

\* And no call sleeps longer than it was asked to: only the wrap of the counter
\* makes one wait for longer.
THEOREM WaitsAreBounded == HistorySpec /\ WaitsEnd => WaitIsBounded
<1> DEFINE Bounded == \A t \in Tasks : pc[t] = "test" /\ pc'[t] = "place" => age[t] + local'[t].ticks <= asked[t]
<1>1. HistoryInit /\ WaitsEnd => EndInv
  BY EndStarts
<1>2. SystemInv /\ WaitInv /\ EndInv /\ [HistoryNext]_<<vars, historyVars>> => EndInv'
  BY EndKept
<1>3. SystemInv /\ WaitInv /\ EndInv /\ [HistoryNext]_<<vars, historyVars>> => Bounded
  <2> SUFFICES ASSUME SystemInv, WaitInv, EndInv, [HistoryNext]_<<vars, historyVars>>,
                      NEW t \in Tasks, pc[t] = "test", pc'[t] = "place"
               PROVE  age[t] + local'[t].ticks <= asked[t]
    OBVIOUS
  <2> DEFINE c == local[t]
             waited == xTaskCheckForTimeOut(kernel, c.timeOut, c.ticks)
  <2>1. InWait(t) /\ WaitOf(t) = c /\ kernel.tick \in Ticks
    BY DEF InWait, WaitOf, Asking, SystemInv, FreeRTOSInv, KernelOK, KernelShape
  <2>2. Waits(c) /\ Counted(kernel, c, asked[t], age[t]) /\ EndsInTime(kernel, c, asked[t], age[t])
    BY <2>1, WaitTimed DEF WaitInv, EndInv, SystemInv
  <2>3. WaitOf(t)' = local'[t]
    BY DEF WaitOf, Asking
  <2>4. Checks(t)
    BY HistoryIsNext, WaitSteps DEF vars, GivenUp
  <2>5. local'[t].ticks = waited.ticks /\ ~waited.expired
    BY <2>3, <2>4 DEF Checks
  <2> HIDE DEF c
  <2>6. /\ ~(kernel.tick - c.timeOut.entry >= c.ticks)
        /\ local'[t].ticks = Remaining(kernel.tick, c.timeOut.entry, c.ticks)
    BY <2>5 DEF xTaskCheckForTimeOut, Expired
  <2>7. /\ asked[t] \in Int /\ age[t] \in Int /\ c.ticks \in Ticks /\ c.timeOut.entry \in Ticks
    BY <2>2, TimeAssumption DEF Counted, Waits, Ticks
  <2> QED BY <2>1, <2>2, <2>6, <2>7, EndChecked DEF EndsInTime
<1> HIDE DEF Bounded
<1> QED BY <1>1, <1>2, <1>3, FreeRTOSInvHolds, WaitsCounted, PTL DEF HistorySpec, WaitIsBounded, Bounded

-----------------------------------------------------------------------------
(* Wake-ups. *)

\* The list where a call waits, what there is for it in the queue, and the lock
\* that counts what an interrupt has added to that.
QueueList(op) == IF op = "xQueueSend" THEN ToSend ELSE ToReceive
Supply(op) == IF op = "xQueueSend" THEN queue.uxLength - queue.waiting ELSE queue.waiting
LockOf(op) == IF op = "xQueueSend" THEN queue.rxLock ELSE queue.txLock

\* t will look at the queue again before it sleeps once more; t waits; and what
\* a wake-up that is not lost means: for all there is in the queue a task is on
\* its way, or a count of the lock.
Heads(t, op) ==
    \/ pc[t] = "try" /\ local[t].op = op
    \/ pc[t] \in Closing \cup {"yield"} /\ local[t].then = "try" /\ local[t].call.op = op
Waiters(op) == {t \in Tasks : Event(kernel, t) = QueueList(op)}
Served(op) == Supply(op) <= Cardinality(InFlight(op)) + Max2(LockOf(op), 0)
Ledger(op) == (\A t \in Waiters(op) : Heads(t, op)) /\ (Waiters(op) # {} => Served(op))

\* A task that looks has locked the queue; it goes on to sleep where there was
\* nothing, and all there is since then is counted.
Looking(t) ==
    /\ pc[t] \in {"test", "place"} => queue.rxLock >= 0 /\ queue.txLock >= 0
    /\ pc[t] = "place" => Supply(local[t].op) <= LockOf(local[t].op)

WakeInv ==
    /\ \A t \in Tasks : Looking(t) /\ (InWait(t) => Asks(t, WaitOf(t)))
    /\ \A op \in QueueOps : Ledger(op)

\* Tasks that are up, by the lists.
LEMMA UpIs ==
    ASSUME NEW k, KernelOK(k), NEW t \in Tasks
    PROVE  Up(k, t) <=> \/ t \notin Listed(k.delayed) \cup Listed(k.overflow)
                        \/ Holds(k.event["xPendingReadyList"], t)
<1>1. "xPendingReadyList" \in EventLists
  BY DEF EventLists
<1> QED BY <1>1 DEF KernelOK, Places, Up, Listed, Blocked

LEMMA InFlightIs ==
    ASSUME KernelOK(kernel)
    PROVE  \A op, t : t \in InFlight(op) <=> t \in Tasks /\ Up(kernel, t) /\ Heads(t, op)
BY UpIs DEF InFlight, Delayed, Pending, Heads, Closing, Resumes

LEMMA InFlightNext ==
    ASSUME KernelOK(kernel')
    PROVE  \A op, t : t \in InFlight(op)' <=> t \in Tasks /\ Up(kernel', t) /\ Heads(t, op)'
BY UpIs DEF InFlight, Delayed, Pending, Heads, Closing, Resumes

\* Where some leave a set and others come to it.
LEMMA Exchanged ==
    ASSUME NEW F \in SUBSET Tasks, NEW G \in SUBSET Tasks, NEW X \in SUBSET Tasks, NEW Y \in SUBSET Tasks,
           X \cap F = {}, F \ Y \subseteq G, X \subseteq G
    PROVE  /\ \A S \in {F, G, X, Y} : Cardinality(S) \in Nat
           /\ Cardinality(F) + Cardinality(X) <= Cardinality(G) + Cardinality(Y)
<1>1. \A S \in SUBSET Tasks : IsFiniteSet(S) /\ Cardinality(S) \in Nat
  BY MemoryAssumption, FS_Subset, FS_CardinalityType
<1>2. Cardinality(F \cup X) = Cardinality(F) + Cardinality(X)
  <2>1. Cardinality(F \cup X) = Cardinality(F) + Cardinality(X) - Cardinality(F \cap X)
    BY <1>1, FS_Union
  <2>2. F \cap X = {}
    OBVIOUS
  <2> QED BY <1>1, <2>1, <2>2, FS_EmptySet
<1>3. Cardinality(G \cup Y) <= Cardinality(G) + Cardinality(Y)
  <2>1. Cardinality(G \cup Y) = Cardinality(G) + Cardinality(Y) - Cardinality(G \cap Y)
    BY <1>1, FS_Union
  <2>2. Cardinality(G \cap Y) \in Nat
    BY <1>1
  <2> QED BY <1>1, <2>1, <2>2
<1>4. Cardinality(F \cup X) <= Cardinality(G \cup Y)
  <2>1. F \cup X \subseteq G \cup Y /\ G \cup Y \in SUBSET Tasks
    OBVIOUS
  <2> QED BY <1>1, <2>1, FS_Subset
<1>5. \A S \in SUBSET Tasks : Cardinality(S) \in Nat
  BY <1>1
<1>6. F \cup X \in SUBSET Tasks /\ G \cup Y \in SUBSET Tasks
  OBVIOUS
<1> QED BY <1>2, <1>3, <1>4, <1>5, <1>6

\* What the step does to a task on its way, or not on it.
GoesOn(u, op) == Stirs(kernel, kernel', u) /\ (Heads(u, op) => Heads(u, op)')
Apart(u, op) == ~Heads(u, op) /\ Event(kernel', u) # QueueList(op)

\* The types of the queue.
LEMMA QueueTyped ==
    ASSUME SystemInv
    PROVE  /\ queue.waiting \in Nat /\ queue.uxLength \in Nat /\ queue.waiting <= queue.uxLength
           /\ queue.txLock \in Int /\ queue.rxLock \in Int /\ queue.txLock >= -1 /\ queue.rxLock >= -1
           /\ \A op : Supply(op) \in Nat /\ LockOf(op) \in Int /\ Max2(LockOf(op), 0) \in Nat
           /\ queue = [f \in Fields |-> queue[f]]
<1>1. /\ queue.waiting \in Nat /\ queue.uxLength \in Nat /\ queue.waiting <= queue.uxLength
      /\ queue.txLock \in Int /\ queue.rxLock \in Int /\ queue.txLock >= -1 /\ queue.rxLock >= -1
  BY BoundAssumption DEF SystemInv, QueueInv, LocksOK, StorageOK
<1>2. queue = [f \in Fields |-> queue[f]]
  BY DEF SystemInv, QueueInv, StorageOK
<1> QED BY <1>1, <1>2 DEF Supply, LockOf, Max2

\* A step that takes Y off their way and brings X on it leaves the ledger true.
LEMMA Settled ==
    ASSUME SystemInv, SystemInv', NEW op, Ledger(op), NEW X \in SUBSET Tasks, NEW Y \in SUBSET Tasks,
           \A u \in Tasks : u \in Y \/ GoesOn(u, op) \/ Apart(u, op),
           \A u \in Y : Event(kernel', u) # QueueList(op),
           X \cap InFlight(op) = {}, X \subseteq InFlight(op)',
           \/ Waiters(op)' = {}
           \/ Supply(op)' <= Max2(LockOf(op)', 0)
           \/ Supply(op)' + Cardinality(Y) + Max2(LockOf(op), 0)
                <= Supply(op) + Cardinality(X) + Max2(LockOf(op)', 0),
           op \in QueueOps
    PROVE  Ledger(op)'
<1>1. KernelOK(kernel) /\ KernelOK(kernel')
  BY DEF SystemInv, FreeRTOSInv
<1>2. QueueList(op) \in QueueLists
  BY DEF QueueList, QueueLists
<1>3. ASSUME NEW u \in Tasks, Event(kernel', u) = QueueList(op)
      PROVE  u \in Waiters(op) /\ Heads(u, op)'
  <2>1. GoesOn(u, op)
    BY <1>3 DEF Apart
  <2>2. Event(kernel, u) = QueueList(op)
    BY <1>2, <1>3, <2>1 DEF GoesOn, Stirs
  <2> QED BY <2>1, <2>2 DEF Ledger, Waiters, GoesOn
<1>4. \A u \in Waiters(op)' : u \in Tasks /\ Event(kernel', u) = QueueList(op)
  BY DEF Waiters, QueueList
<1>5. ASSUME Waiters(op)' # {} PROVE Served(op)'
  <2> DEFINE F == InFlight(op)
             G == InFlight(op)'
  <2>1. Supply(op) <= Cardinality(F) + Max2(LockOf(op), 0)
    BY <1>3, <1>4, <1>5 DEF Ledger, Served
  <2>2. F \in SUBSET Tasks /\ G \in SUBSET Tasks
    BY DEF InFlight
  <2>3. F \ Y \subseteq G
    <3> SUFFICES ASSUME NEW u \in F \ Y PROVE u \in G
      OBVIOUS
    <3>1. u \in Tasks /\ Up(kernel, u) /\ Heads(u, op)
      BY <1>1, InFlightIs
    <3>2. GoesOn(u, op)
      BY <3>1 DEF Apart
    <3>3. Up(kernel', u) /\ Heads(u, op)'
      BY <3>1, <3>2 DEF GoesOn, Stirs
    <3> QED BY <1>1, <3>1, <3>3, InFlightNext
  <2> HIDE DEF F, G
  <2>4. /\ \A S \in {F, G, X, Y} : Cardinality(S) \in Nat
        /\ Cardinality(F) + Cardinality(X) <= Cardinality(G) + Cardinality(Y)
    BY <2>2, <2>3, Exchanged DEF F, G
  <2>5. /\ Supply(op) \in Nat /\ Max2(LockOf(op), 0) \in Nat
        /\ Supply(op)' \in Nat /\ Max2(LockOf(op)', 0) \in Nat
    <3>1. Supply(op) \in Nat /\ Max2(LockOf(op), 0) \in Nat
      BY QueueTyped
    <3>2. queue'.waiting \in Nat /\ queue'.uxLength \in Nat /\ queue'.waiting <= queue'.uxLength
          /\ queue'.txLock \in Int /\ queue'.rxLock \in Int
      BY BoundAssumption DEF SystemInv, QueueInv, LocksOK, StorageOK
    <3> QED BY <3>1, <3>2 DEF Supply, LockOf, Max2
  <2>6. Supply(op)' <= Cardinality(G) + Max2(LockOf(op)', 0)
    <3>1. CASE Supply(op)' <= Max2(LockOf(op)', 0)
      BY <2>4, <2>5, <3>1
    <3>2. CASE Supply(op)' + Cardinality(Y) + Max2(LockOf(op), 0)
                  <= Supply(op) + Cardinality(X) + Max2(LockOf(op)', 0)
      BY <2>1, <2>4, <2>5, <3>2 DEF F
    <3> QED BY <1>5, <3>1, <3>2
  <2> QED BY <2>6 DEF Served, G
<1> QED BY <1>3, <1>4, <1>5 DEF Ledger

LEMMA SettledTyped ==
    ASSUME SystemInv'
    PROVE  /\ queue'.waiting \in Nat /\ queue'.uxLength \in Nat /\ queue'.waiting <= queue'.uxLength
           /\ queue'.txLock \in Int /\ queue'.rxLock \in Int /\ queue'.txLock >= -1 /\ queue'.rxLock >= -1
           /\ \A op : Supply(op)' \in Nat /\ LockOf(op)' \in Int /\ Max2(LockOf(op)', 0) \in Nat
<1>1. /\ queue'.waiting \in Nat /\ queue'.uxLength \in Nat /\ queue'.waiting <= queue'.uxLength
      /\ queue'.txLock \in Int /\ queue'.rxLock \in Int /\ queue'.txLock >= -1 /\ queue'.rxLock >= -1
  BY BoundAssumption DEF SystemInv, QueueInv, LocksOK, StorageOK
<1> QED BY <1>1 DEF Supply, LockOf, Max2

\* Nobody leaves or comes.
LEMMA SettledCalmly ==
    ASSUME SystemInv, SystemInv', NEW op \in QueueOps, Ledger(op),
           \A u \in Tasks : GoesOn(u, op) \/ Apart(u, op),
           Supply(op)' + Max2(LockOf(op), 0) <= Supply(op) + Max2(LockOf(op)', 0)
    PROVE  Ledger(op)'
<1>1. Cardinality({}) = 0
  BY FS_EmptySet
<1>2. PICK none \in SUBSET Tasks : none = {}
  OBVIOUS
<1>3. Supply(op)' + Cardinality(none) + Max2(LockOf(op), 0)
        <= Supply(op) + Cardinality(none) + Max2(LockOf(op)', 0)
  BY <1>1, <1>2, QueueTyped, SettledTyped
<1> QED BY <1>2, <1>3, Settled

\* As many tasks as the queue has more for are woken, and one that was on its way
\* may have taken something.
LEMMA SettledByWaking ==
    ASSUME SystemInv, SystemInv', NEW op \in QueueOps, Ledger(op), NEW n \in Nat,
           WakesOf(kernel, kernel', QueueList(op), n), NEW Y \in SUBSET Tasks,
           \A u \in Tasks : u \in Y \/ (Heads(u, op) => Heads(u, op)'),
           \A u \in Y : Event(kernel, u) # QueueList(op),
           Supply(op)' + Cardinality(Y) + Max2(LockOf(op), 0) <= Supply(op) + n + Max2(LockOf(op)', 0)
    PROVE  Ledger(op)'
<1>1. KernelOK(kernel) /\ KernelOK(kernel') /\ QueueList(op) \in QueueLists
  BY DEF SystemInv, FreeRTOSInv, QueueList, QueueLists
<1>2. \A u \in Tasks : u \in Y \/ GoesOn(u, op)
  BY WokenUp DEF GoesOn, WakesOf
<1>3. \A u \in Y : Event(kernel', u) # QueueList(op)
  BY <1>1, WokenUp DEF Stirs, WakesOf
<1>4. CASE \A u \in Tasks : Event(kernel', u) # QueueList(op)
  <2>1. Waiters(op)' = {}
    BY <1>4 DEF Waiters, QueueList
  <2>2. PICK none \in SUBSET Tasks : none = {}
    OBVIOUS
  <2> QED BY <1>2, <1>3, <2>1, <2>2, Settled
<1>5. ASSUME NEW X \in SUBSET Tasks, Cardinality(X) = n,
             \A u \in X : Event(kernel, u) = QueueList(op) /\ Event(kernel', u) # QueueList(op)
      PROVE  Ledger(op)'
  <2>1. ASSUME NEW u \in X PROVE u \notin InFlight(op) /\ u \in InFlight(op)'
    <3>1. u \in Tasks /\ u \notin Y /\ Event(kernel, u) = QueueList(op) /\ Event(kernel', u) # QueueList(op)
      BY <1>5, <2>1
    <3>2. Heads(u, op)
      BY <3>1 DEF Ledger, Waiters
    <3>3. Heads(u, op)' /\ Up(kernel', u)
      BY <1>1, <1>2, <3>1, <3>2, WokenUp DEF GoesOn, WakesOf
    <3>4. ~Up(kernel, u)
      <4>1. EventOK(u)
        BY <3>1 DEF SystemInv, FreeRTOSInv, TaskOK
      <4>2. Event(kernel, u) \notin {"none", "xPendingReadyList"}
        BY <1>1, <3>1 DEF QueueLists, ToSend, ToReceive
      <4> QED BY <4>1, <4>2 DEF EventOK, Up
    <3> QED BY <1>1, <3>1, <3>3, <3>4, InFlightIs, InFlightNext
  <2>2. X \cap InFlight(op) = {} /\ X \subseteq InFlight(op)'
    BY <2>1
  <2>3. Supply(op)' + Cardinality(Y) + Max2(LockOf(op), 0)
          <= Supply(op) + Cardinality(X) + Max2(LockOf(op)', 0)
    BY <1>5
  <2> QED BY <1>2, <1>3, <2>2, <2>3, Settled
<1> QED BY <1>4, <1>5 DEF WakesOf

\* Sections in which nobody on the way falls asleep, but a task between calls,
\* and nobody comes to wait for the queue.
Calm(u) == Stirs(kernel, kernel', u) \/ (pc[u] = "user" /\ Event(kernel', u) \notin QueueLists)

LEMMA PlacesStir ==
    ASSUME NEW u \in Tasks, Home(kernel', u) = Home(kernel, u), Event(kernel', u) = Event(kernel, u)
    PROVE  Calm(u)
BY DEF Calm, Stirs, Up

LEMMA EndPlaces ==
    ASSUME NEW k, KernelOK(k), NEW left
    PROVE  LET l == EndNotification(k, left)
           IN  /\ l.ready = k.ready /\ l.delayed = k.delayed /\ l.overflow = k.overflow
               /\ l.termination = k.termination /\ l.event = k.event
               /\ \A v \in Tasks : Prio(l, v) = Prio(k, v)
<1>1. k = [f \in KernelFields |-> k[f]] /\ k.tcb \in [Tasks -> TCBs]
  BY DEF KernelOK, KernelShape, Over
<1> QED BY <1>1 DEF EndNotification, KernelFields, TCBs, Prio

LEMMA ChoiceCalm ==
    ASSUME FreeRTOSInv, NEW u \in Tasks,
           \/ kernel' = vTaskSwitchContext(kernel)
           \/ kernel' = kernel
           \/ \E n : kernel' = [kernel EXCEPT !.suspended = n]
           \/ \E left : kernel' = EndNotification(kernel, left)
    PROVE  Calm(u)
<1>1. KernelOK(kernel)
  BY DEF FreeRTOSInv
<1>2. kernel = [f \in KernelFields |-> kernel[f]] /\ kernel.tcb \in [Tasks -> TCBs]
  BY <1>1 DEF KernelOK, KernelShape, Over
<1>3. ASSUME kernel'.ready = kernel.ready, kernel'.delayed = kernel.delayed, kernel'.overflow = kernel.overflow,
             kernel'.termination = kernel.termination, kernel'.event = kernel.event,
             \A v \in Tasks : Prio(kernel', v) = Prio(kernel, v)
      PROVE  Calm(u)
  <2>1. Home(kernel', u) = Home(kernel, u) /\ Event(kernel', u) = Event(kernel, u)
    BY <1>3 DEF Home, Event
  <2> QED BY <2>1, PlacesStir
<1>4. CASE kernel' = vTaskSwitchContext(kernel)
  BY <1>1, <1>4, Switched, PlacesStir
<1>5. CASE kernel' = kernel
  BY <1>5, PlacesStir
<1>6. ASSUME NEW n, kernel' = [kernel EXCEPT !.suspended = n] PROVE Calm(u)
  <2>1. /\ kernel'.ready = kernel.ready /\ kernel'.delayed = kernel.delayed
        /\ kernel'.overflow = kernel.overflow /\ kernel'.termination = kernel.termination
        /\ kernel'.event = kernel.event /\ kernel'.tcb = kernel.tcb
    BY <1>2, <1>6 DEF KernelFields
  <2> QED BY <1>3, <2>1 DEF Prio
<1>7. ASSUME NEW left, kernel' = EndNotification(kernel, left) PROVE Calm(u)
  BY <1>1, <1>3, <1>7, EndPlaces
<1> QED BY <1>4, <1>5, <1>6, <1>7

LEMMA ResumingCalm ==
    ASSUME FreeRTOSInv, NEW t \in Tasks, Resuming(t), NEW u \in Tasks
    PROVE  Calm(u)
<1>1. kernel.current = t /\ pc[t] = "catchUp" /\ kernel' = CatchUp(kernel) /\ ~CaughtUp(kernel)
  BY DEF Resuming, At
<1>2. KernelOK(kernel) /\ kernel.suspended = 0
  BY <1>1, Running DEF Suspending
<1>3. CASE IsEmpty(kernel.event["xPendingReadyList"])
  <2>1. kernel.pended # 0 /\ kernel' = CountPended(kernel)
    BY <1>1, <1>2, <1>3 DEF CatchUp, CaughtUp
  <2> QED BY <1>2, <2>1, PendedCounted, PassingStirs DEF Calm
<1>4. CASE ~IsEmpty(kernel.event["xPendingReadyList"])
  <2>1. kernel' = ReadyPending(kernel)
    BY <1>1, <1>4 DEF CatchUp
  <2>2. PICK v \in Tasks :
          IF u = v THEN Home(kernel', u) = "ready" /\ Event(kernel', u) = "none"
          ELSE Home(kernel', u) = Home(kernel, u) /\ Event(kernel', u) = Event(kernel, u)
    BY <1>2, <1>4, <2>1, PendingReadied
  <2> QED BY <2>2 DEF Calm, Stirs, Up, Blocked, QueueLists, ToSend, ToReceive
<1> QED BY <1>3, <1>4

LEMMA DelayCalm ==
    ASSUME FreeRTOSInv, CallsInv, NEW t \in Tasks, NEW c \in Calls(t),
           vTaskDelay(t, c) \/ vTaskDelayUntil(t, c), NEW u \in Tasks
    PROVE  Calm(u)
<1> DEFINE m == vTaskSuspendAll(kernel)
<1>1. kernel.current = t /\ pc[t] = "user" /\ c \in plan.calls[t]
  BY DEF vTaskDelay, vTaskDelayUntil, Calling, At
<1>2. /\ KernelOK(kernel) /\ kernel.suspended = 0 /\ t # IdleTask /\ wakeTime[t] \in Ticks
      /\ Home(kernel, t) = "ready"
  BY <1>1, Running DEF Suspending, Closing, Resumes, TaskOK, TimeOK
<1>3. m = [kernel EXCEPT !.suspended = 1]
  BY <1>2 DEF vTaskSuspendAll
<1>4. KernelOK(m) /\ m.current = t /\ m.tick \in Ticks /\ Stays(kernel, m)
  BY <1>1, <1>2, <1>3, SuspensionCounted DEF KernelOK, KernelShape
<1> HIDE DEF m
<1>5. Event(kernel, t) = "none"
  BY <1>1, <1>2, WaitsForNothing
<1>6. ASSUME NEW wake \in Ticks, kernel' = BlockUntil(m, wake) PROVE Calm(u)
  <2>1. /\ Event(kernel', u) = Event(m, u)
        /\ u # t => Home(kernel', u) = Home(m, u)
    BY <1>2, <1>4, <1>6, Slept
  <2>2. Event(kernel', u) = Event(kernel, u) /\ (u # t => Home(kernel', u) = Home(kernel, u))
    BY <1>4, <2>1 DEF Stays
  <2>3. "none" \notin QueueLists
    BY DEF QueueLists, ToSend, ToReceive
  <2> QED BY <1>1, <1>5, <2>2, <2>3, PlacesStir DEF Calm
<1>7. CASE kernel' = m \/ kernel' = vTaskSwitchContext(kernel)
  <2>1. Home(kernel', u) = Home(kernel, u) /\ Event(kernel', u) = Event(kernel, u)
    BY <1>2, <1>4, <1>7, Switched DEF Stays
  <2> QED BY <2>1, PlacesStir
<1>8. CASE vTaskDelay(t, c)
  <2>1. c.ticks \in Ticks
    BY <1>1, <1>8, Planned DEF CallOK, vTaskDelay, Calling
  <2>2. kernel' = vTaskSwitchContext(kernel) \/ kernel' = BlockUntil(m, Stored(m.tick + c.ticks))
    BY <1>8 DEF vTaskDelay, BlockFor, m
  <2> QED BY <1>4, <1>6, <1>7, <2>1, <2>2, StoredIsTick
<1>9. CASE vTaskDelayUntil(t, c)
  <2>1. c.increment \in Ticks
    BY <1>1, <1>9, Planned DEF CallOK, vTaskDelayUntil, Calling
  <2>2. kernel' = m \/ kernel' = BlockUntil(m, Stored(wakeTime[t] + c.increment))
    BY <1>9 DEF vTaskDelayUntil, m
  <2> QED BY <1>2, <1>6, <1>7, <2>1, <2>2, StoredIsTick
<1> QED BY <1>8, <1>9

LEMMA AwaitCalm ==
    ASSUME FreeRTOSInv, CallsInv, NEW t \in Tasks, NEW c \in Calls(t), AwaitNotify(t, c), NEW u \in Tasks
    PROVE  Calm(u)
<1>1. /\ kernel.current = t /\ KernelOK(kernel) /\ kernel.suspended = 0 /\ t # IdleTask
      /\ Home(kernel, t) = "ready" /\ c.ticks \in Ticks
      /\ \E satisfied \in BOOLEAN, cleared \in Nat :
            kernel' = AwaitNotification(kernel, satisfied, cleared, c.ticks)
  BY AwaitCalls
<1>2. pc[t] = "user"
  BY DEF AwaitNotify, Calling, At
<1>3. Event(kernel, t) = "none"
  BY <1>1, <1>2, WaitsForNothing
<1>4. Event(kernel', u) = Event(kernel, u) /\ (u # t => Home(kernel', u) = Home(kernel, u))
  BY <1>1, Awaited
<1>5. "none" \notin QueueLists
  BY DEF QueueLists, ToSend, ToReceive
<1> QED BY <1>2, <1>3, <1>4, <1>5, PlacesStir DEF Calm

LEMMA NotifyCalm ==
    ASSUME FreeRTOSInv, CallsInv, NEW t \in Tasks, NEW c \in Calls(t), SendNotification(t, c), NEW u \in Tasks
    PROVE  Calm(u)
<1> DEFINE value == NotifiedValue(kernel.tcb[c.target], c.action)
<1>1. /\ c \in plan.calls[t] /\ c.op = "xTaskNotify"
      /\ kernel' = xTaskGenericNotify(kernel, c.target, value)
  BY DEF SendNotification
<1>2. KernelOK(kernel) /\ kernel.tcb \in [Tasks -> TCBs]
  BY DEF FreeRTOSInv, KernelOK, KernelShape
<1>3. c.target \in Tasks /\ value \in Nat
  BY <1>1, <1>2, Planned, NotifiedValueIsNat DEF CallOK
<1> HIDE DEF value
<1>4. /\ Home(kernel', u) = "ready" \/ Home(kernel', u) = Home(kernel, u)
      /\ Event(kernel', u) = Event(kernel, u)
  BY <1>1, <1>2, <1>3, TaskNotified
<1> QED BY <1>4 DEF Calm, Stirs, Up, Blocked

LEMMA NotifyISRCalm ==
    ASSUME FreeRTOSInv, CallsInv, NEW irq \in plan.irqs, Interrupt(irq), irq.op = "xTaskNotifyFromISR",
           NEW u \in Tasks
    PROVE  Calm(u)
<1> DEFINE value == NotifiedValue(kernel.tcb[irq.target], irq.action)
<1>1. KernelOK(kernel) /\ kernel.tcb \in [Tasks -> TCBs]
  BY DEF FreeRTOSInv, KernelOK, KernelShape
<1>2. Alive(irq.target) /\ kernel' = xTaskGenericNotifyFromISR(kernel, irq.target, value)
  BY DEF Interrupt
<1>3. irq.target \in Tasks /\ value \in Nat
  BY <1>1, Planned, NotifiedValueIsNat DEF CallOK
<1> HIDE DEF value
<1>4. kernel.tcb[irq.target].state = eWaiting => Event(kernel, irq.target) = "none"
  <2>1. TaskOK(irq.target) /\ pc[irq.target] # "none" /\ Home(kernel, irq.target) # "termination"
    BY <1>2, <1>3 DEF FreeRTOSInv, Alive, KernelOK, Places
  <2> QED BY <2>1 DEF TaskOK, HomeOK, EventOK
<1>5. /\ Home(kernel', u) = "ready" \/ Home(kernel', u) = Home(kernel, u)
      /\ Event(kernel', u) = "xPendingReadyList" \/ Event(kernel', u) = Event(kernel, u)
  BY <1>1, <1>2, <1>3, <1>4, NotifiedFromISR
<1> QED BY <1>5 DEF Calm, Stirs, Up, Blocked, QueueLists, ToSend, ToReceive

LEMMA LifeCalm ==
    ASSUME FreeRTOSInv, CallsInv, NEW t \in Tasks, Add(t) \/ ResetNext(t) \/ Reclaimed(t), NEW u \in Tasks
    PROVE  Calm(u)
<1>1. KernelOK(kernel) /\ \A v \in Tasks : TaskOK(v)
  BY DEF FreeRTOSInv
<1>2. CASE Add(t)
  <2>1. PICK new, prio : new = local[t].target /\ prio = local[t].prio
    OBVIOUS
  <2>2. pc[t] = "add" /\ kernel' = AddTask(kernel, new, prio)
    BY <1>2, <2>1 DEF Add, At
  <2>3. Creates(t, local[t])
    BY <1>1, <2>2 DEF TaskOK, LifeOK
  <2>4. prio \in Priorities /\ new \in Tasks /\ pc[new] = "none"
    BY <2>1, <2>3, Planned DEF Creates, CallOK
  <2>5. Home(kernel, new) = "nowhere"
    BY <1>1, <2>4 DEF TaskOK, HomeOK
  <2>6. /\ Home(kernel', u) = "ready" \/ Home(kernel', u) = Home(kernel, u)
        /\ Event(kernel', u) = Event(kernel, u)
    BY <1>1, <2>2, <2>4, <2>5, TaskCreated
  <2> QED BY <2>6 DEF Calm, Stirs, Up, Blocked
<1>3. CASE ResetNext(t)
  BY <1>1, <1>3, NextReset, PlacesStir DEF ResetNext
<1>4. CASE Reclaimed(t)
  <2>1. PICK v \in Tasks : Home(kernel, v) = "termination"
    BY <1>1, <1>4 DEF Reclaimed, At, TaskOK, LifeOK
  <2>2. /\ Home(kernel', u) = "nowhere" \/ Home(kernel', u) = Home(kernel, u)
        /\ Event(kernel', u) = Event(kernel, u)
    BY <1>1, <1>4, <2>1, TaskReclaimed DEF Reclaimed
  <2> QED BY <2>2 DEF Calm, Stirs, Up, Blocked
<1> QED BY <1>2, <1>3, <1>4

\* All the steps but those that place, wake or delete a task.
CalmStep(t) ==
    \/ taskYIELD(t) \/ Yield(t) \/ Resume(t) \/ Resuming(t) \/ ResumeEnd(t)
    \/ SuspendForQueue(t) \/ Lock(t) \/ Test(t)
    \/ CollectNotification(t) \/ Add(t) \/ ResetNext(t)
    \/ IdleLook(t) \/ Reclaimed(t) \/ IdleYield(t)
    \/ \E c \in Calls(t) :
          \/ SuspendAll(t, c) \/ vTaskDelay(t, c) \/ vTaskDelayUntil(t, c)
          \/ AwaitNotify(t, c) \/ SendNotification(t, c) \/ Allocate(t, c)

LEMMA CalmSteps ==
    ASSUME FreeRTOSInv, CallsInv, NEW t \in Tasks, CalmStep(t), NEW u \in Tasks
    PROVE  Calm(u)
<1>1. CASE \/ taskYIELD(t) \/ Yield(t) \/ Resume(t) \/ ResumeEnd(t) \/ SuspendForQueue(t)
           \/ Lock(t) \/ Test(t) \/ CollectNotification(t) \/ IdleLook(t) \/ IdleYield(t)
           \/ \E c \in Calls(t) : SuspendAll(t, c) \/ Allocate(t, c)
  BY <1>1, ChoiceSteps, ChoiceCalm
<1>2. CASE Resuming(t)
  BY <1>2, ResumingCalm
<1>3. CASE Add(t) \/ ResetNext(t) \/ Reclaimed(t)
  BY <1>3, LifeCalm
<1>4. ASSUME NEW c \in Calls(t), \/ vTaskDelay(t, c) \/ vTaskDelayUntil(t, c)
                                 \/ AwaitNotify(t, c) \/ SendNotification(t, c)
      PROVE  Calm(u)
  BY <1>4, DelayCalm, AwaitCalm, NotifyCalm
<1> QED BY <1>1, <1>2, <1>3, <1>4 DEF CalmStep

\* Who is on the way goes on: in a step of another task, and in its own.
LEMMA HeadsSame ==
    ASSUME NEW u \in Tasks, pc'[u] = pc[u], local'[u] = local[u], NEW op
    PROVE  Heads(u, op)' <=> Heads(u, op)
BY DEF Heads

LEMMA HeadsOn ==
    ASSUME FreeRTOSInv, CallsInv, NEW t \in Tasks,
           CalmStep(t) \/ Place(t) \/ Unlock(t) \/ \E c \in Calls(t) : Reset(t, c),
           NEW u \in Tasks, NEW op
    PROVE  Heads(u, op) => Heads(u, op)'
<1> DEFINE Same(v) == pc'[v] = pc[v] /\ local'[v] = local[v]
           Idles(v) == pc[v] \notin Closing \cup {"try", "yield"}
           Claim == Heads(u, op) => Heads(u, op)'
<1>1. ASSUME Same(u) \/ Idles(u) PROVE Claim
  BY <1>1, HeadsSame DEF Heads
<1>2. ASSUME NEW label, Goto(t, label), Idles(t) \/ local' = local,
             \/ Idles(t)
             \/ label \in Closing \cup {"yield"} /\ pc[t] # "try",
             \A w \in Tasks : w # t => local'[w] = local[w]
      PROVE  Claim
  <2>1. pc'[t] = label /\ (u # t => pc'[u] = pc[u])
    BY <1>2, Went
  <2> QED BY <1>1, <1>2, <2>1 DEF Heads
<1>3. ASSUME NEW label, NEW call, Goto(t, label), Keep(t, call), Idles(t) PROVE Claim
  BY <1>1, <1>3, Went, Kept
<1>4. CASE Yield(t) \/ ResumeEnd(t)
  <2>1. /\ pc[t] \in {"yield", "catchUp"}
        /\ \/ Goto(t, local[t].then) /\ Keep(t, local[t].call)
           \/ Goto(t, "yield") /\ local' = local
    BY <1>4 DEF Yield, ResumeEnd, At
  <2>2. CASE Goto(t, "yield") /\ local' = local
    BY <1>2, <2>1, <2>2 DEF Closing, Resumes
  <2>3. CASE Goto(t, local[t].then) /\ Keep(t, local[t].call)
    <3>1. /\ pc'[t] = local[t].then /\ local'[t] = local[t].call
          /\ u # t => Same(u)
      BY <2>3, Went, Kept
    <3>2. Heads(t, op) => Heads(t, op)'
      BY <2>1, <3>1 DEF Heads
    <3> QED BY <1>1, <3>1, <3>2
  <2> QED BY <2>1, <2>2, <2>3
<1>5. CASE Resume(t) \/ SuspendForQueue(t) \/ Lock(t) \/ Unlock(t) \/ ResetNext(t)
  <2>1. CASE Resume(t)
    BY <1>2, <2>1 DEF Resume, At, Closing, Resumes
  <2>2. CASE Unlock(t)
    BY <1>2, <2>2 DEF Unlock, At, Closing, Resumes
  <2>3. CASE SuspendForQueue(t) \/ Lock(t) \/ ResetNext(t)
    BY <1>2, <2>3 DEF SuspendForQueue, Lock, ResetNext, At, Closing, Resumes
  <2> QED BY <1>5, <2>1, <2>2, <2>3
<1>6. CASE Place(t)
  BY <1>3, <1>6 DEF Place, At, Closing, Resumes
<1>7. CASE Test(t)
  BY <1>3, <1>7 DEF Test, At, Closing, Resumes
<1>8. CASE taskYIELD(t) \/ Resuming(t) \/ IdleYield(t)
  BY <1>1, <1>8 DEF taskYIELD, Resuming, IdleYield
<1>9. CASE CollectNotification(t)
  BY <1>3, <1>9 DEF CollectNotification, At, Return, Keep, Closing, Resumes
<1>10. ASSUME NEW a, NEW b, NEW v \in Tasks, NEW w \in {t, v}, NEW call,
              pc' = [pc EXCEPT ![t] = a, ![v] = b], Keep(w, call), Idles(t),
              pc[v] \in {"none", "deleted"} \/ (pc[v] = "yield" /\ local[v].then = "deleted")
       PROVE  Claim
  <2>1. pc = [x \in Tasks |-> pc[x]]
    BY DEF CallsInv
  <2>2. u \notin {t, v} => Same(u)
    BY <1>10, <2>1, Kept
  <2>3. ~Heads(v, op)
    BY <1>10 DEF Heads, Closing, Resumes
  <2> QED BY <1>1, <1>10, <2>2, <2>3
<1>11. CASE Add(t)
  <2>1. PICK new : new = local[t].target
    OBVIOUS
  <2>2. /\ pc[t] = "add"
        /\ \/ /\ pc' = [pc EXCEPT ![t] = "yield", ![new] = "user"]
              /\ Keep(t, [call |-> NoCall, then |-> "user"])
           \/ pc' = [pc EXCEPT ![t] = "user", ![new] = "user"] /\ Keep(t, NoCall)
    BY <1>11, <2>1 DEF Add, At
  <2>3. Creates(t, local[t])
    BY <2>2 DEF FreeRTOSInv, TaskOK, LifeOK
  <2>4. new \in Tasks /\ pc[new] = "none"
    BY <2>1, <2>3, Planned DEF Creates, CallOK
  <2> QED BY <1>10, <2>2, <2>4 DEF Closing, Resumes
<1>12. CASE Reclaimed(t)
  <2>1. /\ kernel.current = t /\ pc[t] = "reclaim" /\ KernelOK(kernel)
        /\ pc' = [pc EXCEPT ![t] = "idle", ![HeadEntry(kernel.termination)] = "none"]
        /\ Keep(HeadEntry(kernel.termination), NoCall)
    BY <1>12 DEF Reclaimed, At, FreeRTOSInv
  <2>2. PICK v \in Tasks : Home(kernel, v) = "termination"
    BY <2>1 DEF FreeRTOSInv, TaskOK, LifeOK
  <2>3. PICK dead : dead = HeadEntry(kernel.termination)
    OBVIOUS
  <2>4. dead \in Tasks /\ Home(kernel, dead) = "termination"
    BY <2>1, <2>2, <2>3, TaskReclaimed
  <2>5. pc[dead] = "deleted" \/ (pc[dead] = "yield" /\ local[dead].then = "deleted")
    BY <2>4 DEF FreeRTOSInv, TaskOK, HomeOK
  <2> QED BY <1>10, <2>1, <2>3, <2>4, <2>5 DEF Closing, Resumes
<1>13. CASE IdleLook(t)
  BY <1>3, <1>13 DEF IdleLook, ResumeThen, At, Closing, Resumes
<1>14. ASSUME NEW c \in Calls(t), \/ SuspendAll(t, c) \/ vTaskDelay(t, c) \/ vTaskDelayUntil(t, c)
                                  \/ AwaitNotify(t, c) \/ SendNotification(t, c)
                                  \/ Allocate(t, c) \/ Reset(t, c)
       PROVE  Claim
  <2>1. CASE SuspendAll(t, c)
    BY <1>3, <2>1 DEF SuspendAll, Calling, At, Closing, Resumes
  <2>2. CASE vTaskDelay(t, c) \/ vTaskDelayUntil(t, c)
    BY <1>1, <1>3, <2>2 DEF vTaskDelay, vTaskDelayUntil, ResumeThen, Calling, At, Closing, Resumes
  <2>3. CASE SendNotification(t, c) \/ Reset(t, c)
    BY <1>1, <2>3 DEF SendNotification, Reset
  <2>4. CASE AwaitNotify(t, c)
    BY <1>3, <2>4 DEF AwaitNotify, Calling, At, Closing, Resumes
  <2>5. CASE Allocate(t, c)
    BY <1>3, <2>5 DEF Allocate, ResumeThen, Calling, At, Closing, Resumes
  <2> QED BY <1>14, <2>1, <2>2, <2>3, <2>4, <2>5
<1>15. CASE CalmStep(t)
  BY <1>4, <1>5, <1>7, <1>8, <1>9, <1>11, <1>12, <1>13, <1>14, <1>15 DEF CalmStep
<1> QED BY <1>5, <1>6, <1>14, <1>15

\* A call that waits is one of the plan.
LEMMA AsksKept ==
    ASSUME SystemInv, [Next]_vars, NEW u \in Tasks, InWait(u) => Asks(u, WaitOf(u)), InWait(u)'
    PROVE  Asks(u, WaitOf(u))'
<1>1. WaitStep(u) /\ plan' = plan
  BY WaitSteps, PlanStays
<1>2. \A c : Asks(u, c) => Asks(u, c)'
  BY <1>1 DEF Asks, Makes
<1>3. Asks(u, WaitOf(u)')
  <2>1. CASE pc'[u] = pc[u] /\ local'[u] = local[u]
    BY <2>1 DEF InWait, WaitOf
  <2>2. CASE InWait(u) /\ WaitOf(u)' = WaitOf(u)
    BY <2>2
  <2>3. CASE Begins(u)
    BY <2>3 DEF Begins, WaitOf, Asking
  <2>4. CASE Checks(u)
    BY <2>4 DEF Checks, InWait, WaitOf, Asking
  <2> QED BY <1>1, <2>1, <2>2, <2>3, <2>4 DEF WaitStep
<1> QED BY <1>1, <1>3 DEF Asks, Makes

\* Only the lock and the check bring a task to where it looks.
LEMMA ComesToLook ==
    ASSUME FreeRTOSInv, CallsInv, NEW t \in Tasks, TaskStep(t), NEW u \in Tasks, pc'[u] \in {"test", "place"}
    PROVE  u = t /\ (Lock(t) \/ Test(t))
<1> DEFINE Sees(label) == label \in {"test", "place"}
<1>1. kernel.current = t => \A v \in Tasks : v # t => ~Sees(pc[v])
  BY DEF FreeRTOSInv, SuspensionInv, Suspending
<1>2. ASSUME NEW label, Goto(t, label), ~Sees(label), kernel.current = t PROVE FALSE
  BY <1>1, <1>2, Went
<1>3. ASSUME pc' = pc, kernel.current = t, ~Sees(pc[t]) PROVE FALSE
  BY <1>1, <1>3
<1>4. CASE Yield(t) \/ ResumeEnd(t)
  <2>1. /\ kernel.current = t /\ pc[t] \in {"yield", "catchUp"}
        /\ Goto(t, local[t].then) \/ Goto(t, "yield")
    BY <1>4 DEF Yield, ResumeEnd, At
  <2>2. local[t].then \notin (Asking \cup Unwinding) \ {"try"}
    BY <2>1 DEF CallsInv, Unwinding
  <2>3. ~Sees(local[t].then) /\ ~Sees("yield")
    BY <2>2 DEF Asking
  <2> QED BY <1>2, <2>1, <2>3
<1>5. CASE Resume(t) \/ SuspendForQueue(t) \/ Place(t) \/ Unlock(t) \/ ResetNext(t) \/ CollectNotification(t)
  BY <1>2, <1>5 DEF Resume, SuspendForQueue, Place, Unlock, ResetNext, CollectNotification, Return, At
<1>6. CASE taskYIELD(t) \/ Resuming(t) \/ IdleYield(t)
  BY <1>3, <1>6 DEF taskYIELD, Resuming, IdleYield, At
<1>7. CASE Lock(t) \/ Test(t)
  <2>1. kernel.current = t /\ \E label : Goto(t, label)
    BY <1>7 DEF Lock, Test, At
  <2> QED BY <1>1, <1>7, <2>1, Went
<1>8. ASSUME NEW a, NEW b, NEW v, pc' = [pc EXCEPT ![t] = a, ![v] = b], ~Sees(a), ~Sees(b), kernel.current = t
      PROVE  FALSE
  <2>1. pc = [x \in Tasks |-> pc[x]]
    BY DEF CallsInv
  <2>2. pc'[u] = IF u = v THEN b ELSE IF u = t THEN a ELSE pc[u]
    BY <1>8, <2>1
  <2>3. pc'[u] # a /\ pc'[u] # b
    BY <1>8
  <2> QED BY <1>1, <1>8, <2>2, <2>3
<1>9. CASE Add(t) \/ Reclaimed(t)
  <2>1. PICK new, dead : new = local[t].target /\ dead = HeadEntry(kernel.termination)
    OBVIOUS
  <2>2. /\ kernel.current = t
        /\ \/ pc' = [pc EXCEPT ![t] = "yield", ![new] = "user"]
           \/ pc' = [pc EXCEPT ![t] = "user", ![new] = "user"]
           \/ pc' = [pc EXCEPT ![t] = "idle", ![dead] = "none"]
    BY <1>9, <2>1 DEF Add, Reclaimed, At
  <2>3. ~Sees("yield") /\ ~Sees("user") /\ ~Sees("idle") /\ ~Sees("none")
    OBVIOUS
  <2> HIDE DEF Sees
  <2> QED BY <1>8, <2>2, <2>3
<1>10. CASE IdleLook(t)
  BY <1>2, <1>10 DEF IdleLook, ResumeThen, At
<1>11. ASSUME NEW c \in Calls(t), \/ SuspendAll(t, c) \/ vTaskDelay(t, c) \/ vTaskDelayUntil(t, c)
                                  \/ AwaitNotify(t, c) \/ SendNotification(t, c)
                                  \/ Allocate(t, c) \/ Reset(t, c) \/ vTaskDelete(t, c)
                                  \/ TrySend(t, c) \/ TryReceive(t, c)
       PROVE  FALSE
  <2>1. CASE SuspendAll(t, c) \/ AwaitNotify(t, c)
    BY <1>2, <2>1 DEF SuspendAll, AwaitNotify, Calling, At
  <2>2. CASE vTaskDelay(t, c) \/ vTaskDelayUntil(t, c)
    BY <1>2, <1>3, <2>2 DEF vTaskDelay, vTaskDelayUntil, ResumeThen, Calling, At
  <2>3. CASE SendNotification(t, c) \/ Reset(t, c)
    BY <1>3, <2>3 DEF SendNotification, Reset, Calling, At
  <2>4. CASE Allocate(t, c)
    BY <1>2, <2>4 DEF Allocate, ResumeThen, Calling, At
  <2>5. CASE vTaskDelete(t, c)
    <3>1. kernel.current = t
      BY <2>5 DEF vTaskDelete, Calling, At
    <3>2. CASE c.target = t
      <4>1. Goto(t, "yield") /\ Keep(t, [call |-> NoCall, then |-> "deleted"])
        BY <2>5, <3>2 DEF vTaskDelete
      <4> QED BY <1>2, <3>1, <4>1
    <3>3. CASE c.target # t
      <4>1. pc' = [pc EXCEPT ![t] = "resetNext", ![c.target] = "deleted"]
        BY <2>5, <3>3 DEF vTaskDelete
      <4>2. ~Sees("resetNext") /\ ~Sees("deleted")
        OBVIOUS
      <4> HIDE DEF Sees
      <4> QED BY <1>8, <3>1, <4>1, <4>2
    <3> QED BY <3>2, <3>3
  <2>6. CASE TrySend(t, c) \/ TryReceive(t, c)
    BY <1>2, <2>6 DEF TrySend, TryReceive, TryQueue, Return, Calling, At
  <2> QED BY <1>11, <2>1, <2>2, <2>3, <2>4, <2>5, <2>6
<1> QED BY <1>4, <1>5, <1>6, <1>7, <1>9, <1>10, <1>11 DEF TaskStep

\* What an item sent, and one received, does to the counts.
LEMMA SentCounts ==
    ASSUME NEW q, StorageOK(q), NEW c, c.item \in Messages, HasRoom(q, c.position),
           \/ c.position \in {"queueSEND_TO_BACK", "queueSEND_TO_FRONT"}
           \/ c.position = "queueOVERWRITE" /\ q.uxLength = 1
    PROVE  LET sent == prvCopyDataToQueue(q, c.item, c.position)
           IN  /\ sent.uxLength = q.uxLength /\ q.waiting <= sent.waiting
               /\ sent.waiting = q.waiting + 1 \/ (sent.waiting = q.waiting /\ sent.waiting = q.uxLength)
               /\ sent = [f \in Fields |-> sent[f]] /\ sent.rxLock = q.rxLock /\ sent.txLock = q.txLock
<1> DEFINE sent == prvCopyDataToQueue(q, c.item, c.position)
<1>1. /\ q = [f \in Fields |-> q[f]] /\ DOMAIN q = Fields
      /\ q.waiting \in Nat /\ q.uxLength \in Nat /\ q.waiting <= q.uxLength
  BY DEF StorageOK
<1>2. sent.uxLength = q.uxLength
  BY SendStep
<1>3. sent.rxLock = q.rxLock /\ sent.txLock = q.txLock
  BY CopyingLeavesLocks
<1>4. "waiting" \in DOMAIN q
  BY <1>1 DEF Fields
<1>5. DOMAIN sent = Fields
  BY <1>1 DEF prvCopyDataToQueue
<1>6. sent = [f \in Fields |-> sent[f]]
  <2>1. CASE c.position = "queueSEND_TO_BACK"
    BY <1>5, <2>1 DEF prvCopyDataToQueue
  <2>2. CASE c.position # "queueSEND_TO_BACK"
    BY <1>5, <2>2 DEF prvCopyDataToQueue
  <2> QED BY <2>1, <2>2
<1>7. sent.waiting = IF c.position = "queueOVERWRITE" /\ q.waiting > 0 THEN q.waiting ELSE q.waiting + 1
  BY <1>4 DEF prvCopyDataToQueue
<1> HIDE DEF sent
<1>8. sent.waiting = q.waiting + 1 \/ (sent.waiting = q.waiting /\ q.waiting = q.uxLength)
  BY <1>1, <1>7
<1>9. q.waiting <= sent.waiting
  BY <1>1, <1>8
<1> QED BY <1>2, <1>3, <1>6, <1>8, <1>9 DEF sent

LEMMA ReceivedCounts ==
    ASSUME NEW q, StorageOK(q)
    PROVE  LET received == [prvCopyDataFromQueue(q).queue EXCEPT !.waiting = @ - 1]
           IN  /\ received.uxLength = q.uxLength /\ received.waiting = q.waiting - 1
               /\ received = [f \in Fields |-> received[f]]
               /\ received.rxLock = q.rxLock /\ received.txLock = q.txLock
BY DEF StorageOK, prvCopyDataFromQueue, Fields

\* A step that leaves the supply alone, or only takes the lock.
LEMMA CalmLedger ==
    ASSUME SystemInv, SystemInv', NEW op \in QueueOps, Ledger(op), \A u \in Tasks : Calm(u),
           \A u \in Tasks : Heads(u, op) => Heads(u, op)',
           queue' = queue \/ queue' = prvLockQueue(queue)
    PROVE  Ledger(op)'
<1>1. ASSUME NEW u \in Tasks PROVE GoesOn(u, op) \/ Apart(u, op)
  <2>1. CASE Stirs(kernel, kernel', u)
    BY <2>1 DEF GoesOn
  <2>2. CASE pc[u] = "user" /\ Event(kernel', u) \notin QueueLists
    BY <2>2 DEF Apart, Heads, Closing, Resumes, QueueList, QueueLists
  <2> QED BY <2>1, <2>2 DEF Calm
<1>2. /\ queue'.waiting = queue.waiting /\ queue'.uxLength = queue.uxLength
      /\ Max2(queue'.txLock, 0) = Max2(queue.txLock, 0) /\ Max2(queue'.rxLock, 0) = Max2(queue.rxLock, 0)
  BY QueueTyped DEF prvLockQueue, Max2, queueLOCKED_UNMODIFIED, Fields
<1>3. Supply(op)' = Supply(op) /\ Max2(LockOf(op)', 0) = Max2(LockOf(op), 0)
  BY <1>2 DEF Supply, LockOf
<1>4. Supply(op)' + Max2(LockOf(op), 0) <= Supply(op) + Max2(LockOf(op)', 0)
  BY <1>3, QueueTyped
<1> QED BY <1>1, <1>4, SettledCalmly

\* A step that only wakes, where there is no more in the queue than before.
LEMMA WokenLedger ==
    ASSUME SystemInv, SystemInv', NEW op \in QueueOps, Ledger(op), WakesSome(kernel, kernel'),
           \A u \in Tasks : Heads(u, op) => Heads(u, op)',
           Supply(op)' + Max2(LockOf(op), 0) <= Supply(op) + Max2(LockOf(op)', 0)
    PROVE  Ledger(op)'
BY WokenUp, SettledCalmly DEF GoesOn

\* The round of a running task that takes what there is, or finds nothing.
LEMMA TakenLedger ==
    ASSUME SystemInv, SystemInv', NEW op \in QueueOps, Ledger(op), WakesSome(kernel, kernel'),
           NEW t \in Tasks, Event(kernel, t) = "none",
           \A u \in Tasks : u # t => pc'[u] = pc[u] /\ local'[u] = local[u],
           \/ Supply(op)' <= Max2(LockOf(op)', 0)
           \/ Supply(op)' + 1 + Max2(LockOf(op), 0) <= Supply(op) + Max2(LockOf(op)', 0)
    PROVE  Ledger(op)'
<1>1. Cardinality({}) = 0 /\ Cardinality({t}) = 1
  BY FS_EmptySet, FS_Singleton
<1>2. PICK X \in SUBSET Tasks, Y \in SUBSET Tasks : X = {} /\ Y = {t}
  OBVIOUS
<1>3. \A u \in Tasks : u \in Y \/ GoesOn(u, op)
  BY <1>2, WokenUp, HeadsSame DEF GoesOn
<1>4. \A u \in Y : Event(kernel', u) # QueueList(op)
  <2>1. Event(kernel', t) \in QueueLists => Event(kernel', t) = "none"
    BY WokenUp DEF Stirs
  <2> QED BY <1>2, <2>1 DEF QueueList, QueueLists, ToSend, ToReceive
<1>5. \/ Supply(op)' <= Max2(LockOf(op)', 0)
      \/ Supply(op)' + Cardinality(Y) + Max2(LockOf(op), 0)
           <= Supply(op) + Cardinality(X) + Max2(LockOf(op)', 0)
  <2>1. Supply(op) + 0 = Supply(op)
    BY QueueTyped
  <2> QED BY <1>1, <1>2, <2>1
<1>6. X \cap InFlight(op) = {} /\ X \subseteq InFlight(op)'
  BY <1>2
<1> QED BY <1>3, <1>4, <1>5, <1>6, Settled

\* A task that sleeps found the queue as it is but for what its lock has counted.
LEMMA PlaceLedger ==
    ASSUME SystemInv, SystemInv', NEW t \in Tasks, Place(t), Looking(t), InWait(t) => Asks(t, WaitOf(t)),
           NEW op \in QueueOps, Ledger(op)
    PROVE  Ledger(op)'
<1> DEFINE c == local[t]
           list == QueueList(c.op)
<1>1. /\ kernel.current = t /\ pc[t] = "place" /\ queue' = queue
      /\ kernel' = vTaskPlaceOnEventList(kernel, list, c.ticks)
      /\ Goto(t, "unlockTx") /\ Keep(t, [call |-> c, then |-> "try", mustYield |-> TRUE])
  BY DEF Place, At, QueueList
<1>2. /\ KernelOK(kernel) /\ t # IdleTask /\ Home(kernel, t) = "ready" /\ Waits(c) /\ c.op \in QueueOps
      /\ FreeRTOSInv /\ CallsInv
  <2>1. FreeRTOSInv /\ CallsInv
    BY DEF SystemInv, QueueInv
  <2>2. InWait(t) /\ WaitOf(t) = c
    BY <1>1 DEF InWait, WaitOf, Asking
  <2> QED BY <1>1, <2>1, <2>2, Running, WaitTimed DEF Asks, Suspending, Closing, Resumes
<1>3. Event(kernel, t) = "none"
  BY <1>1, <1>2, WaitsForNothing
<1>4. list \in EventLists /\ list \in QueueLists
  BY DEF QueueList, EventLists, QueueLists, ToSend, ToReceive
<1> HIDE DEF list
<1>5. \A u \in Tasks : IF u = t THEN Event(kernel', u) = list
                       ELSE Home(kernel', u) = Home(kernel, u) /\ Event(kernel', u) = Event(kernel, u)
  BY <1>1, <1>2, <1>3, <1>4, PlacedOnList DEF Waits
<1>6. pc'[t] = "unlockTx" /\ local'[t] = [call |-> c, then |-> "try", mustYield |-> TRUE]
  BY <1>1, <1>2, Went, Kept
<1>7. \A u \in Tasks : Heads(u, op) => Heads(u, op)'
  BY <1>2, HeadsOn
<1>8. CASE op = c.op
  <2>1. ASSUME NEW u \in Tasks, Event(kernel', u) = QueueList(op) PROVE Heads(u, op)'
    <3>1. CASE u = t
      BY <1>6, <1>8, <3>1 DEF Heads, Closing, Resumes
    <3>2. CASE u # t
      BY <1>5, <1>7, <2>1, <3>2 DEF Ledger, Waiters
    <3> QED BY <3>1, <3>2
  <2>2. Supply(op)' <= Max2(LockOf(op)', 0)
    <3>1. Supply(op) <= LockOf(op)
      BY <1>1, <1>8 DEF Looking
    <3>2. Supply(op)' = Supply(op) /\ LockOf(op)' = LockOf(op)
      BY <1>1 DEF Supply, LockOf
    <3> QED BY <3>1, <3>2, QueueTyped DEF Max2
  <2>3. InFlight(op)' \in SUBSET Tasks
    BY DEF InFlight
  <2>4. Cardinality(InFlight(op)') \in Nat
    <3>1. IsFiniteSet(InFlight(op)')
      BY <2>3, MemoryAssumption, FS_Subset
    <3> QED BY <3>1, FS_CardinalityType
  <2>5. Served(op)'
    BY <2>2, <2>4, SettledTyped DEF Served
  <2>6. \A u \in Waiters(op)' : u \in Tasks /\ Event(kernel', u) = QueueList(op)
    BY DEF Waiters, QueueList
  <2> QED BY <2>1, <2>5, <2>6 DEF Ledger
<1>9. CASE op # c.op
  <2>1. list # QueueList(op)
    BY <1>2, <1>9 DEF list, QueueList, QueueOps, ToSend, ToReceive
  <2>2. Apart(t, op)
    BY <1>1, <1>5, <2>1 DEF Apart, Heads, Closing, Resumes
  <2>3. ASSUME NEW u \in Tasks, u # t PROVE GoesOn(u, op)
    BY <1>5, <1>7, <2>3 DEF GoesOn, Stirs, Up
  <2>4. Supply(op)' + Max2(LockOf(op), 0) <= Supply(op) + Max2(LockOf(op)', 0)
    <3>1. Supply(op)' = Supply(op) /\ LockOf(op)' = LockOf(op)
      BY <1>1 DEF Supply, LockOf
    <3> QED BY <3>1, QueueTyped
  <2> QED BY <2>2, <2>3, <2>4, SettledCalmly
<1> QED BY <1>8, <1>9

\* The unlock wakes a task for all that its lock has counted.
LEMMA UnlockLedger ==
    ASSUME SystemInv, SystemInv', NEW t \in Tasks, Unlock(t), NEW op \in QueueOps, Ledger(op)
    PROVE  Ledger(op)'
<1>1. /\ FreeRTOSInv /\ CallsInv /\ KernelOK(kernel) /\ queue = [f \in Fields |-> queue[f]]
      /\ queue.txLock \in Int /\ queue.rxLock \in Int
  BY QueueTyped DEF SystemInv, QueueInv, FreeRTOSInv
<1>2. \A u \in Tasks : Heads(u, op) => Heads(u, op)'
  BY <1>1, HeadsOn
<1>3. PICK own \in QueueOps :
        /\ kernel' = WakeWaiting(kernel, QueueList(own), LockOf(own))
        /\ LockOf(own)' = -1 /\ Supply(own)' = Supply(own)
        /\ op # own => LockOf(op)' = LockOf(op) /\ Supply(op)' = Supply(op)
  <2>1. CASE /\ kernel' = WakeWaiting(kernel, ToReceive, queue.txLock)
             /\ queue' = [queue EXCEPT !.txLock = -1]
    <3>1. queue'.txLock = -1 /\ queue'.rxLock = queue.rxLock
          /\ queue'.waiting = queue.waiting /\ queue'.uxLength = queue.uxLength
      BY <1>1, <2>1 DEF Fields
    <3>2. "xQueueReceive" \in QueueOps
      BY DEF QueueOps
    <3> QED BY <2>1, <3>1, <3>2 DEF QueueList, LockOf, Supply, QueueOps
  <2>2. CASE /\ kernel' = WakeWaiting(kernel, ToSend, queue.rxLock)
             /\ queue' = [queue EXCEPT !.rxLock = -1]
    <3>1. queue'.rxLock = -1 /\ queue'.txLock = queue.txLock
          /\ queue'.waiting = queue.waiting /\ queue'.uxLength = queue.uxLength
      BY <1>1, <2>2 DEF Fields
    <3>2. "xQueueSend" \in QueueOps
      BY DEF QueueOps
    <3> QED BY <2>2, <3>1, <3>2 DEF QueueList, LockOf, Supply, QueueOps
  <2> QED BY <2>1, <2>2 DEF Unlock, UnlockTx, UnlockRx, queueUNLOCKED
<1>4. QueueList(own) \in {ToSend, ToReceive} /\ LockOf(own) \in Int
  BY QueueTyped DEF QueueList
<1>5. WakesOf(kernel, kernel', QueueList(own), Max2(LockOf(own), 0))
  BY <1>1, <1>3, <1>4, WaitingServed
<1>6. CASE op = own
  <2>1. PICK none \in SUBSET Tasks : none = {}
    OBVIOUS
  <2>2. Cardinality(none) = 0
    BY <2>1, FS_EmptySet
  <2>3. Max2(LockOf(op), 0) \in Nat /\ Max2(LockOf(op)', 0) = 0
    BY <1>3, <1>6, QueueTyped DEF Max2
  <2>4. Supply(op)' + Cardinality(none) + Max2(LockOf(op), 0)
          <= Supply(op) + Max2(LockOf(op), 0) + Max2(LockOf(op)', 0)
    BY <1>3, <1>6, <2>2, <2>3, QueueTyped
  <2> QED BY <1>2, <1>5, <1>6, <2>1, <2>3, <2>4, SettledByWaking
<1>7. CASE op # own
  <2>1. Supply(op)' + Max2(LockOf(op), 0) <= Supply(op) + Max2(LockOf(op)', 0)
    BY <1>3, <1>7, QueueTyped
  <2> QED BY <1>2, <1>5, <2>1, WokenLedger DEF WakesOf
<1> QED BY <1>6, <1>7

\* What a round of the loop finds, and what it does to the supply.
LEMMA TryCounts ==
    ASSUME SystemInv, NEW t \in Tasks, NEW c \in Calls(t), TrySend(t, c) \/ TryReceive(t, c)
    PROVE  /\ kernel.current = t /\ pc[t] \in {"user", "try"} /\ (pc[t] = "try" => c = local[t])
           /\ \A u \in Tasks : u # t => pc'[u] = pc[u] /\ local'[u] = local[u]
           /\ pc'[t] \in {"user", "suspend"} /\ c.op \in QueueOps
           /\ \/ kernel' = kernel /\ queue' = queue /\ Supply(c.op) = 0
              \/ /\ kernel' = WakeAndYield(kernel, QueueList(c.op)) /\ queue' = queue
              \/ \E other \in QueueOps :
                    /\ other # c.op /\ kernel' = WakeAndYield(kernel, QueueList(other))
                    /\ Supply(other)' <= Supply(other) + 1 /\ LockOf(other)' = LockOf(other)
                    /\ Supply(c.op)' = 0 \/ Supply(c.op)' + 1 = Supply(c.op)
                    /\ LockOf(c.op)' = LockOf(c.op)
<1>1. FreeRTOSInv /\ CallsInv /\ StorageOK(queue)
  BY DEF SystemInv, QueueInv
<1>2. /\ kernel.current = t /\ pc[t] \in {"user", "try"} /\ (pc[t] = "try" => c = local[t])
      /\ c.op \in QueueOps /\ (pc[t] = "user" => c \in plan.calls[t])
      /\ \/ Return(t)
         \/ \E call : Goto(t, "suspend") /\ Keep(t, call)
  BY DEF TrySend, TryReceive, TryQueue, Calling, At, QueueOps
<1>3. /\ \A u \in Tasks : u # t => pc'[u] = pc[u] /\ local'[u] = local[u]
      /\ pc'[t] \in {"user", "suspend"}
  BY <1>1, <1>2, Went, Kept DEF Return, Keep
<1>4. "xQueueSend" \in QueueOps /\ "xQueueReceive" \in QueueOps
  BY DEF QueueOps
<1>5. CASE TrySend(t, c)
  <2>1. /\ c.op = "xQueueSend"
        /\ \/ HasRoom(queue, c.position) /\ queue' = prvCopyDataToQueue(queue, c.item, c.position)
              /\ kernel' = WakeAndYield(kernel, ToReceive)
           \/ ~HasRoom(queue, c.position) /\ queue' = queue /\ kernel' = kernel
    BY <1>5 DEF TrySend, TryQueue, SendItem
  <2>2. CASE ~HasRoom(queue, c.position) /\ queue' = queue /\ kernel' = kernel
    <3>1. Supply(c.op) = 0
      BY <2>1, <2>2, QueueTyped DEF HasRoom, Supply
    <3> QED BY <1>2, <1>3, <2>2, <3>1
  <2>3. CASE /\ HasRoom(queue, c.position) /\ queue' = prvCopyDataToQueue(queue, c.item, c.position)
             /\ kernel' = WakeAndYield(kernel, ToReceive)
    <3>1. MaySend(c)
      BY <1>1, <1>2, <2>1, PlanAssumption DEF CallsInv, Sends, MaySend, Asking
    <3>2. /\ queue'.uxLength = queue.uxLength /\ queue.waiting <= queue'.waiting
          /\ queue'.waiting = queue.waiting + 1 \/ (queue'.waiting = queue.waiting /\ queue'.waiting = queue.uxLength)
          /\ queue'.rxLock = queue.rxLock /\ queue'.txLock = queue.txLock
      BY <1>1, <2>1, <2>3, <3>1, SentCounts DEF MaySend
    <3>3. /\ "xQueueReceive" # c.op /\ kernel' = WakeAndYield(kernel, QueueList("xQueueReceive"))
          /\ Supply("xQueueReceive")' <= Supply("xQueueReceive") + 1
          /\ LockOf("xQueueReceive")' = LockOf("xQueueReceive")
          /\ Supply(c.op)' = 0 \/ Supply(c.op)' + 1 = Supply(c.op)
          /\ LockOf(c.op)' = LockOf(c.op)
      BY <2>1, <2>3, <3>2, QueueTyped DEF QueueList, Supply, LockOf
    <3> QED BY <1>2, <1>3, <1>4, <3>3
  <2> QED BY <2>1, <2>2, <2>3
<1>6. CASE TryReceive(t, c)
  <2>1. /\ c.op = "xQueueReceive"
        /\ \/ ~prvIsQueueEmpty(queue) /\ queue' = [prvCopyDataFromQueue(queue).queue EXCEPT !.waiting = @ - 1]
              /\ kernel' = WakeAndYield(kernel, ToSend)
           \/ ~prvIsQueueEmpty(queue)
              /\ queue' = [prvCopyDataFromQueue(queue).queue EXCEPT !.readFrom = queue.readFrom]
              /\ kernel' = WakeAndYield(kernel, ToReceive)
           \/ prvIsQueueEmpty(queue) /\ queue' = queue /\ kernel' = kernel
    BY <1>6 DEF TryReceive, TryQueue, ReceiveItem, PeekItem
  <2>2. CASE prvIsQueueEmpty(queue) /\ queue' = queue /\ kernel' = kernel
    <3>1. Supply(c.op) = 0
      BY <2>1, <2>2 DEF prvIsQueueEmpty, Supply
    <3> QED BY <1>2, <1>3, <2>2, <3>1
  <2>3. CASE /\ ~prvIsQueueEmpty(queue) /\ kernel' = WakeAndYield(kernel, ToReceive)
             /\ queue' = [prvCopyDataFromQueue(queue).queue EXCEPT !.readFrom = queue.readFrom]
    <3>1. queue' = queue
      BY <1>1, <2>3, ReceiveStep
    <3>2. kernel' = WakeAndYield(kernel, QueueList(c.op))
      BY <2>1, <2>3 DEF QueueList
    <3> QED BY <1>2, <1>3, <3>1, <3>2
  <2>4. CASE /\ ~prvIsQueueEmpty(queue) /\ kernel' = WakeAndYield(kernel, ToSend)
             /\ queue' = [prvCopyDataFromQueue(queue).queue EXCEPT !.waiting = @ - 1]
    <3>1. /\ queue'.uxLength = queue.uxLength /\ queue'.waiting = queue.waiting - 1
          /\ queue'.rxLock = queue.rxLock /\ queue'.txLock = queue.txLock
      BY <1>1, <2>4, ReceivedCounts
    <3>2. /\ "xQueueSend" # c.op /\ kernel' = WakeAndYield(kernel, QueueList("xQueueSend"))
          /\ Supply("xQueueSend")' <= Supply("xQueueSend") + 1
          /\ LockOf("xQueueSend")' = LockOf("xQueueSend")
          /\ Supply(c.op)' = 0 \/ Supply(c.op)' + 1 = Supply(c.op)
          /\ LockOf(c.op)' = LockOf(c.op)
      BY <2>1, <2>4, <3>1, QueueTyped DEF QueueList, Supply, LockOf
    <3> QED BY <1>2, <1>3, <1>4, <3>2
  <2> QED BY <2>1, <2>2, <2>3, <2>4
<1> QED BY <1>5, <1>6

\* One that takes something wakes one for what it leaves; one that peeks wakes
\* the next; one that finds nothing owes nobody.
LEMMA TryLedger ==
    ASSUME SystemInv, SystemInv', NEW t \in Tasks, NEW c \in Calls(t), TrySend(t, c) \/ TryReceive(t, c),
           NEW op \in QueueOps, Ledger(op)
    PROVE  Ledger(op)'
<1>1. /\ kernel.current = t /\ pc[t] \in {"user", "try"} /\ (pc[t] = "try" => c = local[t])
      /\ \A u \in Tasks : u # t => pc'[u] = pc[u] /\ local'[u] = local[u]
      /\ pc'[t] \in {"user", "suspend"} /\ c.op \in QueueOps
  BY TryCounts
<1>2. FreeRTOSInv /\ KernelOK(kernel) /\ WakesSome(kernel, kernel)
  BY WakesNone DEF SystemInv, FreeRTOSInv
<1>3. Event(kernel, t) = "none"
  BY <1>1, <1>2, Running, WaitsForNothing DEF Closing, Resumes
<1>4. op # c.op => \A u \in Tasks : Heads(u, op) => Heads(u, op)'
  <2>1. op # c.op => ~Heads(t, op)
    BY <1>1 DEF Heads, Closing, Resumes
  <2> QED BY <1>1, <2>1, HeadsSame
<1>5. \A list \in {ToSend, ToReceive} : kernel' = WakeAndYield(kernel, list) => WakesOf(kernel, kernel', list, 1)
  BY <1>2, WokenOfList
<1>6. \A o : QueueList(o) \in {ToSend, ToReceive}
  BY DEF QueueList
<1>7. \A o : queue' = queue => Supply(o)' = Supply(o) /\ LockOf(o)' = LockOf(o)
  BY DEF Supply, LockOf
<1>8. PICK none \in SUBSET Tasks, self \in SUBSET Tasks : none = {} /\ self = {t}
  OBVIOUS
<1>9. Cardinality(none) = 0 /\ Cardinality(self) = 1
  BY <1>8, FS_EmptySet, FS_Singleton
<1>10. \A u \in self : Event(kernel, u) # QueueList(op)
  BY <1>3, <1>8 DEF QueueList, ToSend, ToReceive
<1>11. \A u \in Tasks : u \in self \/ (Heads(u, op) => Heads(u, op)')
  BY <1>1, <1>8, HeadsSame
<1>12. \A o : Supply(o)' \in Nat /\ Supply(o) \in Nat /\ Max2(LockOf(o), 0) \in Nat /\ Max2(LockOf(o)', 0) \in Nat
  BY QueueTyped, SettledTyped
<1>13. CASE kernel' = kernel /\ queue' = queue /\ Supply(c.op) = 0
  <2>1. CASE op = c.op
    <3>1. Supply(op)' <= Max2(LockOf(op)', 0)
      BY <1>7, <1>12, <1>13, <2>1
    <3> QED BY <1>1, <1>2, <1>3, <1>13, <3>1, TakenLedger
  <2>2. CASE op # c.op
    <3>1. Supply(op)' + Max2(LockOf(op), 0) <= Supply(op) + Max2(LockOf(op)', 0)
      BY <1>7, <1>12, <1>13
    <3> QED BY <1>2, <1>4, <1>13, <2>2, <3>1, WokenLedger
  <2> QED BY <2>1, <2>2
<1>14. CASE kernel' = WakeAndYield(kernel, QueueList(c.op)) /\ queue' = queue
  <2>1. WakesOf(kernel, kernel', QueueList(c.op), 1)
    BY <1>5, <1>6, <1>14
  <2>2. CASE op = c.op
    <3>1. Supply(op)' + Cardinality(self) + Max2(LockOf(op), 0) <= Supply(op) + 1 + Max2(LockOf(op)', 0)
      BY <1>7, <1>9, <1>12, <1>14
    <3> QED BY <1>10, <1>11, <2>1, <2>2, <3>1, SettledByWaking
  <2>3. CASE op # c.op
    <3>1. Supply(op)' + Max2(LockOf(op), 0) <= Supply(op) + Max2(LockOf(op)', 0)
      BY <1>7, <1>12, <1>14
    <3> QED BY <1>4, <2>1, <2>3, <3>1, WokenLedger DEF WakesOf
  <2> QED BY <2>2, <2>3
<1>15. ASSUME NEW other \in QueueOps, other # c.op, kernel' = WakeAndYield(kernel, QueueList(other)),
              Supply(other)' <= Supply(other) + 1, LockOf(other)' = LockOf(other),
              Supply(c.op)' = 0 \/ Supply(c.op)' + 1 = Supply(c.op),
              LockOf(c.op)' = LockOf(c.op)
       PROVE  Ledger(op)'
  <2>1. WakesOf(kernel, kernel', QueueList(other), 1)
    BY <1>5, <1>6, <1>15
  <2>2. CASE op = c.op
    <3>1. \/ Supply(op)' <= Max2(LockOf(op)', 0)
          \/ Supply(op)' + 1 + Max2(LockOf(op), 0) <= Supply(op) + Max2(LockOf(op)', 0)
      BY <1>12, <1>15, <2>2
    <3> QED BY <1>1, <1>3, <2>1, <3>1, TakenLedger DEF WakesOf
  <2>3. CASE op # c.op
    <3>1. op = other
      BY <1>1, <1>15, <2>3 DEF QueueOps
    <3>2. Supply(op)' + Cardinality(none) + Max2(LockOf(op), 0) <= Supply(op) + 1 + Max2(LockOf(op)', 0)
      BY <1>9, <1>12, <1>15, <3>1
    <3> QED BY <1>4, <1>8, <2>1, <2>3, <3>1, <3>2, SettledByWaking
  <2> QED BY <2>2, <2>3
<1> QED BY <1>13, <1>14, <1>15, TryCounts

\* What an interrupt on the queue does to the supply, and to the lock.
LEMMA InterruptCounts ==
    ASSUME SystemInv, NEW irq \in plan.irqs, Interrupt(irq)
    PROVE  \/ irq.op = "xTaskNotifyFromISR" /\ queue' = queue
           \/ \E own \in QueueOps :
                 /\ kernel' = WakeFromISR(kernel, QueueList(own), LockOf(own))
                 /\ Supply(own)' <= Supply(own) + 1
                 /\ LockOf(own)' = IF LockOf(own) = -1 THEN -1 ELSE LockOf(own) + 1
                 /\ \A op \in QueueOps : op # own => Supply(op)' <= Supply(op) /\ LockOf(op)' = LockOf(op)
<1>1. CallsInv /\ StorageOK(queue)
  BY DEF SystemInv, QueueInv
<1>2. "xQueueSend" \in QueueOps /\ "xQueueReceive" \in QueueOps
  BY DEF QueueOps
<1>3. CASE irq.op = "xQueueSendFromISR"
  <2> DEFINE sent == prvCopyDataToQueue(queue, irq.item, irq.position)
             own == "xQueueReceive"
  <2>1. /\ HasRoom(queue, irq.position)
        /\ kernel' = WakeFromISR(kernel, ToReceive, queue.txLock)
        /\ queue' = [sent EXCEPT !.txLock = IF @ = -1 THEN @ ELSE @ + 1]
    BY <1>3 DEF Interrupt, SendFromISR, queueUNLOCKED
  <2>2. irq \in Sends(plan) /\ plan \in Plans /\ queue.uxLength = plan.length
    BY <1>1, <1>3 DEF Sends, CallsInv
  <2>3. /\ sent.uxLength = queue.uxLength /\ queue.waiting <= sent.waiting
        /\ sent.waiting = queue.waiting + 1 \/ sent.waiting = queue.waiting
        /\ sent = [f \in Fields |-> sent[f]] /\ sent.rxLock = queue.rxLock /\ sent.txLock = queue.txLock
    BY <1>1, <2>1, <2>2, SentCounts, PlanAssumption
  <2> HIDE DEF sent
  <2>4. /\ queue'.uxLength = queue.uxLength /\ queue'.waiting = sent.waiting
        /\ queue'.rxLock = queue.rxLock
        /\ queue'.txLock = IF queue.txLock = -1 THEN -1 ELSE queue.txLock + 1
    BY <2>1, <2>3 DEF Fields
  <2>5. /\ kernel' = WakeFromISR(kernel, QueueList(own), LockOf(own))
        /\ Supply(own)' <= Supply(own) + 1
        /\ LockOf(own)' = IF LockOf(own) = -1 THEN -1 ELSE LockOf(own) + 1
        /\ \A op \in QueueOps : op # own => Supply(op)' <= Supply(op) /\ LockOf(op)' = LockOf(op)
    BY <2>1, <2>3, <2>4, QueueTyped, SettledTyped DEF QueueList, Supply, LockOf, QueueOps
  <2> QED BY <1>2, <2>5
<1>4. CASE irq.op = "xQueueReceiveFromISR"
  <2> DEFINE received == [prvCopyDataFromQueue(queue).queue EXCEPT !.waiting = @ - 1]
             own == "xQueueSend"
  <2>1. /\ kernel' = WakeFromISR(kernel, ToSend, queue.rxLock)
        /\ queue' = [received EXCEPT !.rxLock = IF @ = -1 THEN @ ELSE @ + 1]
    BY <1>4 DEF Interrupt, ReceiveFromISR, queueUNLOCKED
  <2>2. /\ received.uxLength = queue.uxLength /\ received.waiting = queue.waiting - 1
        /\ received = [f \in Fields |-> received[f]]
        /\ received.rxLock = queue.rxLock /\ received.txLock = queue.txLock
    BY <1>1, ReceivedCounts
  <2> HIDE DEF received
  <2>3. /\ queue'.uxLength = queue.uxLength /\ queue'.waiting = queue.waiting - 1
        /\ queue'.txLock = queue.txLock
        /\ queue'.rxLock = IF queue.rxLock = -1 THEN -1 ELSE queue.rxLock + 1
    BY <2>1, <2>2 DEF Fields
  <2>4. /\ kernel' = WakeFromISR(kernel, QueueList(own), LockOf(own))
        /\ Supply(own)' <= Supply(own) + 1
        /\ LockOf(own)' = IF LockOf(own) = -1 THEN -1 ELSE LockOf(own) + 1
        /\ \A op \in QueueOps : op # own => Supply(op)' <= Supply(op) /\ LockOf(op)' = LockOf(op)
    BY <2>1, <2>3, QueueTyped DEF QueueList, Supply, LockOf, QueueOps
  <2> QED BY <1>2, <2>4
<1>5. CASE irq.op = "xTaskNotifyFromISR"
  BY <1>5 DEF Interrupt
<1> QED BY <1>3, <1>4, <1>5 DEF Interrupt

\* It wakes one, or its lock counts it.
LEMMA InterruptLedger ==
    ASSUME SystemInv, SystemInv', NEW irq \in plan.irqs, Interrupt(irq), NEW op \in QueueOps, Ledger(op)
    PROVE  Ledger(op)'
<1>1. FreeRTOSInv /\ CallsInv /\ KernelOK(kernel) /\ pc' = pc /\ local' = local
  BY DEF SystemInv, QueueInv, FreeRTOSInv, Interrupt
<1>2. \A u \in Tasks : Heads(u, op) => Heads(u, op)'
  BY <1>1, HeadsSame
<1>3. CASE irq.op = "xTaskNotifyFromISR" /\ queue' = queue
  BY <1>1, <1>2, <1>3, NotifyISRCalm, CalmLedger
<1>4. ASSUME NEW own \in QueueOps,
             kernel' = WakeFromISR(kernel, QueueList(own), LockOf(own)),
             Supply(own)' <= Supply(own) + 1,
             LockOf(own)' = IF LockOf(own) = -1 THEN -1 ELSE LockOf(own) + 1,
             op # own => Supply(op)' <= Supply(op) /\ LockOf(op)' = LockOf(op)
      PROVE  Ledger(op)'
  <2>1. QueueList(own) \in {ToSend, ToReceive}
    BY DEF QueueList
  <2>2. /\ WakesSome(kernel, kernel')
        /\ LockOf(own) = -1 => WakesOf(kernel, kernel', QueueList(own), 1)
    BY <1>1, <1>4, <2>1, WokenFromISR, WokenOfList DEF queueUNLOCKED
  <2>3. /\ Supply(op) \in Nat /\ Supply(op)' \in Nat /\ LockOf(op) \in Int /\ LockOf(op) >= -1
        /\ Max2(LockOf(op), 0) \in Nat /\ Max2(LockOf(op)', 0) \in Nat
    BY QueueTyped, SettledTyped DEF LockOf
  <2>4. CASE op = own /\ LockOf(own) = -1
    <3>1. PICK none \in SUBSET Tasks : none = {}
      OBVIOUS
    <3>2. Cardinality(none) = 0
      BY <3>1, FS_EmptySet
    <3>3. Supply(op)' + Cardinality(none) + Max2(LockOf(op), 0) <= Supply(op) + 1 + Max2(LockOf(op)', 0)
      BY <1>4, <2>3, <2>4, <3>2
    <3> QED BY <1>2, <2>2, <2>4, <3>1, <3>3, SettledByWaking
  <2>5. CASE op # own \/ LockOf(own) # -1
    <3>1. Supply(op)' + Max2(LockOf(op), 0) <= Supply(op) + Max2(LockOf(op)', 0)
      BY <1>4, <2>3, <2>5 DEF Max2
    <3> QED BY <1>2, <2>2, <3>1, WokenLedger
  <2> QED BY <2>4, <2>5
<1> QED BY <1>3, <1>4, InterruptCounts

\* What the tick, and the sections that only look or sleep, leave.
LEMMA QuietLedger ==
    ASSUME SystemInv, SystemInv', Tick \/ UNCHANGED vars \/ \E t \in Tasks : CalmStep(t),
           NEW op \in QueueOps, Ledger(op)
    PROVE  Ledger(op)'
<1>1. FreeRTOSInv /\ CallsInv /\ KernelOK(kernel)
  BY DEF SystemInv, QueueInv, FreeRTOSInv
<1>2. CASE Tick
  <2>1. kernel' = vPortYieldFromTick(kernel) /\ queue' = queue /\ pc' = pc /\ local' = local
    BY <1>2 DEF Tick
  <2>2. \A u \in Tasks : Calm(u)
    BY <1>1, <2>1, TickHandled, PassingStirs DEF Calm
  <2> QED BY <2>1, <2>2, HeadsSame, CalmLedger
<1>3. CASE UNCHANGED vars
  <2>1. kernel' = kernel /\ queue' = queue /\ pc' = pc /\ local' = local
    BY <1>3 DEF vars
  <2>2. \A u \in Tasks : Calm(u)
    BY <2>1, PlacesStir
  <2> QED BY <2>1, <2>2, HeadsSame, CalmLedger
<1>4. ASSUME NEW t \in Tasks, CalmStep(t) PROVE Ledger(op)'
  <2>1. queue' = queue \/ queue' = prvLockQueue(queue)
    BY <1>4 DEF CalmStep, taskYIELD, Yield, Resume, Resuming, ResumeEnd, SuspendForQueue, Lock, Test,
         CollectNotification, Add, ResetNext, IdleLook, Reclaimed, IdleYield, SuspendAll, vTaskDelay,
         vTaskDelayUntil, AwaitNotify, SendNotification, Allocate
  <2>2. \A u \in Tasks : Calm(u) /\ (Heads(u, op) => Heads(u, op)')
    BY <1>1, <1>4, CalmSteps, HeadsOn
  <2> QED BY <2>1, <2>2, CalmLedger
<1> QED BY <1>2, <1>3, <1>4

\* The applications whose wake-ups are not lost.  A task that is woken may be
\* deleted before it looks, and it does not pass its wake-up on; and a reset
\* empties the queue and wakes one sender.  Either does no harm where one task
\* alone waits on the list: otherwise no task that waits there is deleted by
\* another, and the queue of several senders is not reset.
Alone(op) == \A t, u \in Tasks : Makes(t, op) /\ Makes(u, op) => t = u
Uncancelled(op) ==
    \A t \in Tasks : \A c \in plan.calls[t] : c.op = "vTaskDelete" => c.target = t \/ ~Makes(c.target, op)
NeverReset == \A t \in Tasks : \A c \in plan.calls[t] : c.op # "xQueueReset"
WakeUpsKept ==
    /\ Alone("xQueueReceive") \/ Uncancelled("xQueueReceive")
    /\ Alone("xQueueSend") \/ (Uncancelled("xQueueSend") /\ NeverReset)

\* Who is on the way, or waits, makes a call of the kind.
LEMMA HeadsMake ==
    ASSUME WakeInv, NEW u \in Tasks, NEW op \in QueueOps, Heads(u, op) \/ Event(kernel, u) = QueueList(op)
    PROVE  Heads(u, op) /\ Makes(u, op)
<1>1. Heads(u, op)
  BY DEF WakeInv, Ledger, Waiters
<1>2. InWait(u) /\ WaitOf(u).op = op
  BY <1>1 DEF Heads, InWait, WaitOf, Asking, Closing, Resumes
<1> QED BY <1>1, <1>2 DEF WakeInv, Asks

\* A deletion loses no wake-up that another waits for.
LEMMA DeleteLedger ==
    ASSUME SystemInv, SystemInv', WakeInv, WakeUpsKept, NEW t \in Tasks, NEW c \in Calls(t), vTaskDelete(t, c),
           NEW op \in QueueOps
    PROVE  Ledger(op)'
<1> DEFINE v == c.target
<1>1. /\ FreeRTOSInv /\ CallsInv /\ KernelOK(kernel) /\ Ledger(op) /\ pc = [x \in Tasks |-> pc[x]]
  BY DEF SystemInv, QueueInv, FreeRTOSInv, WakeInv, CallsInv
<1>2. /\ pc[t] = "user" /\ c \in plan.calls[t] /\ c.op = "vTaskDelete" /\ queue' = queue
      /\ kernel' = Terminate(kernel, v)
      /\ IF v = t THEN Goto(t, "yield") /\ Keep(t, [call |-> NoCall, then |-> "deleted"])
         ELSE pc' = [pc EXCEPT ![t] = "resetNext", ![v] = "deleted"] /\ Keep(v, NoCall)
  BY DEF vTaskDelete, Calling, At
<1>3. v \in Tasks \ {IdleTask}
  BY <1>1, <1>2, Planned DEF CallOK
<1>4. \A u \in Tasks : /\ Home(kernel', u) = IF u = v THEN "termination" ELSE Home(kernel, u)
                       /\ Event(kernel', u) = IF u = v THEN "none" ELSE Event(kernel, u)
  BY <1>1, <1>2, <1>3, Terminated
<1>5. ~Heads(t, op)
  BY <1>2 DEF Heads, Closing, Resumes
<1>6. ASSUME NEW u \in Tasks, u # t, u # v PROVE pc'[u] = pc[u] /\ local'[u] = local[u]
  <2>1. CASE v = t
    BY <1>1, <1>2, <1>6, <2>1, Went, Kept
  <2>2. CASE v # t
    <3>1. local'[u] = local[u]
      BY <1>1, <1>2, <1>3, <1>6, <2>2, Kept
    <3>2. pc'[u] = pc[u]
      BY <1>1, <1>2, <1>6, <2>2
    <3> QED BY <3>1, <3>2
  <2> QED BY <2>1, <2>2
<1> HIDE DEF v
<1>7. ASSUME NEW u \in Tasks, u # v PROVE GoesOn(u, op)
  <2>1. Stirs(kernel, kernel', u)
    BY <1>4, <1>7 DEF Stirs, Up
  <2>2. Heads(u, op) => Heads(u, op)'
    BY <1>5, <1>6, <1>7, HeadsSame
  <2> QED BY <2>1, <2>2 DEF GoesOn
<1>8. Event(kernel', v) # QueueList(op)
  BY <1>3, <1>4 DEF QueueList, ToSend, ToReceive
<1>9. CASE ~Heads(v, op)
  <2>1. Apart(v, op)
    BY <1>8, <1>9 DEF Apart
  <2>2. Supply(op)' + Max2(LockOf(op), 0) <= Supply(op) + Max2(LockOf(op)', 0)
    <3>1. Supply(op)' = Supply(op) /\ LockOf(op)' = LockOf(op)
      BY <1>2 DEF Supply, LockOf
    <3> QED BY <3>1, QueueTyped
  <2> QED BY <1>1, <1>7, <2>1, <2>2, SettledCalmly
<1>10. CASE Heads(v, op)
  <2>1. v # t /\ Makes(v, op)
    BY <1>3, <1>5, <1>10, HeadsMake
  <2>2. Alone(op)
    BY <1>2, <2>1 DEF WakeUpsKept, Uncancelled, QueueOps, v
  <2>3. ASSUME NEW u \in Tasks, Event(kernel', u) = QueueList(op) PROVE FALSE
    <3>1. u # v /\ Event(kernel, u) = QueueList(op)
      BY <1>4, <1>8, <2>3
    <3>2. Makes(u, op)
      BY <3>1, HeadsMake
    <3> QED BY <1>3, <2>1, <2>2, <3>1, <3>2 DEF Alone
  <2>4. Waiters(op)' = {}
    BY <2>3 DEF Waiters, QueueList
  <2> QED BY <2>4 DEF Ledger
<1> QED BY <1>9, <1>10

\* And neither does a reset.
LEMMA ResetLedger ==
    ASSUME SystemInv, SystemInv', WakeInv, WakeUpsKept, NEW t \in Tasks, NEW c \in Calls(t), Reset(t, c),
           NEW op \in QueueOps
    PROVE  Ledger(op)'
<1>1. /\ FreeRTOSInv /\ CallsInv /\ KernelOK(kernel) /\ Ledger(op) /\ StorageOK(queue)
  BY DEF SystemInv, QueueInv, FreeRTOSInv, WakeInv
<1>2. /\ pc[t] = "user" /\ c \in plan.calls[t] /\ c.op = "xQueueReset"
      /\ queue' = ResetQueue(queue) /\ kernel' = WakeAndYield(kernel, ToSend)
  BY DEF Reset, Calling, At, xQueueReset
<1>3. WakesOf(kernel, kernel', ToSend, 1) /\ WakesSome(kernel, kernel')
  BY <1>1, <1>2, WokenOfList DEF WakesOf
<1>4. \A u \in Tasks : GoesOn(u, op)
  BY <1>1, <1>3, WokenUp, HeadsOn DEF GoesOn
<1>5. CASE op = "xQueueReceive"
  <2>1. queue'.waiting = 0
    BY <1>1, <1>2 DEF ResetQueue, ResetStorage, StorageOK, Fields
  <2>2. Supply(op)' <= Max2(LockOf(op)', 0)
    BY <1>5, <2>1, SettledTyped DEF Supply
  <2>3. PICK none \in SUBSET Tasks : none = {}
    OBVIOUS
  <2> QED BY <1>1, <1>4, <2>2, <2>3, Settled
<1>6. CASE op = "xQueueSend"
  <2>1. Alone(op)
    BY <1>2, <1>6 DEF WakeUpsKept, NeverReset
  <2>2. QueueList(op) = ToSend /\ ToSend \in QueueLists
    BY <1>6 DEF QueueList, QueueLists
  <2>3. ASSUME NEW u \in Tasks, Event(kernel', u) = ToSend, NEW X \in SUBSET Tasks, Cardinality(X) = 1,
               \A x \in X : Event(kernel, x) = ToSend /\ Event(kernel', x) # ToSend
        PROVE  FALSE
    <3>1. Event(kernel, u) = ToSend
      BY <1>4, <2>2, <2>3 DEF GoesOn, Stirs
    <3>2. PICK x \in X : TRUE
      BY <2>3, FS_EmptySet
    <3>3. x \in Tasks /\ x # u /\ Event(kernel, x) = ToSend
      BY <2>3, <3>2
    <3> QED BY <2>1, <2>2, <3>1, <3>3, HeadsMake DEF Alone
  <2>4. \A u \in Tasks : Event(kernel', u) # ToSend
    BY <1>3, <2>3 DEF WakesOf
  <2>5. Waiters(op)' = {}
    BY <1>6, <2>4 DEF Waiters, QueueList
  <2> QED BY <2>5 DEF Ledger
<1> QED BY <1>5, <1>6 DEF QueueOps

\* A task that looks finds the queue locked, and sleeps only where it is of no
\* use: what comes in between is counted.
LEMMA LookingKept ==
    ASSUME SystemInv, SystemInv', WakeInv, [Next]_vars, NEW u \in Tasks
    PROVE  Looking(u)'
<1>1. FreeRTOSInv /\ CallsInv /\ queue = [f \in Fields |-> queue[f]] /\ queue.txLock \in Int /\ queue.rxLock \in Int
  BY QueueTyped DEF SystemInv, QueueInv
<1>2. Looking(u) /\ (InWait(u) => Asks(u, WaitOf(u)))
  BY DEF WakeInv
<1>3. CASE pc' = pc /\ local' = local /\ queue' = queue
  BY <1>2, <1>3 DEF Looking, Supply, LockOf
<1>4. ASSUME NEW t \in Tasks, TaskStep(t), pc'[u] \in {"test", "place"} PROVE Looking(u)'
  <2>1. u = t /\ (Lock(t) \/ Test(t))
    BY <1>1, <1>4, ComesToLook
  <2>2. CASE Lock(t)
    <3>1. pc'[u] = "test" /\ queue' = prvLockQueue(queue)
      BY <1>1, <2>1, <2>2, Went DEF Lock
    <3>2. queue'.txLock >= 0 /\ queue'.rxLock >= 0
      BY <1>1, <3>1 DEF prvLockQueue, Max2, queueLOCKED_UNMODIFIED, Fields
    <3> QED BY <3>1, <3>2 DEF Looking
  <2>3. CASE Test(t)
    <3>1. pc[u] = "test" /\ queue' = queue
      BY <2>1, <2>3 DEF Test, At
    <3>2. "op" \in DOMAIN local[u]
      BY <1>2, <3>1 DEF InWait, WaitOf, Asking, Asks
    <3>3. queue.txLock >= 0 /\ queue.rxLock >= 0
      BY <1>2, <3>1 DEF Looking
    <3>4. ASSUME pc'[u] = "place" PROVE Supply(local[u].op)' <= LockOf(local[u].op)'
      <4>1. PICK call : call = local[u]
        OBVIOUS
      <4>2. PICK timeOut, ticks :
              /\ Keep(u, [call EXCEPT !.timeOut = timeOut, !.ticks = ticks])
              /\ IF call.op = "xQueueSend" THEN prvIsQueueFull(queue) ELSE prvIsQueueEmpty(queue)
        <5>1. ~Goto(u, "unlockTx")
          BY <1>1, <3>4, Went
        <5> QED BY <2>1, <2>3, <4>1, <5>1 DEF Test
      <4>3. local'[u] = [call EXCEPT !.timeOut = timeOut, !.ticks = ticks]
        BY <1>1, <4>2, Kept
      <4>4. local'[u].op = call.op
        BY <3>2, <4>1, <4>3
      <4>5. Supply(call.op) = 0
        BY <4>2, QueueTyped DEF Supply, prvIsQueueFull, prvIsQueueEmpty
      <4>6. /\ \A op : Supply(op)' = Supply(op) /\ LockOf(op)' = LockOf(op)
            /\ LockOf(call.op) >= 0
        BY <3>1, <3>3 DEF Supply, LockOf
      <4>7. PICK op : op = call.op
        OBVIOUS
      <4>8. Supply(op)' <= LockOf(op)'
        BY <4>5, <4>6, <4>7, QueueTyped
      <4> QED BY <4>4, <4>7, <4>8
    <3> QED BY <3>1, <3>3, <3>4 DEF Looking
  <2> QED BY <2>1, <2>2, <2>3
<1>5. ASSUME NEW irq \in plan.irqs, Interrupt(irq) PROVE Looking(u)'
  <2>1. pc' = pc /\ local' = local
    BY <1>5 DEF Interrupt
  <2>2. ASSUME NEW own \in QueueOps, Supply(own)' <= Supply(own) + 1,
               LockOf(own)' = IF LockOf(own) = -1 THEN -1 ELSE LockOf(own) + 1,
               \A op \in QueueOps : op # own => Supply(op)' <= Supply(op) /\ LockOf(op)' = LockOf(op)
        PROVE  Looking(u)'
    <3>1. \A op \in QueueOps :
            /\ LockOf(op) >= 0 => LockOf(op)' >= 0
            /\ LockOf(op) >= 0 /\ Supply(op) <= LockOf(op) => Supply(op)' <= LockOf(op)'
      BY <2>2, QueueTyped, SettledTyped
    <3>2. pc[u] \in {"test", "place"} => queue'.rxLock >= 0 /\ queue'.txLock >= 0
      <4>1. (queue.rxLock >= 0 => queue'.rxLock >= 0) /\ (queue.txLock >= 0 => queue'.txLock >= 0)
        BY <3>1 DEF QueueOps, LockOf
      <4> QED BY <1>2, <4>1 DEF Looking
    <3>3. ASSUME pc[u] = "place" PROVE Supply(local[u].op)' <= LockOf(local[u].op)'
      <4>1. local[u].op \in QueueOps
        BY <1>2, <3>3 DEF InWait, WaitOf, Asking, Asks
      <4>2. LockOf(local[u].op) >= 0 /\ Supply(local[u].op) <= LockOf(local[u].op)
        BY <1>2, <3>3 DEF Looking, LockOf
      <4>3. PICK op \in QueueOps : op = local[u].op
        BY <4>1
      <4>4. Supply(op)' <= LockOf(op)'
        BY <3>1, <4>2, <4>3
      <4>5. local'[u].op = op
        BY <2>1, <4>3
      <4> QED BY <2>1, <4>3, <4>4, <4>5
    <3> QED BY <2>1, <3>2, <3>3 DEF Looking
  <2>3. CASE queue' = queue
    BY <1>3, <2>1, <2>3
  <2> QED BY <1>5, <2>2, <2>3, InterruptCounts
<1>6. pc'[u] \notin {"test", "place"} => Looking(u)'
  BY DEF Looking
<1> QED BY <1>3, <1>4, <1>5, <1>6 DEF Next, Tick, vars

LEMMA WakeKept ==
    ASSUME SystemInv, WakeInv, WakeUpsKept, [Next]_vars
    PROVE  WakeInv' /\ WakeUpsKept'
<1>1. SystemInv' /\ plan' = plan
  BY SystemKept, PlanStays
<1>2. WakeUpsKept'
  BY <1>1 DEF WakeUpsKept, Alone, Uncancelled, NeverReset, Makes
<1>3. ASSUME NEW op \in QueueOps PROVE Ledger(op)'
  <2>1. Ledger(op) /\ \A t \in Tasks : Looking(t) /\ (InWait(t) => Asks(t, WaitOf(t)))
    BY DEF WakeInv
  <2>2. ASSUME NEW t \in Tasks, TaskStep(t) PROVE Ledger(op)'
    <3>1. CASE CalmStep(t)
      BY <1>1, <2>1, <3>1, QuietLedger
    <3>2. CASE Place(t) \/ Unlock(t)
      BY <1>1, <2>1, <3>2, PlaceLedger, UnlockLedger
    <3>3. ASSUME NEW c \in Calls(t), \/ TrySend(t, c) \/ TryReceive(t, c)
                                     \/ Reset(t, c) \/ vTaskDelete(t, c)
          PROVE  Ledger(op)'
      BY <1>1, <2>1, <3>3, TryLedger, ResetLedger, DeleteLedger
    <3> QED BY <2>2, <3>1, <3>2, <3>3 DEF TaskStep, CalmStep
  <2> QED BY <1>1, <2>1, <2>2, QuietLedger, InterruptLedger DEF Next
<1>4. ASSUME NEW u \in Tasks PROVE Looking(u)' /\ (InWait(u)' => Asks(u, WaitOf(u))')
  BY <1>1, LookingKept, AsksKept DEF WakeInv
<1> QED BY <1>2, <1>3, <1>4 DEF WakeInv

LEMMA WakeStarts ==
    ASSUME Init
    PROVE  WakeInv
<1>1. \A u \in Tasks : pc[u] \in {"idle", "user", "none"}
  BY DEF Init
<1>2. \A u \in Tasks : Looking(u) /\ ~InWait(u)
  BY <1>1 DEF Looking, InWait, Asking, Closing, Resumes
<1>3. \A op : Waiters(op) = {}
  BY Started DEF Waiters, QueueList, ToSend, ToReceive
<1> QED BY <1>2, <1>3 DEF WakeInv, Ledger

\* NoLostWakeup: in such an application, while a task waits for an item, or for
\* room, a task is on its way for all there is in the queue, or the lock has
\* counted it and the task that unlocks will wake one for it.
THEOREM WakeUpsArrive == HistorySpec /\ WakeUpsKept => []NoLostWakeup
<1>1. HistoryInit => WakeInv
  BY WakeStarts DEF HistoryInit
<1>2. SystemInv /\ WakeInv /\ WakeUpsKept /\ [HistoryNext]_<<vars, historyVars>> => WakeInv' /\ WakeUpsKept'
  <2> SUFFICES ASSUME SystemInv, WakeInv, WakeUpsKept, [HistoryNext]_<<vars, historyVars>>
               PROVE  WakeInv' /\ WakeUpsKept'
    OBVIOUS
  <2>1. [Next]_vars
    BY HistoryIsNext DEF vars
  <2> QED BY <2>1, WakeKept
<1>3. SystemInv /\ WakeInv => NoLostWakeup
  <2> SUFFICES ASSUME SystemInv, WakeInv PROVE NoLostWakeup
    OBVIOUS
  <2>1. \A op \in QueueOps : Ledger(op)
    BY DEF WakeInv
  <2>2. \A op \in QueueOps : Waiting(QueueList(op)) # {} => Served(op)
    <3> SUFFICES ASSUME NEW op \in QueueOps, NEW t \in Waiting(QueueList(op)) PROVE Served(op)
      OBVIOUS
    <3>1. KernelOK(kernel) /\ t \in Tasks /\ QueueList(op) \in QueueLists
      BY DEF SystemInv, FreeRTOSInv, Waiting, Listed, QueueList, QueueLists
    <3>2. Event(kernel, t) = QueueList(op)
      BY <3>1, ListedByEvent DEF Waiting, Listed
    <3> QED BY <2>1, <3>1, <3>2 DEF Ledger, Waiters
  <2>3. "xQueueSend" \in QueueOps /\ "xQueueReceive" \in QueueOps
    BY DEF QueueOps
  <2>4. Waiting(ToReceive) # {} => queue.waiting <= Cardinality(InFlight("xQueueReceive")) + Max2(queue.txLock, 0)
    BY <2>2, <2>3 DEF QueueList, Served, Supply, LockOf
  <2>5. Waiting(ToSend) # {} =>
           queue.uxLength - queue.waiting <= Cardinality(InFlight("xQueueSend")) + Max2(queue.rxLock, 0)
    BY <2>2, <2>3 DEF QueueList, Served, Supply, LockOf
  <2> QED BY <2>4, <2>5 DEF NoLostWakeup
<1> HIDE DEF WakeInv, WakeUpsKept
<1> QED BY <1>1, <1>2, <1>3, FreeRTOSInvHolds, PTL DEF HistorySpec

=============================================================================

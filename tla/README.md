# PULPino in TLA+: sleep, interrupts, timer, and FreeRTOS on top

PULPino is a single-core RISC-V microcontroller in SystemVerilog: a RISCY core
with its RAMs, an AXI interconnect, an APB bus with peripherals, and the C
libraries, start-up code and tests that run on it. This directory holds a
specification of its control logic, the TLC runs that check it on small
instances, and proofs for every instance. Source paths below are relative to
`src/pulpino/`.

## The system

| Part | State it keeps | Operations | Talks to | Modelled in |
|---|---|---|---|---|
| Service units, `ips/apb/apb_event_unit/generic_service_unit.sv` | ENABLE, PENDING, SET and CLEAR registers, registered one-hot output | one clock edge with pulses and at most one APB write | peripherals' interrupt lines, core, sleep unit | `ServiceUnit` |
| Sleep unit, `sleep_unit.sv` | RUN / SHUTDOWN / SLEEP, sleep bit, status bit | one clock edge | service units, core's fetch enable, busy flag and clock gate | `SleepUnit` |
| Event unit, `apb_event_unit.sv` | both of the above twice and once, fetch_enable synchroniser | one clock edge | APB, core | `EventUnit` |
| RISCY control path, `ips/riscv` | controller and interrupt controller, mstatus, mepc, pipeline valid and enable bits, load-store unit, busy flag | one edge of the gated clock | fetch interface, data port, event unit | `RiscyCore` |
| Data port to peripherals, `core2axi.sv`, `axi_slice`, `axi2apb32.sv` | one transaction | request, arrival, response | core, APB slaves | `PeripheralPath` |
| Timer, `ips/apb/apb_timer/timer.sv` | counter, control, compare, cycle counter | one clock edge with at most one APB write | event unit, software | `ApbTimer` |
| Software, `sw/` | program counter and memory | instructions | all of the above | `SleepPrograms` |
| FreeRTOS kernel, `sw/apps/freertos/Source/tasks.c`, `list.c` | ready, delayed, event, pending and termination lists, tick counter, task control blocks | delays, suspension, creation, deletion, notification, tick | tasks, queues, port | `FreeRTOSKernel`, `FreeRTOS` |
| FreeRTOS queues, `queue.c` | ring of slots, two event lists, two lock counts | send, receive, peek, reset, the same from interrupts | kernel | `QueueStorage`, `FreeRTOSQueue`, `FreeRTOS` |
| FreeRTOS heap, `heap_1.c` | next free byte | allocate | creation of tasks | `FreeRTOS` |
| FreeRTOS port, `portable/GCC/RI5CY/port.c`, `sw/ref/crt0.riscv.S` | saved contexts, x1, mepc, stack | yield, tick, return from both | kernel, core | `FreeRTOSPort` |
| RAM multiplexers, `rtl/ram_mux.sv`, `core_region.sv` | grants, response source | request, answer | core, AXI, debug | not yet |
| AXI node, `ips/axi/axi_node` | round-robin flags, transaction FIFOs | handshakes of five channels | masters and slaves | not yet |
| Dual-clock slice and SPI slave | token rings, SPI command parser | edges of two clocks | AXI | not yet |
| UART, SPI masters, I2C, GPIO | FIFOs, shift registers, thresholds | APB access, bit clock | event unit | not yet |
| Debug unit, `adv_dbg_if` | halt state, breakpoints | debug requests | controller | not yet |

Components that are not modelled are listed one by one, with the reason, in
`PROJECT.json`. In short: data paths (ALU, multiplier, FPU, AES) have no control
worth exploring; third-party blocks (OpenTitan AES, OpenCores I2C and
debug interface) and test benches are left aside; of FreeRTOS only the files
its CMakeLists.txt builds are modelled (timers, event groups, co-routines and the
other heaps are not compiled); zero-riscy is not instantiated by
default (`USE_ZERO_RISCY = 0` in `rtl/pulpino_top.sv`).

### What is hard

The core stops itself. Software stores a one to the sleep bit and executes
`wfi`. The store travels over AXI and APB for a few cycles; the sleep unit then
lowers fetch enable, unless an event is up; the core flushes its pipeline and
enters SLEEP; its busy flag, a cycle old, falls; the sleep unit takes its clock
away, unless an interrupt is up; and a line that pulses for one cycle at any
moment of all this has to wake it. While the core's clock stands, those of the
bridge, the event unit and the timer run on. An interrupt wakes the core, which
runs the handler and falls asleep again at `mret`, since fetch enable is still
low; only an event lets the main program go on. Every one of these steps
meets every other one in some interleaving, and the test programs see a few of
them.

FreeRTOS is preemptive. Between any two critical sections of a call a tick or
another interrupt may come, wake tasks, take the processor away for any time,
and send to the queue the call is about to wait on. While a call has the scheduler
suspended, ticks and woken tasks pile up and are made up for at its
end. The tick counter wraps every 65536 ticks, and every comparison of times has to
survive it. Woken tasks have to look again, since a task that comes first may have
taken what they were woken for.

`PROJECT.json` lists the hazards at the lines where they bite, with
the properties that cover them.

What makes each part correct: no enabled pulse is lost and none is invented
(service unit); the core never sleeps through an event or an interrupt, and never
loses its clock with work under way (sleep unit); interrupts are precise, never
nested, and never taken behind `int_disable` (core); one answer for each request
(bus path); exact periods and one-cycle pulses (timer); `wfi` returns only when the
event is there (software).
FreeRTOS: the highest ready priority runs and its tasks take turns (scheduler);
every tick counts and every wait ends with its tick (time); items come out once and in
order, and nobody sleeps beside an item or a free slot (queue); a notified task
wakes (notifications); a task is in the lists its state says and in no other
(lists); a task goes on where it was (port).

## Modules

One step of every module is one rising edge of the clock. The registers of a part
are its variables, the combinational signals are operators, and the inputs of
the cycle are parameters of the action, so parts compose by conjunction: a
register's next value is a function of the present registers, as in the
`always_ff` blocks. A 32-bit register whose bits are lines is the set of its one
bits.

* `ServiceUnit` - registers and output of one unit. `ServiceUnitPorts` closes it
  with arbitrary inputs and states its refinement of `InterruptBuffer`, the
  abstract specification: a buffer on which an access acts at once. Two things of
  the hardware show in it and cannot be abstracted away: a line is deaf for the
  cycle after it is cleared, and the output may lag. `MCServiceUnit` adds the record
  that a finding needs.
* `SleepUnit`, `EventUnit` - the three-state machine with its registers, and the
  composition of two service units, the sleep unit and the fetch_enable synchroniser.
* `RiscyCore` - one action per state of `riscv_controller.sv`, the interrupt
  controller, mie, mpie and mepc, IF/ID and ID/EX as far as they control
  anything, the load-store unit, the busy flag. A program is a CONSTANT: a function
  from addresses to an instruction's kind, operand and possible successors.
* `PeripheralPath` - a store on its way. How many cycles it takes is open.
* `PulseTimer` - the timer as the event unit sees it, with an arbitrary moment of
  match. `ApbTimer` - the timer itself; `TimerHistory` measures it and states
  that it implements `PulseTimer`, so what holds in the system model holds for
  every compare value and prescaler.
* `SleepSystem` - everything together, including the core's clock gate. Its
  refinement of `ClockContract` says what core, sleep unit and bus owe each other.
* `SleepPrograms` - `check_sleep_irq` with its handler (testEvents) and the loop
  of testInterrupt. `MCSleepSystem` instantiates the system with them, and
  `SleepHistory` adds history variables: a pulse not yet looked at, who runs,
  and what each program must execute next.
* `CoreInvariant`, `SleepInvariant`, `OrderInvariant` - the inductive invariants of
  the core, of the system, and of programs and handlers on it.
* `ServiceUnit_proofs`, `ApbTimer_proofs`, `SleepSystem_proofs` (core and system),
  `SleepHistory_proofs` - the theorems.

The FreeRTOS modules work on a coarser grain: a step is a critical section, or
what lies between two of them as far as an interrupt can tell.

* `FreeRTOSList` - the doubly linked list as the ring of its items, end marker
  included, read from `pxIndex`. So the index, which decides about turns, is in the
  model, and insertion at the end and sorted insertion are what `list.c` does.
* `FreeRTOSTime` - the tick counter modulo `TickMod` and the comparisons of
  `xTaskCheckForTimeOut` and `vTaskDelayUntil`. `TickType_t` is 16 bits wide here and
  is promoted to int: differences are signed, stored values are cut.
* `FreeRTOSKernel` - the data of `tasks.c` as one record, and its functions as
  operators on the record.
* `QueueStorage`, `FreeRTOSQueue` - the ring of slots with the copy functions, and
  the functions that move an item and wake a task, for tasks and for interrupts.
* `FreeRTOS` - tasks with a program counter and the local variables of the call they
  are in. `xQueueGenericSend` and `xQueueGenericReceive` are their real loop: try,
  suspend, lock, test, place, unlock in two sections, resume, yield, try again.
  `xTaskResumeAll` is one step per pending task or tick, with interrupts disabled
  from its first to its last. Only the task the kernel has chosen makes steps.
* `MCFreeRTOS` - the applications: who exists, which calls each task
  may make, in any order and for ever, which interrupts come. The demo of `main.c`
  is one of them. `FreeRTOSHistory` adds what properties have to remember: the
  ticks that came, how long a call has waited, whom an interrupt has notified.
* `TickWheel` is the abstract specification of waiting: n ticks are n ticks.
  `DelayedLists` implements it with two lists and a wrapping counter, and the kernel
  implements `DelayedLists`. `BoundedQueue` is that of a queue.
* `FreeRTOSPort` - `vPortYield`, `vPortYieldFromTick` and the frame of the crt0
  handler: what happens to pc, x1, mepc and the stack. Which task comes next is left
  open. The kernel model takes the switch for granted, as the port's
  comments promise it.
* `FreeRTOSInvariant` - the inductive invariant of the kernel and its tasks.
* `DelayedLists_proofs` (with the arithmetic of ticks), `FreeRTOSQueue_proofs` (storage
  and the refinement of `BoundedQueue`), `FreeRTOSKernel_proofs` (what each function of
  `list.c` and `tasks.c` does to the lists), `FreeRTOS_proofs` (the steps of tasks and
  handlers, and the theorems).

### Abstractions

The data path is absent: loads, arithmetic and stores to RAM are `"alu"`
instructions, and what they decide is a choice among successors. So a branch,
with its flush of the fetch stage, takes no more cycles than falling through; the
fetch interface is slow by choice anyway. `mul` stands for the single-cycle
multiplication only. A csr instruction holds IF for the flush that follows it.
`fetched` is a choice in every cycle in which IF may hand over. The prefetch
buffer is one bit: a fetch is outstanding.
`fetch_enable_i` of the chip rises once and stays. The clocks of event unit
and timer are on (`apb_pulpino` can gate them). Not in the model: the debug states,
ELW, ecall, ebreak, illegal instructions, hardware loops, misaligned accesses,
stores to RAM as bus requests, and reads over the bus.

FreeRTOS is modelled in the configuration of `FreeRTOSConfig.h`: what the
preprocessor leaves out is left out. A task is its control block, its wake time,
its priority and its notification, whose value is a small counter; an item is one
of two messages. Stacks and names have no content. In the kernel model a
critical section is atomic, and so is a whole delay up to its resume, since nothing
an interrupt does can tell the two apart. Not modelled although compiled:
`xQueueGiveFromISR`, items of size zero (semaphores), `vQueueDelete`, and
`eSetBits` with more than one bit.

## Runs

| Run | Instance | States | What it shows |
|---|---|---|---|
| `sleep_system` | testEvents program, 2 lines, at most 3 pulses between two accesses to TIMER_CTRL | 52,885 | all safety properties of sleeping and waking, the inductive invariant, the contract |
| `test_interrupt` | testInterrupt program, one line both event and interrupt | 12,860 | interrupts against `int_disable`; no lost wake-up |
| `sleep_liveness` | testEvents program with a handler that raises the event, 2 pulses | 20,196 | a pending interrupt is taken, flushes end, the test completes again and again |
| `service_unit` | 2 lines, any pulses, any write in any cycle | 22,032 | the unit implements the buffer |
| `apb_timer` | counter of 3 bits, three values per register | 88,862 | period, pulses, phase, implementation of the pulse source |
| `freertos` | eleven applications of up to three tasks beside the idle task, three priorities, a queue of one or two items | 185,463 | all properties of the kernel, refinement of `DelayedLists` and `BoundedQueue`, turns under fairness |

Bounds. Two lines are enough for a service unit: lines do not interact except in the
priority, which compares two. In the system one line is the timer's and the other
the software event. `MaxPulses` bounds the pulses of the timer between two
accesses that start or stop it: one that starts the interrupt, one that can hit
the handler, one behind it. It bounds an input, not a register, so it cuts off
repetitions only; the proofs hold for any value. `Modulus` is 8 instead of 2^32:
compare values below, at and beyond the values the counter takes, at the top
(7) and zero. `CtrlValues` are off, on, and on with prescaler 1, for
which the round of nine cycles is longer than the prescaler's own. `MaxElapsed`
outlasts the longest period, 7 * 10, or 4 * 6 in `arduino_period`: `HistoryAssumption`
of `TimerHistory` asks for it, because the measurement stands still there. Deadlock is checked in every run: hardware
always has a next edge, except in the FreeRTOS runs, where an application may
be left waiting for an interrupt that never comes.

Bounds of `freertos`. `TickMod` is 5 instead of 2^16: waits of one to four ticks fall
short of the wrap, at it and behind it. The plans without a queue run with an endless clock, across
any number of wraps; those that wait on the queue end their clock before the first
wrap (`lastTick`), because what `xTaskCheckForTimeOut` does behind it is the
finding of `freertos_timeout`. `MaxPended`, `MaxLock` and `MaxNotified` are 2: one
event to make up for, and one more that arrives meanwhile; in the code these counts are
chars. Two waiting tasks per event list tell an order of waking from its reverse;
two slots make the ring wrap at both ends; three priorities leave one above, one below
and one beside a task. The heap has room for four tasks and fails for the fifth, so
`Lives` meets both outcomes of an allocation. `OverflowMod` is 2, and 2^8 in
the code: only time-outs read it, to see whether it has changed.

The applications: `Sleepers` (delays across the wrap, suspension),
`Receivers`, `Senders` and `Pipe` (waiting for items and for room, with interrupts, peeking),
`Order` and `Mailbox` (order of items at both ends, overwriting), `Cancel`
(a receiver that is deleted and created again at any moment), `Signals` (notifications from
tasks and interrupts, under a suspended scheduler too), `LateSignals` (a notification for
a task whose wait has timed out before it could look, and that shares its priority), `Lives` (tasks that come and go,
the idle task that reclaims them), `Demo`.

Properties of `freertos`: `OneStateList` (lists against deletion and interrupts),
`TicksKept`, `DelaysImplemented`, `NeverEarly` (time), `PromptPreemption`, `FairSlices`,
`HighestFirst`, `TurnComes` (scheduling), `NoLostWakeup`, `FifoImplemented` (queue),
`NoLostNotification`. Two of them have exceptions that are facts about the code and stated
where they are defined: a task notified by an interrupt is passed over until some
unrelated switch, since `xTaskGenericNotifyFromISR` leaves the yield to its caller and this port has
no yield for interrupts (`PromptPreemption`, `TurnComes`); and `FairSlices` leaves out the task
at the index of its ready list, which can be overtaken by newcomers when it is preempted,
and the tasks that are `Late` (see "The lists of the kernel").

Properties of `sleep_system`: `ClockGateSafe` and `KeepsClockContract` (the
clock), `AnswerExpected` (bus), `FlushedAsleep`, `WokenForInterrupt`,
`AwakeOnlyByEvent` (sleeping and waking), `NoStaleInterrupt`, `NoLostPulse`
(event unit against handler), `ProgramOrder` and `NoNesting` (precise
interrupts). Each is stated with its comment where it is defined.

### Fairness

The clock runs, `WF(SysNext)`. The rest of `Fairness` in `SleepSystem` says that what
the model leaves open does not stay open for ever: a bus stage
ends (AXI slices, node and bridge are FIFOs with one transaction in them and an APB
slave that is always ready), an outstanding fetch is answered (the instruction RAM
answers in a cycle after each grant) and brings an instruction, the
chip is started, and a running timer matches. Each is a condition that
one step ends which stays enabled as long as the condition lasts; they
are stated as `[]<>`. Nothing is assumed of the order in which lines
pulse, and no strong fairness is needed. For the timer only the clock is assumed.

For FreeRTOS (`Fairness` in `FreeRTOS`): the tick comes again and again if it is
possible again and again - strong, because the event unit keeps a pulse that arrives while
interrupts are disabled, which is what `NoLostPulse` and `EventWakes` say of the hardware. And a
call once begun goes on - weak, and spelt out with the guards - whereas a task may
compute between two calls for ever. Nothing is assumed of interrupts other than the tick.

## Disagreements found

Six runs end in a counterexample, each against a sentence of the repository.

1. `direct_wfi`. With `wfi` directly after the store of the sleep bit, the bit
   is set while the core is already in its flush, the core sees fetch enable
   too late and runs past `wfi` without an event. A comment in `sleep_unit.sv`
   (108-109) says the early `fetch_en_o` makes this sequence work. The library's
   `sleep()` has two nops in between and the tests five additions.
2. `multiply_flush`. A multiplication directly before `wfi`, `mret` or `ecall`: the
   bubble that follows it into EX has no unit enabled, `ex_valid` stays low
   and the controller stays in FLUSH_EX for ever, although it says it inserts a
   NOP (`riscv_controller.sv:554`).
3. `service_unit_readme`. The README of the event unit puts the mask behind the buffer;
   the code has it in front, and pulses on a masked line are lost.
4. `arduino_period`. The Arduino timer's period is 16385 cycles, not 16384.
5. `freertos_timeout`. A receiver that is preempted across the wrap of the tick
   counter and then looks at its time-out gets a negative difference of two promoted
   `uint16_t`: no time-out, and nearly a whole turn of the counter still to wait
   (`tasks.c:2621`), against "the maximum amount of time the task should block" of
   `queue.h:749`. `TimeOutMissed` proves the general form for every width.
6. `freertos_port`. `vPortYield` leaves its way back in x1, the tick switches by
   `mret` to the mepc that was saved, which at that time is that of an older trap or
   the entry of the task (`port.c:299`).

Seen while reading, and not the subject of a run: `uxPendedTicks` is a char and loses
256 ticks at the 256th tick of one suspension, though the comment at `tasks.c:1715` says the
count does not slip; the lock counts of a queue are as narrow. The handler in
crt0 is not naked, so a task preempted by the tick resumes with the frame of the
handler still on its stack, and `portSAVE_CONTEXT` and `portRESTORE_CONTEXT` move
the stack pointer by 0x6c and 0x7c, which the prologue the compiler happens to
emit makes up for. Between `int_enable` and `mret` in `vPortYieldFromTick` another interrupt may
overwrite mepc. `vPortFree` of heap_1 does nothing: the memory of a deleted task, and the
stack of one whose control block could not be allocated (`tasks.c:3155`), never come back.
`prvSetupTimerInterrupt` sets the compare value to the number of cycles wanted, so
the period is one more (finding 4). A receiver that is deleted after it was woken
takes the wake-up with it, and a reset of a queue wakes one sender only (`queue.c:280`).

## Proofs

All theorems are checked by TLAPS, for every program, vector table, set of lines,
timer value and bound that satisfies the `ASSUME`s of the modules.

* `ServiceUnit_proofs`: `PortsTypeCorrect`; `UnitImplementsBuffer`, by
  computing the buffer after an edge from the four cases of the write.
* `ApbTimer_proofs`: `TimerTypeCorrect` (the counter is reset at its last
  value before it could wrap), `CounterNeverOverruns`, `InterruptIsAPulse`,
  `TimerImplementsPulses`, `PeriodExact`. The fourth rests on an invariant of its own: a stopped
  timer matches only in the cycle after the edge that has stopped or loaded it. The period
  rests on `MeasureInv`: the prescaler's counter runs through `timerCtrl + 1`
  cycles and counts in one of them, so it is described by its phase since the last count;
  the time since a match is whole rounds times the counter, plus the phase, and at the match
  the phase is zero.
* `SleepSystem_proofs`, first part: `CoreInvStep`, one edge of the core preserves `CoreInv`
  whatever its ports do. `NoInstructionDropped` and `TakenOnlyEnabled` are not inductive:
  mie may be changed by a csr access in EX. `CsrInv` says that one is there only
  while its own flush waits for it, so mie is stable on the way DECODE,
  IRQ_FLUSH, IRQ_TAKEN_ID.
* `SleepSystem_proofs`, second part: `SleepInvHolds`, and from it `SystemTypeCorrect`,
  `ClockGateIsSafe`, `AnswersAreExpected`, `InstructionsSurvive`,
  `InterruptsTakenEnabled`, `PipelineEmptyAsleep`, `ClockContractKept`.
  `ClockGateSafe` is about the present cycle while the busy flag describes the
  last one. `IdleInv` closes the gap: with the flag low the core has started
  nothing since but perhaps its wake-up, and `WakeInv` says that a latched interrupt
  cannot be asleep with it. `BootInv` deals with the cycles before the first
  fetch, in which the flag is low too.
* `SleepHistory_proofs`: `OrderInvHolds`, and from it `ProgramsInOrder`, `HandlersDoNotNest`,
  `NoHandlerForNothing`, `WakesForItsHandler`, `PulsesReachTheirHandler`, `DisabledForGood`.
  See below.
* `DelayedLists_proofs`: for any set of tasks and any width of the counter,
  `DelayedTypeCorrect`, `DelayedListsSorted` and `DelaysAreExact`. The inductive invariant is
  `DelayedInv`: near tasks are due at or after `xNextTaskUnblockTime` and ahead of the
  counter, far ones behind it, and no task is in both lists. From it, at the
  wrap the near list is empty - the assertion of `tasks.c:375` - and the ticks left
  to a task are its key minus the counter, plus a turn if it is far; every step
  changes them as `TickWheel` says. The run shows that the kernel implements `DelayedLists`.
  And `TimeOutExact`, `TimeOutMissed`, `DelayUntilExact`: where the
  comparisons of ticks are right in spite of the wrap and where they are not.
* `FreeRTOSQueue_proofs`: `SendToBack`, `SendToFront`, `OverwriteOnly`, `ReceiveFirst`: from the
  invariant `StorageOK` (the slot to write is the one behind the items, which follow the
  slot read last), what each copy function does to the content of a queue of
  any length, and that it keeps `StorageOK`. From them `QueueIsFifo`, for every application.
* `FreeRTOSKernel_proofs`, `FreeRTOS_proofs`: `FreeRTOSInvHolds`, and from it
  `KernelTypeCorrect`, `OneListPerTask`, `NoTickLost`, `NotificationsArrive`,
  `PreemptionPrompt`, `HighestServedFirst`, `NoWaitEndsEarly`. See below.

### Programs and handlers

`SleepHistory` keeps what the hardware forgets: who runs (`context`) and which
addresses may come next in it (`due`). That these agree with the machine is no invariant by
itself: between the fetch of an instruction and its end lie IF, ID, EX, a flush, and perhaps
an interrupt that saves it in mepc and comes back to it. `OrderInv` says how the two
agree at every stage:

* `ContextInv`: each context goes on in its own code; while a handler runs, mie is clear, mepc
  is where main goes on, and the controller holds no request.
* `DueInv`: what is due is the instruction ID holds - if it still has to be issued, to end
  its flush, or to be saved in mepc - and else what IF delivers.
* `ExInv`: a csr access in EX is the last instruction issued; a store of a handler there
  finds its handler still running. Both because a store and a csr access hold what follows
  until they are through.
* `DrainInv`, `FetchInv`: asleep the bus is idle; a request that wakes the core is one mie
  lets pass; the fetch enable that starts the core does not go away at once.
* `LineInv`: lines leave PENDING only while a handler runs, from its store in EX until
  `irq_o` has followed. So a request the controller has latched in DECODE is still pending
  when its handler is entered: no handler for nothing.

`PulseInv` adds, for the pulses: while a clear is on its way the handler's next instruction is
the read of the cause, since the bus response of the store holds the pipeline; so a pulse the
clear swallows is one that handler still sees. `EndInv` adds that behind `int_disable` mie
is clear, or the csr access that clears it is in EX, from where no interrupt passes it.

The theorems are about every program that keeps to three disciplines, each an `ASSUME`
of `SleepHistory` that TLC evaluates for the programs of the runs:

* `ProgramDiscipline`: main and handlers share no instruction; handlers alone end in mret and
  take lines out of PENDING, main alone sets mie; no `wfi` and no `mret` comes directly behind a
  store. `sleep()` has two nops in between (`sw/libs/sys_lib/inc/utils.h:65-68`), the handler
  frame reloads its registers (`sw/ref/crt0.riscv.S:220-248`), and PENDING is cleared in
  handlers only, in the test programs. Without the last clause the properties are false:
  `direct_wfi` is the counterexample.
* `HandlerDiscipline`: a handler first clears its line, then reads the cause
  (`ISR_TA_CMP`, testEvents.c:127-130). For `PulsesReachTheirHandler` only.
* `EndDiscipline`: main comes to its last loop through `int_disable` only. For
  `DisabledForGood` only.

### A queue is a queue

`QueueIsFifo` shows `FifoImplemented`: `FreeRTOS` with its history implements `BoundedQueue`.
The mapping reads the content off the ring: `waiting` slots behind the slot read last. A
step of a task or a handler sends, receives, resets, or leaves the content alone. The
invariant has two parts: `StorageOK` (the ring in order, for the copy functions) and `CallsInv`,
which says that a task in the middle of a call still has the call it was given,
however often it has been preempted, blocked and woken - so that what a sender puts into the queue
at its third try is the item of its call, at the position of its call, and overwriting
happens in queues of one slot only (`PlanAssumption`, the `configASSERT`s of
`queue.c:323, 618, 1063`). `LocksApart` separates the lock counts: locking, unlocking and the
wake-ups do not touch the content.

### The lists of the kernel

`OneStateList` and `TicksKept` are not inductive, because they say nothing of a call that is half
done. `FreeRTOSInv` does. Of the kernel: every list is a ring without repetitions, a task
is in the one place `Home` names, with its event item in the one place `Event` names,
and `uxTopReadyPriority` bounds the ready tasks, the idle task among them
(`KernelOK`). Of each task, what its label says of its lists (`TaskOK`): who is in an event
list is blocked, who is created is nowhere yet, who waits has a time-out that is a tick, who
resumes the scheduler has a place to go on at. And of all of them: at most one task has suspended the
scheduler, and it is the one that runs (`SuspensionInv`); it may be blocked or
terminated only between that and its switch (`CurrentInv`).

`FreeRTOSKernel_proofs` shows what each function does to `Home` and `Event`, and that it keeps
`KernelOK`. Its base are the four functions of `list.c`: what `uxListRemove`, `vListInsertEnd`,
`vListInsert` and `listGET_OWNER_OF_NEXT_ENTRY` leave in a ring, from `SequenceTheorems`. The loops over
due tasks (`UnblockDue`) and waiting ones (`WakeWaiting`) are recursive functions on `0 .. n`
in the model; each has a loop invariant, and the set of rounds up to which it holds has no smallest
gap, because < is well-founded on the naturals. `FreeRTOS_proofs` then goes through the
actions. Most of a step is about the other tasks: `Steady` is what any step may do to
a task that does not run (be woken, pended, or swapped with its delayed list), and `SteadyKept`
shows that this keeps its part of the invariant.

`NoTickLost` then follows from what each step does to the time (`TimeStep`, `TickStep`).
`NotificationsArrive` is read off `EventOK`: a task that is blocked on its way to collect a
notification is marked as waiting, and `xTaskGenericNotify` unblocks the task whose mark it changes.

`PreemptionPrompt` needs `xYieldPending` and the switch requests on every path. A task is
`Overlooked` when it is ready, comes before the running task, and no switch is noted. Every function
of the kernel is shown to be `Prompt`: it leaves no task overlooked that was not overlooked before,
`vTaskSwitchContext` none at all, because `uxTopReadyPriority` bounds the ready tasks
and the search down from it stops at the first list that is not empty. So a step of a task leaves one
overlooked only where that task is about to yield (`Noticed`), the tick none, and a handler
only the task it has notified.

`HighestServedFirst` is about the order within the event lists, of which `FreeRTOSInv` says nothing.
`EventsSorted` adds it: from the end marker on, the items of both lists of the queue stand in the order
of `MaxPriorities - priority`. It is inductive because `vListInsert` puts an item behind
the last that is not greater, because `uxListRemove` leaves the rest in order, and because nobody inserts
with `vListInsertEnd` there or changes the priority of a task that waits. That
makes the first item one of the highest priority, so each function either leaves the lists alone (`Quiet`),
takes tasks from the front (`Serves`, which composes over the rounds of `WakeWaiting`), or inserts the
running task. The tick and a deletion take their own task from the middle;
the property allows that.

`SlicesAreFair` is about `pxIndex`. A ready list is kept with its index first, so the tasks that
get their turn before t are those between the first position and t (`Ahead`). A task that waits for its turn
(`Turns`: it is ready and not at the index) is not overtaken: `vListInsertEnd` inserts behind all
others as seen from the index, `uxListRemove` takes one away and moves the index back only over the
task that leaves, and `listGET_OWNER_OF_NEXT_ENTRY` moves it onto the next (`AheadInserted`, `AheadRemoved`,
`AheadNext`, from the positions in the rotated sequence). Each function of the kernel is shown to
keep the turns, the loops round by round, and a switch does so for all but the task it chooses. What
makes a task ready must not find it ready, or it would lose its turn: a task that waits for the queue
is asleep (`EventOK`), one that is created is nowhere, and that leaves the notifications, where it is false.

`NoWaitEndsEarly` relates the time-out of a call to the ticks that history has seen. `Counted` says
that of the ticks asked for all have passed, or at least those the call no longer
counts (`xTicksToWait` has gone down by them) and those from its entry to now; a difference of two ticks says
nothing of whole turns of the counter, so a second clause covers them: where `xNumOfOverflows` has changed
and the counter has come round to the entry, all have passed. Nothing is assumed of when
the counter wraps; there the call may wait too long (`TimeOutMissed`), but never too short.

`WakeUpsArrive` is `NoLostWakeup`: while a task waits for an item, for every item in the queue a
task is on its way to take it, or the lock has counted it and the task that unlocks wakes one for it;
and the same for room and those that send. `WakeInv` has three parts. `Ledger` is the sum itself, for each of
the two lists, with the fact that a waiter is on its way round the loop of its call: once woken it is in flight,
so a wake-up moves one from the waiters to those in flight, and taking an item takes one from both sides. It is
not inductive alone: a task falls asleep after it has looked, and what comes in between
must have been counted. So `Looking` says that a task between its look and its place
in the list holds the lock, and that at its place all there is in the queue is covered by the lock's count
(it has seen nothing, and each handler since then has counted what it brought). The third part says that
a call in the loop is one of the application's own. The steps come in few kinds: what leaves the
queue and its two lists alone and lets everyone keep heading where he is (`Calm`, `CalmLedger`: a delay, a tick,
a notification), what wakes (`WokenLedger`), takes (`TakenLedger`), sleeps (`PlaceLedger`), unlocks
(`UnlockLedger`), and the handlers (`InterruptLedger`).

It is not true of every application, and `WakeUpsKept` says of which. A woken task that another deletes
before it looks does not pass its wake-up on; a reset of the queue makes all its room
free and wakes one sender (`queue.c:280`). Neither does harm to a list on which one task alone
ever waits (`Alone`). Otherwise no task that waits there is deleted by another (`Uncancelled`),
and, with several senders, the queue is not reset (`NeverReset`). All the plans that are run
satisfy it. The counts are of sets of tasks, so the proof needs that there are finitely many
(`MemoryAssumption`): each has its block in one heap.

`DelaysKept` says that the kernel implements `DelayedLists`, and with `DelaysAreExact` that a wait
of n ticks ends with the n-th. `FreeRTOSInv` knows which list a task is in, not when it is to leave it;
`Timed` adds that both delayed lists are sorted by wake time and that a task that is on neither has
forgotten its own. It is inductive together with what a function may do to these lists: one task
leaves them (`Drops`), a tick is counted (`Counts`), `xNextTaskUnblockTime` is computed anew (`Resets`)
or a task falls asleep for 1 up to `portMAX_DELAY` ticks (`FallsAsleep`). The loop of `xTaskIncrementTick`
that unblocks the tasks that are due is shown to take, round by round, just the tasks of
the sorted list up to the first that is not (`DueAre`), and the others keep their places.
`StepDelays` goes through the actions, `DelaysMapped` maps each of the four onto a step of `DelayedLists`,
where `Drops` of no task is the stutter.

That needs one hypothesis, `NoZeroWait`: no call on the queue goes to sleep for 0 ticks. It is false in
general, and the proof found it. A call that waits across the wrap of the counter can
find `Remaining` equal to 0 without finding the time expired (entered at 4 of 5 for 3 ticks and looked
at when the counter is 2 again: 3 - 2 + 4 is 5), and is then put on the list for
the present tick, which has passed. It is the same promotion of `uint16_t` as in `freertos_timeout`.
So `DelaysOnTheLists` is proved under `[]NoZeroWait`, and `DelaysKept` for the plans that keep to it:
those without a call that waits on the queue, over any number of wraps, and those whose clock ends
before the first (`WaitsEnd`; all plans that are run satisfy it, but for that of `freertos_timeout`).
The invariant is `EndInv`: such a call entered at or before the present tick, still has ticks to wait, and
these and the ones it has waited are together no more than it was asked for. The last part gives
`WaitsAreBounded`: before the wrap no call sleeps too long either, so that the
violation of `WaitIsBounded` has no other cause.

Three things came out of the other proofs. The first statement of `OneStateList` said that a ready task
is in no event list; this is false. A task in `xTaskNotifyWait` that times out is made ready by
the tick but has not yet taken back its `eWaitingNotification`; a notification that comes then, from
a handler while a task of higher priority has the scheduler suspended, puts the ready task on the pending
ready list (`Source/tasks.c:4339`). The resume takes it off again and nothing is lost, but the eleventh
application, `LateSignals`, was needed to show it to TLC. For the same reason `FairSlices` was false as it
was first stated, and a third task in `LateSignals` shows it: the task that has timed out
still counts as waiting, so `xTaskGenericNotify` removes it from its ready list and
appends it (`Source/tasks.c:4202, 4332`), and others of its priority get in before it; where it stood at the index,
the index moves back. A sender that comes again and again cannot delay it for ever (after the first
time it is notified, not waiting), so the property now names such tasks as `Late`, and says that
nothing else does this. And the theorems need
`MaxPended` below `TickMod`, which for the code is 127 against 65535.

### Assumptions, and what is left

The assumptions are those of the modules. For FreeRTOS: `TickMod` above 1, at least one priority,
`NoMessage` not a message, the end marker not a task, finitely many tasks; and of an application (`TaskAssumption`,
`PlanAssumption`) that times are ticks, priorities are priorities, two tasks do not create into one
handle, there is memory for the tasks of main, and nobody deletes the idle task.

Only model-checked: all liveness (fairness and ENABLED are outside TLAPS's
reach), and of the safety properties `AwakeOnlyByEvent`, which is about one program and its addresses.

Three are proved for the plans of which they are true, as said above: `NoLostWakeup` for those of
`WakeUpsKept`, `DelaysImplemented` and `WaitIsBounded` for those of `WaitsEnd`. For the others
nothing is claimed but what TLC finds on the plans that are run.

## Not modelled

The components are listed one by one, with reasons, in `PROJECT.json`. By number of
lines most of the repository is data: stimuli of the sequential and vector tests
(`sw/apps/*_tests/*_stimuli*.h`), generated tables and vendored libraries. They have no
state and no behaviour of their own; what executes them is the data path of the
core, which is left out. Of the C code with control of its own, FreeRTOS and the
programs around sleep and interrupts are modelled; the drivers of `sys_lib` are register
accessors, and the Arduino library is next.

## Plan

Order of work; the first two blocks are done.

1. Done: service unit, sleep unit, event unit, core, path, system, programs, timer;
   their runs; the invariant and the refinement theorems.
2. Done: FreeRTOS - lists, kernel, queues, port; their runs; the theorems
   about waiting, time-outs, storage, the lists of the kernel and the queue.
3. `micros()` and the handler of the Arduino library over `ApbTimer`: does time
   ever run backwards? The other parts of testEvents.
4. FreeRTOS: semaphores from interrupts, a reset with several senders waiting,
   and the deletion of a woken receiver.
5. The memory side: load-store unit with reads and misaligned accesses,
   the demultiplexer of `core_region.sv`, `core2axi` with split handshakes
   against an arbitrary slave, `ram_mux` with its two masters; an abstract memory
   port they implement; starvation of the lower-priority port.
6. `axi2apb32` with its FIFOs, so that `PeripheralPath` becomes the abstract
   specification of slice, bridge and APB slave, with a refinement.
7. The dual-clock token-ring FIFO as a refinement of a bounded queue, with a
   proof that it neither overflows nor underflows; the SPI slave on top of it.
8. UART: the FIFO of `io_generic_fifo.sv` as a queue, the interrupt
   identification register, and the transmitter and receiver.
9. Debug states of the controller against interrupts and sleep.
10. Proofs: those of the new modules.

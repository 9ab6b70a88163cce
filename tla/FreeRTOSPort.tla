---------------------------- MODULE FreeRTOSPort ----------------------------
(***************************************************************************)
(* How port.c and the handlers of crt0.riscv.S switch between tasks: what  *)
(* becomes of the program counter, the return address, mepc and the stack. *)
(* Which task comes next is the kernel's choice and left open here; the    *)
(* module FreeRTOS models it, and takes the switch itself for granted.     *)
(***************************************************************************)
EXTENDS Naturals, Sequences, SequencesExt

CONSTANTS
    PortTasks,          \* the tasks
    FirstTask,          \* the one the scheduler starts with
    MaxFrames           \* bound on the exception frames on a stack

VARIABLES
    current,    \* pxCurrentTCB
    cpu,        \* pc, x1, mepc, and the stack x2 points to: the return address in
                \* each of its exception frames
    context,    \* [PortTasks -> what portSAVE_CONTEXT has left on the stack]
    left        \* history: [PortTasks -> the instruction the task has to go on with]

portVars == <<current, cpu, context, left>>

\* The code of every task: it begins, and then yields in a loop.
TaskCode == {"entry", "body", "back"}

\* x1 and mepc are both the start of the task.
pxPortInitialiseStack == [ra |-> "entry", mepc |-> "entry", stack |-> <<>>]

portSAVE_CONTEXT(c) == [context EXCEPT ![current] = [ra |-> c.ra, mepc |-> c.mepc, stack |-> c.stack]]

\* The registers of the next task; interrupts are enabled again, and label is
\* the instruction that follows.
portRESTORE_CONTEXT(saved, label) ==
    [pc |-> label, ra |-> saved.ra, mepc |-> saved.mepc, stack |-> saved.stack]

\* xPortStartScheduler.
PortInit ==
    /\ current = FirstTask
    /\ context = [t \in PortTasks |-> pxPortInitialiseStack]
    /\ cpu = portRESTORE_CONTEXT(pxPortInitialiseStack, "ret")
    /\ left = [t \in PortTasks |-> "entry"]

\* The task computes, up to its call of vPortYield.
Compute ==
    /\ \/ cpu.pc \in {"entry", "back"} /\ cpu' = [cpu EXCEPT !.pc = "body"]
          /\ left' = [left EXCEPT ![current] = "body"]
       \/ cpu.pc = "body" /\ cpu' = [cpu EXCEPT !.pc = "vPortYield", !.ra = "back"]
          /\ left' = [left EXCEPT ![current] = "back"]
    /\ UNCHANGED <<current, context>>

vPortYield ==
    /\ cpu.pc = "vPortYield"
    /\ context' = portSAVE_CONTEXT(cpu)
    /\ current' \in PortTasks
    /\ cpu' = portRESTORE_CONTEXT(context'[current'], "ret")
    /\ UNCHANGED left

\* The handler ISR_TA_CMP_ASM: a frame on the stack, x1 on its way to
\* end_except, and then the body of ISR_TA_CMP.  mepc is the interrupted
\* instruction.  Interrupts are off until vPortYieldFromTick enables them.
TrapEntry == [cpu EXCEPT !.mepc = cpu.pc, !.stack = Append(@, cpu.ra), !.ra = "end_except"]

vPortYieldFromTick ==
    /\ Len(cpu.stack) < MaxFrames
    /\ context' = portSAVE_CONTEXT(TrapEntry)
    /\ current' \in PortTasks
    /\ cpu' = portRESTORE_CONTEXT(context'[current'], "mret")
    /\ UNCHANGED left

\* The last instructions of the two functions, and of the handlers in crt0.
Return ==
    /\ \/ cpu.pc = "ret" /\ cpu' = [cpu EXCEPT !.pc = cpu.ra]
       \/ cpu.pc = "mret" /\ cpu' = [cpu EXCEPT !.pc = cpu.mepc]
       \/ cpu.pc = "end_except" /\ cpu.stack # <<>>
          /\ cpu' = [cpu EXCEPT !.pc = cpu.mepc, !.ra = Last(cpu.stack), !.stack = Front(@)]
    /\ UNCHANGED <<current, context, left>>

PortNext == Compute \/ vPortYield \/ vPortYieldFromTick \/ Return

PortSpec == PortInit /\ [][PortNext]_portVars

-----------------------------------------------------------------------------
\* A task goes on with the instruction it was at when it was switched out:
\* behind its call of vPortYield, or where the tick has interrupted it.
ResumesWhereItLeft == cpu.pc \in TaskCode => cpu.pc = left[current]
=============================================================================

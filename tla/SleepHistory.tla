---------------------------- MODULE SleepHistory ----------------------------
(***************************************************************************)
(* SleepSystem running check_sleep_irq, with history variables that        *)
(* remember what the hardware forgets: a pulse of the timer until the      *)
(* handler has looked for it, and where the main program and the handler   *)
(* have to go on.  They record; they never restrict a step.                *)
(***************************************************************************)
EXTENDS MCSleepSystem

CONSTANT HandlerCode    \* the addresses of the interrupt handlers' code

\* An access that takes lines out of PENDING.
TakesLines(op) == op.unit = "IRQ" /\ op.reg \in {"PENDING", "CLEAR_PENDING"}

\* What the two programs keep to.  Main and the handlers share no instruction;
\* a handler alone ends in mret and takes interrupts out of PENDING, and main
\* alone enables them.  No wfi and no mret directly follows a store: sleep()
\* puts two nops between them (utils.h:65-68), a handler reloads its registers
\* (crt0.riscv.S:220-248).
ASSUME ProgramDiscipline ==
    /\ HandlerCode \subseteq Addr
    /\ Boot \notin HandlerCode
    /\ \A i \in Lines : Handler[i] \in HandlerCode
    /\ \A a \in Addr :
        /\ \A b \in Program[a].next : b \in HandlerCode <=> a \in HandlerCode
        /\ Kind(a) = "mret" => a \in HandlerCode
        /\ Kind(a) = "csr" /\ Program[a].arg = "ENABLE" => a \notin HandlerCode
        /\ Kind(a) = "store" /\ TakesLines(Program[a].arg) => a \in HandlerCode
        /\ Kind(a) = "store" => \A b \in Program[a].next : ~Flushing(b)

VARIABLES
    owed,           \* a pulse on the enabled line that the handler has not read
    context,        \* who runs: MAIN or ISR
    due             \* [context -> the addresses that may come next]

historyVars == <<owed, context, due>>

HistoryInit ==
    /\ owed = FALSE
    /\ context = "MAIN"
    /\ due = [MAIN |-> {Boot}, ISR |-> {}]

\* The instruction in ID goes to EX, or ends its flush, in this cycle.
Issue(gnt, rvalid) ==
    CoreClocked /\ \/ Decoding /\ ~HaltId /\ ExReady(gnt, rvalid)
                   \/ ctrl = "FLUSH_WB" /\ Flushing(idPc)

\* The handler reads the cause of its interrupt in EX.
Reads(gnt, rvalid) == CoreClocked /\ exPc = "isr_switch" /\ ExReady(gnt, rvalid)

HistoryTick(arrive, answer, fetched) ==
    LET gnt == PathGnt(DataReq(answer))
    IN  /\ Tick(arrive, answer, fetched)
        /\ owed' = \/ timerIrq /\ TimerLine \in irqRegs["ENABLE"]
                   \/ owed /\ ~Reads(gnt, answer)
        /\ context' = CASE CoreClocked /\ IrqAck -> "ISR"
                        [] CoreClocked /\ Mret   -> "MAIN"
                        [] OTHER                 -> context
        /\ due' = CASE CoreClocked /\ IrqAck -> [due EXCEPT !.ISR = {Handler[irqId]}]
                    [] Issue(gnt, answer)    -> [due EXCEPT ![context] = Program[idPc].next]
                    [] OTHER                 -> due

HistorySpec ==
    /\ SysInit /\ HistoryInit
    /\ [][\E arrive, answer, fetched \in BOOLEAN :
            HistoryTick(arrive, answer, fetched)]_<<sysVars, historyVars>>

FairHistorySpec == HistorySpec /\ Fairness

-----------------------------------------------------------------------------
\* An instruction the handler has still to execute before it has read the cause.
BeforeRead == {"isr_enter", "isr_clear", "isr_switch"}

\* The handler clears its line first and reads the cause next
\* (ISR_TA_CMP, testEvents.c:127-130); nothing else takes lines out of PENDING.
ASSUME HandlerDiscipline ==
    /\ BeforeRead \subseteq HandlerCode
    /\ \A i \in Lines : Handler[i] = "isr_enter"
    /\ Program["isr_enter"].next = {"isr_clear"}
    /\ Program["isr_clear"].next = {"isr_switch"}
    /\ \A a \in BeforeRead : ~Flushing(a)
    /\ \A a \in Addr : Kind(a) = "store" /\ TakesLines(Program[a].arg) => a = "isr_clear"

\* Main gets to its last loop only by an int_disable.
ASSUME EndDiscipline ==
    /\ Boot # "loop_end"
    /\ \A a \in Addr : "loop_end" \in Program[a].next =>
            \/ a = "loop_end" /\ Kind(a) = "alu"
            \/ Kind(a) = "csr" /\ Program[a].arg = "DISABLE"

HandlerWillRead ==
    \/ pcIf \in BeforeRead
    \/ idValid /\ idPc \in BeforeRead
    \/ exPc \in BeforeRead

\* No pulse is lost between the event unit and the handler: it is pending, or
\* the handler that clears it has yet to read the cause.  A pulse in the very
\* cycle in which the clear register acts never becomes pending; it is safe
\* because a store holds the pipeline until its bus response, so the read
\* that follows it comes after the clear has acted.
NoLostPulse == owed => TimerLine \in irqRegs["PENDING"] \/ HandlerWillRead

\* Interrupts are precise, asleep or awake: each of the two programs executes
\* its own instructions one after the other, none dropped and none repeated,
\* and the main program does not move while the handler runs.
ProgramOrder == Decoding => idPc \in due[context]

\* A handler is never interrupted: mepc and mpie hold one context only
\* (crt0.riscv.S saves neither).
NoNesting == IrqAck => context = "MAIN"

\* int_disable holds from the next instruction on: an interrupt that the core
\* latched before, or that comes later, never returns behind it.
DisableIsFinal == IrqAck => due.MAIN # {"loop_end"}

\* No lost wake-up in testInterrupt: whenever the timer's interrupt or event
\* hits the loop, before, on or after the way into sleep, the loop goes on.
LoopGoesOn == []<>(idPc \in {"loop_while", "loop_end"})
=============================================================================

--------------------------- MODULE OrderInvariant ---------------------------
(***************************************************************************)
(* The inductive invariant behind the safety properties of SleepHistory,   *)
(* for every program that keeps to ProgramDiscipline.  It stands on        *)
(* SleepInv.                                                               *)
(***************************************************************************)
EXTENDS SleepHistory

Contexts == {"MAIN", "ISR"}
CodeOf(c) == IF c = "ISR" THEN HandlerCode ELSE Addr \ HandlerCode

\* Each context goes on in its own code.  While a handler runs, interrupts are
\* off, the controller has no request, and mepc is where main has to go on.
ContextInv ==
    /\ context \in Contexts
    /\ due \in [Contexts -> SUBSET Addr]
    /\ \A c \in Contexts : due[c] \subseteq CodeOf(c)
    /\ context = "ISR" => ~mie /\ mepc \in due["MAIN"] /\ irqCtrl # "IRQ_PENDING"
    /\ IrqAck => irqCtrl = "IRQ_PENDING"

\* ID holds an instruction that has still to go to EX, to end its flush, or to
\* be saved in mepc.
Holding ==
    \/ idValid
    \/ ctrl \in {"IRQ_FLUSH", "IRQ_TAKEN_ID"}
    \/ ctrl \in {"FLUSH_EX", "FLUSH_WB"} /\ Flushing(idPc)

\* What is due next is the instruction ID holds, and IF follows it; with ID
\* empty it is what IF delivers.
DueInv ==
    /\ Holding => idPc \in due[context] /\ pcIf \in Program[idPc].next
    /\ ~Holding => pcIf \in due[context]
    /\ ctrl \in {"RESET", "BOOT_SET", "FIRST_FETCH",
                 "IRQ_FLUSH", "IRQ_TAKEN_ID", "IRQ_TAKEN_IF"} => ~idValid
    /\ ctrl \in {"RESET", "BOOT_SET"} => Boot \in due[context]

\* What EX knows: a csr access is the last instruction of its context, a store
\* of a handler finds its handler still running, and ID follows a store.
ExInv ==
    /\ Kind(exPc) = "csr" => exPc = idPc /\ due[context] = Program[exPc].next
    /\ "lsu" \in exUnits /\ exPc \in HandlerCode => context = "ISR"
    /\ "lsu" \in exUnits /\ idValid => idPc \in Program[exPc].next

\* The last stage of wfi and mret, and every sleep, finds the bus idle; and
\* the request it finds in the interrupt controller is one that mie lets pass.
Drained ==
    \/ ctrl \in {"RESET", "BOOT_SET", "WAIT_SLEEP", "SLEEP", "FIRST_FETCH"}
    \/ ctrl = "FLUSH_WB" /\ Flushing(idPc)
Asleep ==
    \/ ctrl \in {"WAIT_SLEEP", "SLEEP"}
    \/ ctrl \in {"FLUSH_EX", "FLUSH_WB"} /\ Flushing(idPc)
DrainInv ==
    /\ Drained => pathStage = "IDLE" /\ "lsu" \notin exUnits
    /\ Asleep => "lsu" \notin exUnits /\ (irqCtrl = "IRQ_PENDING" => mie)

\* The fetch enable that starts or wakes the core does not go away at once.
FetchInv ==
    /\ fetchFf2 => fetchFf1
    /\ fetchFf1 => fetchPin
    /\ ctrl = "BOOT_SET" => FetchEnable
    /\ ctrl = "FIRST_FETCH" => FetchEnable \/ IrqTake

\* Lines leave PENDING only while a handler runs: from its store in EX until
\* irq_o has followed.  What the controller has latched is still pending.
LinesLeaving ==
    \/ "lsu" \in exUnits /\ TakesLines(Program[exPc].arg)
    \/ pathStage = "REQUEST" /\ TakesLines(pathOp)
    \/ irqRegs["CLEAR_PENDING"] # {}
    \/ ~(irqOut \subseteq irqRegs["PENDING"])
LineInv ==
    /\ LinesLeaving => context = "ISR"
    /\ pathStage # "SEND_B" => irqRegs["CLEAR_PENDING"] = {}
    /\ pathStage \notin {"SEND_B", "RESPONSE"} => irqOut \subseteq irqRegs["PENDING"]
    /\ irqCtrl = "IRQ_PENDING" => irqId \in irqRegs["PENDING"]

OrderInv == ContextInv /\ DueInv /\ ExInv /\ DrainInv /\ FetchInv /\ LineInv

\* While its store takes lines out of PENDING, a handler is about to read the
\* cause; a pulse is pending or a handler has still to read the cause.
ReadNext  == context = "ISR" /\ (due["ISR"] = {"isr_switch"} \/ exPc = "isr_switch")
ReadAhead == context = "ISR" /\ (due["ISR"] \subseteq BeforeRead \/ exPc = "isr_switch")
PulseInv ==
    /\ LinesLeaving => ReadNext
    /\ owed => TimerLine \in irqRegs["PENDING"] \/ ReadAhead

\* Past its int_disable main runs with interrupts off: mie is clear, or the csr
\* access that clears it is in EX.
Disabling == Kind(exPc) = "csr" /\ Program[exPc].arg = "DISABLE"
EndInv == "loop_end" \in due["MAIN"] => context = "MAIN" /\ (mie => Disabling)
=============================================================================

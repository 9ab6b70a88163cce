-------------------------- MODULE ServiceUnitPorts --------------------------
(***************************************************************************)
(* A service unit with its ports: arbitrary pulses on its lines and at     *)
(* most one arbitrary APB write in every cycle, and the software's view of *)
(* it, InterruptBuffer.                                                    *)
(***************************************************************************)
EXTENDS ServiceUnit

VARIABLES
    signal_i,       \* the lines in the present cycle
    apb             \* the APB write of the present cycle, or NoWrite

portVars == <<serviceVars, signal_i, apb>>

\* The type invariant: registers and output hold lines, the inputs are what a
\* cycle may bring.
PortsTypeOK ==
    /\ TypeOK
    /\ signal_i \in SUBSET Lines
    /\ apb \in Writes \cup {NoWrite}

\* The inputs of the next cycle are anybody's choice.
Inputs ==
    /\ signal_i' \in SUBSET Lines
    /\ apb' \in Writes \cup {NoWrite}

PortsInit ==
    /\ Init
    /\ signal_i \in SUBSET Lines
    /\ apb \in Writes \cup {NoWrite}

PortsNext == Cycle(signal_i, apb) /\ Inputs

PortsSpec == PortsInit /\ [][PortsNext]_portVars

-----------------------------------------------------------------------------
\* The refinement: an access acts on the buffer in the cycle it is made, so
\* the buffer is PENDING as the set and clear registers are about to leave it.
Buffer == INSTANCE InterruptBuffer WITH
    signal  <- signal_i,
    write   <- apb,
    enabled <- regs["ENABLE"],
    latched <- (regs["PENDING"] \cup regs["SET_PENDING"]) \ regs["CLEAR_PENDING"],
    shadow  <- regs["CLEAR_PENDING"],
    setting <- regs["SET_PENDING"],
    served  <- irq_o

\* The unit is the buffer software believes it to be: no enabled pulse gets
\* lost but in the shadow of a clear, nothing becomes pending that was not
\* enabled or set, and only an access makes a line go away.
BufferImplemented == Buffer!BufferSpec
=============================================================================

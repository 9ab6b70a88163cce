--------------------------- MODULE CoreInvariant ---------------------------
(***************************************************************************)
(* The inductive invariant of the core, for every program and whatever its *)
(* bus, its fetch interface and its interrupt lines do.                    *)
(***************************************************************************)
EXTENDS RiscyCore

\* Pipeline bookkeeping: a request in EX is a store's, and what ID holds as
\* valid or gives up for an interrupt is an instruction.
PipelineInv ==
    /\ "lsu" \in exUnits => exPc \in Addr /\ Program[exPc].kind = "store"
    /\ idValid \/ ctrl \in {"IRQ_FLUSH", "IRQ_TAKEN_ID"} => idPc \in Addr

\* A csr access is in EX only while its own flush waits for it, so nothing
\* but a trap changes mie while an interrupt is on its way.
CsrInv == Kind(exPc) = "csr" => ctrl = "FLUSH_EX"

\* Once a flush has begun ID is empty, and once it is over EX is too.
FlushInv ==
    /\ ctrl \in {"FLUSH_EX", "FLUSH_WB", "WAIT_SLEEP", "SLEEP"} => ~idValid
    /\ ctrl \in {"FLUSH_WB", "WAIT_SLEEP", "SLEEP"} => exPc = NoInstr

CoreInv ==
    /\ CoreTypeOK
    /\ PipelineInv
    /\ CsrInv
    /\ FlushInv
    /\ NoInstructionDropped
    /\ TakenOnlyEnabled
    /\ irqCtrl = "IRQ_DONE" => ctrl = "DECODE"
=============================================================================

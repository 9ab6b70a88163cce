----------------------------- MODULE RiscyCore -----------------------------
(***************************************************************************)
(* The control path of the RISCY core (ips/riscv): the controller's state  *)
(* machine, the interrupt controller, the interrupt bits of mstatus, the   *)
(* valid and enable bits of the pipeline registers, the load-store unit's  *)
(* state machine, and the busy flag that holds the core's clock on.        *)
(*                                                                         *)
(* One step is one rising edge of the core's gated clock.  The inputs of   *)
(* the cycle are parameters of the action:                                 *)
(*   fetchEn   fetch_enable_i            irq     irq_i, a set of lines     *)
(*   gnt       data_gnt_i                rvalid  data_rvalid_i             *)
(*   fetched   the prefetch buffer hands an instruction to the ID stage    *)
(*                                                                         *)
(* A program is a function from addresses to instructions; an instruction  *)
(* is its kind, its operand and the set of addresses that may follow it    *)
(* (branches on data are a choice).  The debug states, ELW and the second  *)
(* half of a misaligned access are not in the model.                       *)
(***************************************************************************)
CONSTANTS
    Program,        \* [address -> [kind, arg, next]]
    Boot,           \* the address the core starts at
    Handler         \* [interrupt line -> address], the vector table

Addr    == DOMAIN Program
NoInstr == "NO_INSTRUCTION"

Kinds        == {"alu", "mul", "store", "csr", "wfi", "mret"}
CsrOps       == {"READ", "ENABLE", "DISABLE"}   \* arg of a csr instruction

ASSUME ProgramAssumption ==
    /\ \A a \in Addr : /\ Program[a].kind \in Kinds
                       /\ Program[a].next \subseteq Addr
                       /\ Program[a].next # {}
    /\ NoInstr \notin Addr
    /\ Boot \in Addr
    /\ \A i \in DOMAIN Handler : Handler[i] \in Addr
    /\ 0 \in DOMAIN Handler

VARIABLES
    ctrl,           \* ctrl_fsm_cs
    irqCtrl, irqId, \* exc_ctrl_cs and irq_id_q of the interrupt controller
    mie, mpie, mepc,
    pcIf,           \* the address IF delivers next
    idPc, idValid,  \* the instruction word in ID and instr_valid_id_o
    exUnits,        \* which of alu_en, mult_en, csr_access, data_req are set in EX
    exPc,           \* the instruction in EX whose store or csr operation is live
    lsu,            \* CS of the load-store unit
    ifBusy,         \* the prefetch buffer has a fetch outstanding
    coreBusyQ       \* core_busy_q

coreVars == <<ctrl, irqCtrl, irqId, mie, mpie, mepc, pcIf, idPc, idValid,
              exUnits, exPc, lsu, ifBusy, coreBusyQ>>

CtrlStates == {"RESET", "BOOT_SET", "WAIT_SLEEP", "SLEEP", "FIRST_FETCH",
               "DECODE", "IRQ_FLUSH", "IRQ_TAKEN_ID", "IRQ_TAKEN_IF",
               "FLUSH_EX", "FLUSH_WB"}
Units == {"alu", "mult", "csr", "lsu"}

CoreTypeOK ==
    /\ ctrl \in CtrlStates
    /\ irqCtrl \in {"IDLE", "IRQ_PENDING", "IRQ_DONE"}
    /\ irqId \in DOMAIN Handler
    /\ mie \in BOOLEAN /\ mpie \in BOOLEAN
    /\ mepc \in Addr
    /\ pcIf \in Addr
    /\ idPc \in Addr \cup {NoInstr} /\ idValid \in BOOLEAN
    /\ exUnits \subseteq Units
    /\ exPc \in Addr \cup {NoInstr}
    /\ lsu \in {"IDLE", "WAIT_RVALID"}
    /\ ifBusy \in BOOLEAN
    /\ coreBusyQ \in BOOLEAN

\* Mutant: mepc has no reset.
CoreInit_NoReset ==
    /\ ctrl = "RESET"
    /\ irqCtrl = "IDLE" /\ irqId = 0
    /\ mie = FALSE /\ mpie = FALSE /\ mepc = NoInstr
    /\ pcIf = Boot /\ idPc = NoInstr /\ idValid = FALSE
    /\ exUnits = {} /\ exPc = NoInstr /\ lsu = "IDLE"
    /\ ifBusy = FALSE /\ coreBusyQ = FALSE

CoreInit ==
    /\ ctrl = "RESET"
    /\ irqCtrl = "IDLE" /\ irqId = 0
    /\ mie = FALSE /\ mpie = FALSE /\ mepc = Boot
    /\ pcIf = Boot
    /\ idPc = NoInstr /\ idValid = FALSE
    /\ exUnits = {} /\ exPc = NoInstr
    /\ lsu = "IDLE"
    /\ ifBusy = FALSE
    /\ coreBusyQ = FALSE

-----------------------------------------------------------------------------
(* The decoder: what an instruction word in ID enables.                    *)

\* The word the IF/ID register holds after reset decodes like an ALU one.
Kind(a) == IF a = NoInstr THEN "alu" ELSE Program[a].kind

\* alu_en is on for everything but a multiplication.
UnitsOf(a) == CASE Kind(a) = "mul"   -> {"mult"}
                [] Kind(a) = "store" -> {"alu", "lsu"}
                [] Kind(a) = "csr"   -> {"alu", "csr"}
                [] OTHER             -> {"alu"}

\* Instructions that empty the pipeline from the ID stage (pipe_flush, mret).
Flushing(a) == Kind(a) \in {"wfi", "mret"}

-----------------------------------------------------------------------------
(* Combinational signals.                                                  *)

\* Mutant: a request is taken whatever mie says.
IrqTake_Unmasked == irqCtrl = "IRQ_PENDING"

IrqReq  == irqCtrl = "IRQ_PENDING"      \* irq_req_ctrl_i
IrqTake == IrqReq /\ mie                \* irq_req_ctrl_i & irq_enable_int

\* Mutant: stores are posted, nobody waits for their response.
WbReady_Posted(rvalid) == TRUE

\* The load-store unit: a request goes out from IDLE, or in the cycle that
\* answers the previous one.
WbReady(rvalid)         == lsu = "IDLE" \/ rvalid
DataReq(rvalid)         == "lsu" \in exUnits /\ WbReady(rvalid)
LsuReadyEx(gnt, rvalid) == DataReq(rvalid) => gnt

ExReady(gnt, rvalid) == LsuReadyEx(gnt, rvalid) /\ WbReady(rvalid)
ExValid(gnt, rvalid) == exUnits # {} /\ ExReady(gnt, rvalid)

\* What the controller raises in its present state.
Decoding == ctrl = "DECODE" /\ idValid
HaltId == \/ ctrl \in {"WAIT_SLEEP", "SLEEP", "IRQ_FLUSH", "FLUSH_EX", "FLUSH_WB"}
          \/ ctrl = "FIRST_FETCH" /\ IrqTake
          \/ Decoding /\ (IrqTake \/ Flushing(idPc))
HaltIf == HaltId \/ (Decoding /\ Kind(idPc) = "csr")

IrqAck  == ctrl \in {"IRQ_TAKEN_ID", "IRQ_TAKEN_IF"}        \* exc_ack_o
IrqKill == Decoding /\ IrqReq /\ ~mie                       \* exc_kill_o
Mret    == ctrl = "FLUSH_WB" /\ Kind(idPc) = "mret"         \* csr_restore_mret_id_o

\* pc_set_o and the address it selects.
PcSet == ctrl = "BOOT_SET" \/ IrqAck \/ Mret
PcNew == CASE ctrl = "BOOT_SET" -> Boot
           [] IrqAck            -> Handler[irqId]
           [] OTHER             -> mepc

\* instr_req_o, ctrl_busy_o and first_fetch_o.
InstrReq == ctrl \notin {"RESET", "WAIT_SLEEP", "SLEEP"}
CtrlBusy == InstrReq
LsuBusy(rvalid) == lsu # "IDLE" \/ DataReq(rvalid)

\* core_busy_o, which the sleep unit reads and which holds the clock on.
CoreBusy == ctrl = "FIRST_FETCH" \/ coreBusyQ
CoreClockEn(clockEn) == clockEn \/ CoreBusy

\* IF can hand over an instruction: no halt, ID ready, no redirection.
IfReady(gnt, rvalid) ==
    /\ ctrl \in {"FIRST_FETCH", "DECODE"}
    /\ ~HaltIf
    /\ ExReady(gnt, rvalid)

-----------------------------------------------------------------------------
(* The controller: one action per state.                                   *)

Reset(fetchEn) ==
    /\ ctrl = "RESET"
    /\ ctrl' = IF fetchEn THEN "BOOT_SET" ELSE "RESET"

BootSet   == ctrl = "BOOT_SET"   /\ ctrl' = "FIRST_FETCH"
WaitSleep == ctrl = "WAIT_SLEEP" /\ ctrl' = "SLEEP"

\* Mutants: the sleep state ends by itself, or never for fetch_enable.
Sleeping_Restless(fetchEn) == ctrl = "SLEEP" /\ ctrl' = "FIRST_FETCH"
Sleeping_OnlyIrq(fetchEn) ==
    ctrl = "SLEEP" /\ ctrl' = IF IrqReq THEN "FIRST_FETCH" ELSE "SLEEP"

\* Both fetch_enable and a request of the interrupt controller wake the core.
Sleeping(fetchEn) ==
    /\ ctrl = "SLEEP"
    /\ ctrl' = IF fetchEn \/ IrqReq THEN "FIRST_FETCH" ELSE "SLEEP"

FirstFetch(gnt, rvalid) ==
    /\ ctrl = "FIRST_FETCH"
    /\ ctrl' = IF IrqTake THEN "IRQ_TAKEN_IF"
               ELSE IF ExReady(gnt, rvalid) THEN "DECODE" ELSE "FIRST_FETCH"

Decode(gnt, rvalid) ==
    /\ ctrl = "DECODE"
    /\ ctrl' = CASE ~idValid                  -> "DECODE"
                 [] idValid /\ IrqTake        -> "IRQ_FLUSH"
                 [] idValid /\ ~IrqTake /\ Flushing(idPc) -> "FLUSH_EX"
                 [] idValid /\ ~IrqTake /\ Kind(idPc) = "csr"
                            /\ ExReady(gnt, rvalid)       -> "FLUSH_EX"
                 [] OTHER                     -> "DECODE"

IrqFlush ==
    /\ ctrl = "IRQ_FLUSH"
    /\ ctrl' = IF IrqTake THEN "IRQ_TAKEN_ID" ELSE "DECODE"

IrqTaken == IrqAck /\ ctrl' = "DECODE"

\* Mutant: the flush does not wait for the instruction in EX.
FlushEx_Hasty(gnt, rvalid) == ctrl = "FLUSH_EX" /\ ctrl' = "FLUSH_WB"

FlushEx(gnt, rvalid) ==
    /\ ctrl = "FLUSH_EX"
    /\ ctrl' = IF ExValid(gnt, rvalid) THEN "FLUSH_WB" ELSE "FLUSH_EX"

\* Mutant: the core never sleeps.
FlushWb_NoSleep(fetchEn) == ctrl = "FLUSH_WB" /\ ctrl' = "DECODE"

\* With fetch_enable low, a flush that ends a wfi or an mret puts the core
\* to sleep; after a csr access it goes on decoding.
FlushWb(fetchEn) ==
    /\ ctrl = "FLUSH_WB"
    /\ ctrl' = IF ~fetchEn /\ Flushing(idPc) THEN "WAIT_SLEEP" ELSE "DECODE"

-----------------------------------------------------------------------------
(* The registers the controller steers.                                    *)

\* Mutant: an acknowledged request is never done.
InterruptController_Once(irq) ==
    CASE irqCtrl = "IDLE" -> IF mie /\ irq # {}
                             THEN irqCtrl' = "IRQ_PENDING" /\ irqId' \in irq
                             ELSE UNCHANGED <<irqCtrl, irqId>>
      [] irqCtrl = "IRQ_PENDING" ->
            /\ irqCtrl' = IF IrqAck THEN "IRQ_DONE"
                          ELSE IF IrqKill THEN "IDLE" ELSE "IRQ_PENDING"
            /\ UNCHANGED irqId
      [] irqCtrl = "IRQ_DONE" -> UNCHANGED <<irqCtrl, irqId>>

\* The interrupt controller latches a line while mie is set, and lets go
\* when the controller acknowledges or kills the request.
InterruptController(irq) ==
    CASE irqCtrl = "IDLE" ->
            IF mie /\ irq # {}
            THEN irqCtrl' = "IRQ_PENDING" /\ irqId' \in irq
            ELSE UNCHANGED <<irqCtrl, irqId>>
      [] irqCtrl = "IRQ_PENDING" ->
            /\ irqCtrl' = IF IrqAck THEN "IRQ_DONE"
                          ELSE IF IrqKill THEN "IDLE" ELSE "IRQ_PENDING"
            /\ UNCHANGED irqId
      [] irqCtrl = "IRQ_DONE" -> irqCtrl' = "IDLE" /\ UNCHANGED irqId

\* mstatus and mepc: a trap and an mret have priority over a csr write in EX.
CsrWrite == Kind(exPc) = "csr"

\* Mutant: a csr access can only set bits.
WrittenMie_SetOnly == mie \/ Program[exPc].arg = "ENABLE"

\* int_disable clears mie, and mpie too: it ends with a write of zero.
WrittenMie == CASE Program[exPc].arg = "ENABLE"  -> TRUE
                [] Program[exPc].arg = "DISABLE" -> FALSE
                [] OTHER                         -> mie

\* Mutants: a trap leaves mie set, or clears it a cycle early.
NextMie_StillEnabled == IF Mret THEN mpie ELSE IF CsrWrite THEN WrittenMie ELSE mie
NextMie_Early ==
    ~IrqAck /\ ctrl # "IRQ_FLUSH"
            /\ IF Mret THEN mpie ELSE IF CsrWrite THEN WrittenMie ELSE mie

NextMie  == CASE IrqAck -> FALSE
              [] Mret   -> mpie
              [] CsrWrite /\ ~IrqAck /\ ~Mret -> WrittenMie
              [] OTHER  -> mie
NextMpie == CASE IrqAck -> mie
              [] Mret   -> TRUE
              [] CsrWrite /\ ~IrqAck /\ ~Mret -> mpie /\ Program[exPc].arg # "DISABLE"
              [] OTHER  -> mpie

\* Mutant: a trap from IF saves the address in ID.
NextMepc_FromId == IF IrqAck THEN idPc ELSE mepc

NextMepc == CASE ctrl = "IRQ_TAKEN_ID" -> idPc
              [] ctrl = "IRQ_TAKEN_IF" -> pcIf
              [] OTHER                 -> mepc

CsrRegisters == mie' = NextMie /\ mpie' = NextMpie /\ mepc' = NextMepc

\* IF -> ID.  A halted or accepted instruction clears the valid bit only; the
\* word stays, and FLUSH_WB still decodes it.
IfIdRegister(gnt, rvalid, fetched) ==
    IF fetched
    THEN /\ idPc' = pcIf /\ idValid' = TRUE
         /\ pcIf' \in Program[pcIf].next
    ELSE /\ idValid' = (idValid /\ ~HaltId /\ ~ExReady(gnt, rvalid))
         /\ pcIf' = IF PcSet THEN PcNew ELSE pcIf
         /\ UNCHANGED idPc

\* Mutant: a bubble clears every enable.
IdExRegister_EmptyBubble(gnt, rvalid) ==
    CASE ~ExReady(gnt, rvalid) -> UNCHANGED <<exUnits, exPc>>
      [] ExReady(gnt, rvalid) /\ (HaltId \/ ~Decoding) -> exUnits' = {} /\ exPc' = NoInstr
      [] OTHER -> exUnits' = UnitsOf(idPc) /\ exPc' = idPc

\* ID -> EX.  ID hands over whenever it is not halted, valid or not; requests
\* are masked while the controller does not decode.  A bubble clears the
\* multiplier and the request, never the ALU and csr enables.
IdExRegister(gnt, rvalid) ==
    CASE ~ExReady(gnt, rvalid) -> UNCHANGED <<exUnits, exPc>>
      [] ExReady(gnt, rvalid) /\ HaltId ->
            exUnits' = exUnits \ {"mult", "lsu"} /\ exPc' = NoInstr
      [] ExReady(gnt, rvalid) /\ ~HaltId ->
            IF Decoding THEN exUnits' = UnitsOf(idPc) /\ exPc' = idPc
            ELSE exUnits' = UnitsOf(idPc) \ {"lsu"} /\ exPc' = NoInstr

LoadStoreUnit(gnt, rvalid) ==
    lsu' = CASE DataReq(rvalid) /\ gnt -> "WAIT_RVALID"
             [] ~(DataReq(rvalid) /\ gnt) /\ rvalid -> "IDLE"
             [] OTHER -> lsu

\* A fetch can only become outstanding while the controller asks for one.
PrefetchBuffer == ifBusy' \in {b \in BOOLEAN : b => InstrReq \/ ifBusy}

\* Mutant: the busy flag forgets the prefetch buffer.
BusyFlag_NoFetch(rvalid) == coreBusyQ' = (CtrlBusy \/ LsuBusy(rvalid))

BusyFlag(rvalid) == coreBusyQ' = (ifBusy \/ CtrlBusy \/ LsuBusy(rvalid))

-----------------------------------------------------------------------------
Controller(fetchEn, gnt, rvalid) ==
    \/ Reset(fetchEn) \/ BootSet \/ WaitSleep \/ Sleeping(fetchEn)
    \/ FirstFetch(gnt, rvalid) \/ Decode(gnt, rvalid)
    \/ IrqFlush \/ IrqTaken \/ FlushEx(gnt, rvalid) \/ FlushWb(fetchEn)

\* One edge of the core's clock.
CoreCycle(fetchEn, irq, gnt, rvalid, fetched) ==
    /\ fetched => IfReady(gnt, rvalid)
    /\ Controller(fetchEn, gnt, rvalid)
    /\ InterruptController(irq)
    /\ CsrRegisters
    /\ IfIdRegister(gnt, rvalid, fetched)
    /\ IdExRegister(gnt, rvalid)
    /\ LoadStoreUnit(gnt, rvalid)
    /\ PrefetchBuffer
    /\ BusyFlag(rvalid)

-----------------------------------------------------------------------------
(* Safety of the core, for every program.                                  *)

\* An instruction that gives way to an interrupt in ID is replayed: the
\* controller never falls back from IRQ_FLUSH to DECODE, where the
\* instruction it has already invalidated would be lost.
NoInstructionDropped == ctrl = "IRQ_FLUSH" => IrqTake

\* An interrupt is taken only with mie set, although the request was latched
\* some cycles earlier and a csr write may have cleared mie since.
TakenOnlyEnabled == IrqAck => mie

\* "The pipeline is always flushed before going to sleep"
\* (riscv_controller.sv:332): asleep, no instruction is valid in ID and no
\* store or csr access is left in EX.
FlushedAsleep ==
    ctrl \in {"WAIT_SLEEP", "SLEEP"} => ~idValid /\ exPc = NoInstr
=============================================================================

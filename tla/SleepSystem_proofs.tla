------------------------- MODULE SleepSystem_proofs -------------------------
(***************************************************************************)
(* Proofs about the sleep and interrupt system, for every program, every   *)
(* set of lines and every bound on the timer: SleepInv is an inductive     *)
(* invariant, gating the core's clock freezes nothing, and the system      *)
(* implements the contract about the core's clock.                         *)
(***************************************************************************)
EXTENDS SleepInvariant, TLAPS

-----------------------------------------------------------------------------
(* What the program guarantees.                                            *)

\* Every address has an instruction and at least one successor.
LEMMA ProgramFacts ==
    /\ Boot \in Addr
    /\ \A a \in Addr : Program[a].kind \in Kinds /\ Program[a].next \subseteq Addr
    /\ NoInstr \notin Addr
    /\ \A i \in DOMAIN Handler : Handler[i] \in Addr
BY ProgramAssumption

\* Only an address can hold anything but an ALU instruction.
LEMMA KindFacts ==
    /\ Kind(NoInstr) = "alu"
    /\ \A a \in Addr : Kind(a) = Program[a].kind /\ Kind(a) \in Kinds
    /\ \A a : Kind(a) # "alu" => Kind(a) = Program[a].kind /\ a # NoInstr
BY ProgramFacts DEF Kind

\* Only a store enables the load-store unit.
LEMMA UnitFacts ==
    ASSUME NEW a \in Addr \cup {NoInstr}
    PROVE  /\ UnitsOf(a) \subseteq Units
           /\ "lsu" \in UnitsOf(a) <=> Kind(a) = "store"
<1>1. CASE Kind(a) = "mul"
  BY <1>1 DEF UnitsOf, Units
<1>2. CASE Kind(a) = "store"
  BY <1>2 DEF UnitsOf, Units
<1>3. CASE Kind(a) = "csr"
  BY <1>3 DEF UnitsOf, Units
<1>4. CASE Kind(a) \notin {"mul", "store", "csr"}
  BY <1>4 DEF UnitsOf, Units
<1> QED BY <1>1, <1>2, <1>3, <1>4

-----------------------------------------------------------------------------
(* Where the controller goes.                                              *)

\* The controller keeps to the modelled states.
LEMMA ControllerType ==
    ASSUME NEW fetchEn, NEW gnt, NEW rvalid,
           ctrl \in CtrlStates, Controller(fetchEn, gnt, rvalid)
    PROVE  ctrl' \in CtrlStates
<1>1. CASE Reset(fetchEn) \/ BootSet \/ WaitSleep \/ Sleeping(fetchEn)
  BY <1>1 DEF Reset, BootSet, WaitSleep, Sleeping, CtrlStates
<1>2. CASE FirstFetch(gnt, rvalid)
  BY <1>2 DEF FirstFetch, CtrlStates
<1>3. CASE Decode(gnt, rvalid)
  BY <1>3 DEF Decode, CtrlStates
<1>4. CASE IrqFlush \/ IrqTaken \/ FlushEx(gnt, rvalid) \/ FlushWb(fetchEn)
  BY <1>4 DEF IrqFlush, IrqTaken, FlushEx, FlushWb, CtrlStates
<1> QED BY <1>1, <1>2, <1>3, <1>4 DEF Controller

\* The way into every state that an invariant speaks of.
LEMMA ControllerSteps ==
    ASSUME NEW fetchEn, NEW gnt, NEW rvalid,
           ctrl \in CtrlStates, Controller(fetchEn, gnt, rvalid)
    PROVE  /\ ctrl' = "IRQ_FLUSH" => Decoding /\ IrqTake
           /\ ctrl' = "IRQ_TAKEN_ID" => ctrl = "IRQ_FLUSH" /\ IrqTake
           /\ ctrl' = "IRQ_TAKEN_IF" => ctrl = "FIRST_FETCH" /\ IrqTake
           /\ ctrl' = "FLUSH_EX" =>
                \/ ctrl = "FLUSH_EX" /\ ~ExValid(gnt, rvalid)
                \/ Decoding /\ ~IrqTake /\ Flushing(idPc)
                \/ Decoding /\ ~IrqTake /\ Kind(idPc) = "csr" /\ ExReady(gnt, rvalid)
           /\ ctrl' = "FLUSH_WB" => ctrl = "FLUSH_EX" /\ ExValid(gnt, rvalid)
           /\ ctrl' = "WAIT_SLEEP" => ctrl = "FLUSH_WB"
           /\ ctrl' = "SLEEP" => \/ ctrl = "WAIT_SLEEP"
                                 \/ ctrl = "SLEEP" /\ ~IrqReq /\ ~fetchEn
           /\ ctrl' = "BOOT_SET" => ctrl = "RESET"
           /\ ctrl' = "RESET" => ctrl = "RESET"
           /\ IrqAck => ctrl' = "DECODE"
           /\ ctrl = "SLEEP" => ctrl' \in {"SLEEP", "FIRST_FETCH"}
           /\ ctrl = "WAIT_SLEEP" => ctrl' = "SLEEP"
           /\ ctrl = "RESET" => ctrl' \in {"RESET", "BOOT_SET"}
           /\ ctrl = "FIRST_FETCH" => ctrl' \in {"FIRST_FETCH", "IRQ_TAKEN_IF", "DECODE"}
           /\ ctrl = "DECODE" => ctrl' \in {"DECODE", "IRQ_FLUSH", "FLUSH_EX"}
           /\ ctrl = "IRQ_FLUSH" => ctrl' \in {"IRQ_TAKEN_ID", "DECODE"}
           /\ Decoding /\ ~IrqTake /\ Kind(idPc) = "csr" /\ ExReady(gnt, rvalid)
                => ctrl' = "FLUSH_EX"
           /\ ctrl = "FLUSH_EX" /\ ~ExValid(gnt, rvalid) => ctrl' = "FLUSH_EX"
<1>1. CASE Reset(fetchEn) \/ BootSet \/ WaitSleep \/ Sleeping(fetchEn)
  BY <1>1 DEF Reset, BootSet, WaitSleep, Sleeping, IrqAck, Decoding
<1>2. CASE FirstFetch(gnt, rvalid)
  BY <1>2 DEF FirstFetch, IrqAck, Decoding
<1>3. CASE Decode(gnt, rvalid)
  BY <1>3 DEF Decode, IrqAck, Decoding
<1>4. CASE IrqFlush
  BY <1>4 DEF IrqFlush, IrqAck, Decoding
<1>5. CASE IrqTaken
  BY <1>5 DEF IrqTaken, IrqAck, Decoding
<1>6. CASE FlushEx(gnt, rvalid)
  BY <1>6 DEF FlushEx, IrqAck, Decoding
<1>7. CASE FlushWb(fetchEn)
  BY <1>7 DEF FlushWb, IrqAck, Decoding
<1> QED BY <1>1, <1>2, <1>3, <1>4, <1>5, <1>6, <1>7 DEF Controller

-----------------------------------------------------------------------------
(* One edge of the clock.                                                  *)

\* The interrupt controller keeps its types, and acknowledging it ends its request.
LEMMA InterruptControllerStep ==
    ASSUME CoreTypeOK, NEW irq \in SUBSET DOMAIN Handler, InterruptController(irq)
    PROVE  /\ irqCtrl' \in {"IDLE", "IRQ_PENDING", "IRQ_DONE"}
           /\ irqId' \in DOMAIN Handler
           /\ irqCtrl' = "IRQ_DONE" => irqCtrl = "IRQ_PENDING" /\ IrqAck
           /\ irqCtrl' = "IRQ_PENDING" =>
                \/ irqCtrl = "IDLE" /\ mie /\ irq # {}
                \/ irqCtrl = "IRQ_PENDING" /\ ~IrqAck /\ ~IrqKill
           /\ irqCtrl = "IRQ_PENDING" /\ ~IrqAck /\ ~IrqKill => irqCtrl' = "IRQ_PENDING"
           /\ irqCtrl = "IDLE" /\ irq = {} => irqCtrl' = "IDLE"
           /\ irqCtrl = "IRQ_DONE" => irqCtrl' = "IDLE"
<1>1. CASE irqCtrl = "IDLE"
  BY <1>1 DEF InterruptController, CoreTypeOK
<1>2. CASE irqCtrl = "IRQ_PENDING"
  BY <1>2 DEF InterruptController, CoreTypeOK
<1>3. CASE irqCtrl = "IRQ_DONE"
  BY <1>3 DEF InterruptController, CoreTypeOK
<1> QED BY <1>1, <1>2, <1>3 DEF CoreTypeOK

\* Without a csr access in EX and without a trap or an mret, mie stays.
LEMMA CsrStep ==
    ASSUME CoreTypeOK, ctrl \in {"IRQ_FLUSH", "IRQ_TAKEN_ID"} => idPc \in Addr,
           CsrRegisters
    PROVE  /\ mie' \in BOOLEAN /\ mpie' \in BOOLEAN /\ mepc' \in Addr
           /\ ~IrqAck /\ ~Mret /\ Kind(exPc) # "csr" => mie' = mie
<1>1. mie' \in BOOLEAN
  <2>1. CASE IrqAck
    BY <2>1 DEF CsrRegisters, NextMie, NextMpie, NextMepc, WrittenMie, IrqAck, Mret
  <2>2. CASE ~IrqAck /\ Mret
    BY <2>2 DEF CsrRegisters, NextMie, NextMpie, NextMepc, WrittenMie, CoreTypeOK, IrqAck
  <2>3. CASE ~IrqAck /\ ~Mret /\ CsrWrite
    BY <2>3 DEF CsrRegisters, NextMie, NextMpie, NextMepc, WrittenMie, CoreTypeOK
  <2>4. CASE ~IrqAck /\ ~Mret /\ ~CsrWrite
    BY <2>4 DEF CsrRegisters, NextMie, NextMpie, NextMepc, WrittenMie, CoreTypeOK
  <2> QED BY <2>1, <2>2, <2>3, <2>4
<1>2. mpie' \in BOOLEAN
  <2>1. CASE IrqAck
    BY <2>1 DEF CsrRegisters, NextMie, NextMpie, NextMepc, WrittenMie, CoreTypeOK, IrqAck, Mret
  <2>2. CASE ~IrqAck /\ Mret
    BY <2>2 DEF CsrRegisters, NextMie, NextMpie, NextMepc, WrittenMie, CoreTypeOK, IrqAck
  <2>3. CASE ~IrqAck /\ ~Mret /\ CsrWrite
    <3>1. mpie' = (mpie /\ Program[exPc].arg # "DISABLE")
      BY <2>3 DEF CsrRegisters, NextMie, NextMpie, NextMepc, WrittenMie
    <3> QED BY <3>1, Zenon
  <2>4. CASE ~IrqAck /\ ~Mret /\ ~CsrWrite
    BY <2>4 DEF CsrRegisters, NextMie, NextMpie, NextMepc, WrittenMie, CoreTypeOK
  <2> QED BY <2>1, <2>2, <2>3, <2>4
<1>3. mepc' \in Addr
  BY DEF CsrRegisters, NextMie, NextMpie, NextMepc, WrittenMie, CoreTypeOK
<1>4. ~IrqAck /\ ~Mret /\ Kind(exPc) # "csr" => mie' = mie
  BY DEF CsrRegisters, NextMie, NextMpie, NextMepc, WrittenMie, CsrWrite
<1> QED BY <1>1, <1>2, <1>3, <1>4

\* The IF/ID register holds instructions, and a halt empties it.
LEMMA IfIdStep ==
    ASSUME CoreTypeOK, NEW gnt, NEW rvalid, NEW fetched \in BOOLEAN,
           fetched => IfReady(gnt, rvalid), IfIdRegister(gnt, rvalid, fetched)
    PROVE  /\ pcIf' \in Addr /\ idPc' \in Addr \cup {NoInstr} /\ idValid' \in BOOLEAN
           /\ HaltIf => ~fetched
           /\ ~fetched => idPc' = idPc
           /\ idValid' => fetched \/ (idValid /\ ~HaltId /\ ~ExReady(gnt, rvalid))
           /\ fetched => idPc' \in Addr
<1>1. CASE fetched
  <2>1. idPc' = pcIf /\ idValid' = TRUE /\ pcIf' \in Program[pcIf].next
    BY <1>1 DEF IfIdRegister
  <2> QED BY <1>1, <2>1, ProgramFacts DEF CoreTypeOK, IfReady
<1>2. CASE ~fetched
  <2>1. /\ idPc' = idPc
        /\ idValid' = (idValid /\ ~HaltId /\ ~ExReady(gnt, rvalid))
        /\ pcIf' = IF PcSet THEN PcNew ELSE pcIf
    BY <1>2 DEF IfIdRegister
  <2>2. PcNew \in Addr
    BY ProgramFacts DEF PcNew, CoreTypeOK
  <2>3. idValid' \in BOOLEAN
    BY <2>1
  <2> QED BY <1>2, <2>1, <2>2, <2>3 DEF CoreTypeOK
<1> QED BY <1>1, <1>2

\* The ID/EX register takes the instruction in ID or a bubble.
LEMMA IdExStep ==
    ASSUME CoreTypeOK, NEW gnt, NEW rvalid, IdExRegister(gnt, rvalid)
    PROVE  /\ exUnits' \subseteq Units /\ exPc' \in Addr \cup {NoInstr}
           /\ ~ExReady(gnt, rvalid) => exUnits' = exUnits /\ exPc' = exPc
           /\ ExReady(gnt, rvalid) /\ (HaltId \/ ~Decoding) =>
                "lsu" \notin exUnits' /\ exPc' = NoInstr
           /\ ExReady(gnt, rvalid) /\ ~HaltId /\ Decoding =>
                exUnits' = UnitsOf(idPc) /\ exPc' = idPc
<1>1. CASE ~ExReady(gnt, rvalid)
  BY <1>1 DEF IdExRegister, CoreTypeOK
<1>2. CASE ExReady(gnt, rvalid) /\ HaltId
  BY <1>2 DEF IdExRegister, CoreTypeOK
<1>3. CASE ExReady(gnt, rvalid) /\ ~HaltId /\ Decoding
  BY <1>3, UnitFacts DEF IdExRegister, CoreTypeOK
<1>4. CASE ExReady(gnt, rvalid) /\ ~HaltId /\ ~Decoding
  BY <1>4, UnitFacts DEF IdExRegister, CoreTypeOK
<1> QED BY <1>1, <1>2, <1>3, <1>4

\* The load-store unit waits for the answer of each granted request.
LEMMA LoadStoreStep ==
    ASSUME CoreTypeOK, NEW gnt, NEW rvalid, LoadStoreUnit(gnt, rvalid)
    PROVE  /\ lsu' \in {"IDLE", "WAIT_RVALID"}
           /\ DataReq(rvalid) /\ gnt => lsu' = "WAIT_RVALID"
           /\ ~(DataReq(rvalid) /\ gnt) /\ rvalid => lsu' = "IDLE"
           /\ ~(DataReq(rvalid) /\ gnt) /\ ~rvalid => lsu' = lsu
BY DEF LoadStoreUnit, CoreTypeOK

-----------------------------------------------------------------------------
\* One edge of the core's clock preserves the invariant of the core.
LEMMA CoreInvStep ==
    ASSUME CoreInv,
           NEW fetchEn \in BOOLEAN, NEW irq \in SUBSET DOMAIN Handler,
           NEW gnt \in BOOLEAN, NEW rvalid \in BOOLEAN, NEW fetched \in BOOLEAN,
           CoreCycle(fetchEn, irq, gnt, rvalid, fetched)
    PROVE  CoreInv'
<1> USE DEF CoreInv
<1>1. /\ CoreTypeOK /\ PipelineInv
      /\ Controller(fetchEn, gnt, rvalid) /\ InterruptController(irq)
      /\ CsrRegisters /\ IfIdRegister(gnt, rvalid, fetched)
      /\ IdExRegister(gnt, rvalid) /\ LoadStoreUnit(gnt, rvalid)
      /\ fetched => IfReady(gnt, rvalid)
  BY DEF CoreCycle
<1>2. ctrl \in CtrlStates
  BY DEF CoreTypeOK
<1>3. CoreTypeOK'
  <2>1. ctrl' \in CtrlStates
    BY <1>1, <1>2, ControllerType
  <2>2. irqCtrl' \in {"IDLE", "IRQ_PENDING", "IRQ_DONE"} /\ irqId' \in DOMAIN Handler
    BY <1>1, InterruptControllerStep
  <2>3. mie' \in BOOLEAN /\ mpie' \in BOOLEAN /\ mepc' \in Addr
    BY <1>1, CsrStep DEF PipelineInv
  <2>4. pcIf' \in Addr /\ idPc' \in Addr \cup {NoInstr} /\ idValid' \in BOOLEAN
    BY <1>1, IfIdStep
  <2>5. exUnits' \subseteq Units /\ exPc' \in Addr \cup {NoInstr}
    BY <1>1, IdExStep
  <2>6. lsu' \in {"IDLE", "WAIT_RVALID"}
    BY <1>1, LoadStoreStep
  <2>7. ifBusy' \in BOOLEAN
    BY DEF CoreCycle, PrefetchBuffer
  <2>8. coreBusyQ' \in BOOLEAN
    BY DEF CoreCycle, BusyFlag, CtrlBusy, InstrReq, LsuBusy, CoreTypeOK
  <2> QED BY <2>1, <2>2, <2>3, <2>4, <2>5, <2>6, <2>7, <2>8 DEF CoreTypeOK
<1>4. PipelineInv'
  <2>1. "lsu" \in exUnits' => exPc' \in Addr /\ Program[exPc'].kind = "store"
    <3>1. CASE ~ExReady(gnt, rvalid)
      BY <3>1, <1>1, IdExStep DEF PipelineInv
    <3>2. CASE ExReady(gnt, rvalid) /\ (HaltId \/ ~Decoding)
      BY <3>2, <1>1, IdExStep
    <3>3. CASE ExReady(gnt, rvalid) /\ ~HaltId /\ Decoding
      <4>1. exUnits' = UnitsOf(idPc) /\ exPc' = idPc /\ idPc \in Addr
        BY <3>3, <1>1, IdExStep DEF PipelineInv, Decoding
      <4> QED BY <4>1, UnitFacts, KindFacts
    <3> QED BY <3>1, <3>2, <3>3
  <2>2. idValid' => idPc' \in Addr
    BY <1>1, IfIdStep DEF PipelineInv
  <2>3. ctrl' = "IRQ_FLUSH" => idPc' \in Addr
    <3> SUFFICES ASSUME ctrl' = "IRQ_FLUSH" PROVE idPc' \in Addr
      OBVIOUS
    <3>1. Decoding /\ IrqTake
      BY <1>1, <1>2, ControllerSteps
    <3>2. HaltIf
      BY <3>1 DEF HaltIf, HaltId
    <3>3. idPc' = idPc
      BY <1>1, <3>2, IfIdStep
    <3> QED BY <3>1, <3>3 DEF PipelineInv, Decoding
  <2>4. ctrl' = "IRQ_TAKEN_ID" => idPc' \in Addr
    <3> SUFFICES ASSUME ctrl' = "IRQ_TAKEN_ID" PROVE idPc' \in Addr
      OBVIOUS
    <3>1. ctrl = "IRQ_FLUSH"
      BY <1>1, <1>2, ControllerSteps
    <3>2. idPc' = idPc
      BY <1>1, <3>1, IfIdStep DEF HaltIf, HaltId
    <3> QED BY <3>1, <3>2 DEF PipelineInv
  <2> QED BY <2>1, <2>2, <2>3, <2>4 DEF PipelineInv
<1>5. CsrInv'
  <2> SUFFICES ASSUME Kind(exPc)' = "csr" PROVE ctrl' = "FLUSH_EX"
    BY DEF CsrInv
  <2>0. Kind(exPc)' = Kind(exPc')
    BY DEF Kind
  <2>1. CASE ~ExReady(gnt, rvalid)
    <3>1. ctrl = "FLUSH_EX"
      BY <2>0, <2>1, <1>1, IdExStep DEF CsrInv
    <3> QED BY <3>1, <2>1, <1>1, <1>2, ControllerSteps DEF ExValid
  <2>2. CASE ExReady(gnt, rvalid) /\ (HaltId \/ ~Decoding)
    BY <2>0, <2>2, <1>1, IdExStep, KindFacts
  <2>3. CASE ExReady(gnt, rvalid) /\ ~HaltId /\ Decoding
    <3>1. Kind(idPc) = "csr"
      BY <2>0, <2>3, <1>1, IdExStep
    <3>2. ~IrqTake
      BY <2>3 DEF HaltId
    <3> QED BY <2>3, <3>1, <3>2, <1>1, <1>2, ControllerSteps
  <2> QED BY <2>1, <2>2, <2>3
<1>6. FlushInv'
  <2>1. ctrl' = "FLUSH_EX" => ~idValid'
    <3> SUFFICES ASSUME ctrl' = "FLUSH_EX" PROVE ~idValid'
      OBVIOUS
    <3>1. CASE ctrl = "FLUSH_EX"
      BY <3>1, <1>1, IfIdStep DEF FlushInv, HaltIf, HaltId
    <3>2. CASE Decoding /\ ~IrqTake /\ Flushing(idPc)
      BY <3>2, <1>1, IfIdStep DEF HaltIf, HaltId
    <3>3. CASE Decoding /\ ~IrqTake /\ Kind(idPc) = "csr" /\ ExReady(gnt, rvalid)
      BY <3>3, <1>1, IfIdStep DEF HaltIf
    <3> QED BY <3>1, <3>2, <3>3, <1>1, <1>2, ControllerSteps
  <2>2. ctrl' \in {"FLUSH_WB", "WAIT_SLEEP", "SLEEP"} =>
            ctrl \in {"FLUSH_EX", "FLUSH_WB", "WAIT_SLEEP", "SLEEP"}
    BY <1>1, <1>2, ControllerSteps
  <2>3. ctrl \in {"FLUSH_EX", "FLUSH_WB", "WAIT_SLEEP", "SLEEP"} => ~idValid'
    BY <1>1, IfIdStep DEF FlushInv, HaltIf, HaltId
  <2>4. ctrl' = "FLUSH_WB" => exPc' = NoInstr
    <3> SUFFICES ASSUME ctrl' = "FLUSH_WB" PROVE exPc' = NoInstr
      OBVIOUS
    <3>1. ctrl = "FLUSH_EX" /\ ExReady(gnt, rvalid)
      BY <1>1, <1>2, ControllerSteps DEF ExValid
    <3> QED BY <3>1, <1>1, IdExStep DEF HaltId
  <2>5. ctrl' \in {"WAIT_SLEEP", "SLEEP"} => exPc' = NoInstr
    <3> SUFFICES ASSUME ctrl' \in {"WAIT_SLEEP", "SLEEP"} PROVE exPc' = NoInstr
      OBVIOUS
    <3>1. ctrl \in {"FLUSH_WB", "WAIT_SLEEP", "SLEEP"}
      BY <1>1, <1>2, ControllerSteps
    <3>2. exPc = NoInstr /\ HaltId
      BY <3>1 DEF FlushInv, HaltId
    <3> QED BY <3>2, <1>1, IdExStep
  <2> QED BY <2>1, <2>2, <2>3, <2>4, <2>5 DEF FlushInv
<1>7. NoInstructionDropped' /\ TakenOnlyEnabled'
  <2>1. ASSUME IrqTake, ctrl \in {"DECODE", "IRQ_FLUSH", "FIRST_FETCH"},
               ctrl' \in {"IRQ_FLUSH", "IRQ_TAKEN_ID", "IRQ_TAKEN_IF"}
        PROVE  mie' /\ (ctrl' = "IRQ_FLUSH" => irqCtrl' = "IRQ_PENDING")
    <3>1. ~IrqAck /\ ~Mret /\ ~IrqKill /\ Kind(exPc) # "csr"
      BY <2>1 DEF IrqAck, Mret, IrqKill, IrqTake, CsrInv
    <3>2. mie' = mie
      BY <3>1, <1>1, CsrStep DEF PipelineInv
    <3>3. irqCtrl' = "IRQ_PENDING"
      BY <2>1, <3>1, <1>1, InterruptControllerStep DEF IrqTake, IrqReq
    <3> QED BY <2>1, <3>2, <3>3 DEF IrqTake
  <2>2. ctrl' = "IRQ_FLUSH" => ctrl = "DECODE" /\ IrqTake
    BY <1>1, <1>2, ControllerSteps DEF Decoding
  <2>3. ctrl' \in {"IRQ_TAKEN_ID", "IRQ_TAKEN_IF"} =>
            ctrl \in {"IRQ_FLUSH", "FIRST_FETCH"} /\ IrqTake
    BY <1>1, <1>2, ControllerSteps
  <2>4. NoInstructionDropped'
    BY <2>1, <2>2 DEF NoInstructionDropped, IrqTake, IrqReq
  <2>5. TakenOnlyEnabled'
    BY <2>1, <2>3 DEF TakenOnlyEnabled, IrqAck
  <2> QED BY <2>4, <2>5
<1>8. irqCtrl' = "IRQ_DONE" => ctrl' = "DECODE"
  BY <1>1, <1>2, InterruptControllerStep, ControllerSteps
<1> QED BY <1>3, <1>4, <1>5, <1>6, <1>7, <1>8

-----------------------------------------------------------------------------
(* The peripherals, edge by edge.                                          *)

\* The access a cycle brings to the peripherals.
AccessOf(arrive) == IF arrive THEN pathOp ELSE NoAccess

\* The grant the core sees.
GntOf(answer) == PathGnt(DataReq(answer))

\* What an access to a service unit holds.
AccessOK(access) ==
    access.unit \in {"IRQ", "EVENT"} =>
        access.reg \in IrqUnit!Registers /\ access.data \subseteq Lines

-----------------------------------------------------------------------------
(* The event unit.                                                         *)

\* The two service units keep their types.
LEMMA IrqUnitType ==
    ASSUME NEW signal \in SUBSET Lines, NEW write, IrqUnit!TypeOK,
           write = IrqUnit!NoWrite \/ write.data \subseteq Lines,
           IrqUnit!Cycle(signal, write)
    PROVE  IrqUnit!TypeOK' /\ irqOut' \subseteq Lines
<1>1. IrqUnit!PendingInt(signal) \subseteq Lines
  BY DEF IrqUnit!PendingInt, IrqUnit!TypeOK, IrqUnit!Registers
<1>2. irqRegs' \in [IrqUnit!Registers -> SUBSET Lines]
  BY <1>1 DEF IrqUnit!Cycle, IrqUnit!RegsNext, IrqUnit!NoWrite, IrqUnit!TypeOK,
              IrqUnit!Registers
<1>3. irqOut' \subseteq Lines
  BY DEF IrqUnit!Cycle, IrqUnit!Lowest, IrqUnit!TypeOK, IrqUnit!Registers
<1> QED BY <1>2, <1>3 DEF IrqUnit!TypeOK

\* The same for the unit of events.
LEMMA EventUnitRegsType ==
    ASSUME NEW signal \in SUBSET Lines, NEW write, EventUnitRegs!TypeOK,
           write = IrqUnit!NoWrite \/ write.data \subseteq Lines,
           EventUnitRegs!Cycle(signal, write)
    PROVE  EventUnitRegs!TypeOK'
<1>1. EventUnitRegs!PendingInt(signal) \subseteq Lines
  BY DEF EventUnitRegs!PendingInt, EventUnitRegs!TypeOK, EventUnitRegs!Registers
<1>2. eventRegs' \in [EventUnitRegs!Registers -> SUBSET Lines]
  BY <1>1 DEF EventUnitRegs!Cycle, EventUnitRegs!RegsNext, IrqUnit!NoWrite,
              EventUnitRegs!TypeOK, EventUnitRegs!Registers
<1>3. events' \subseteq Lines
  BY DEF EventUnitRegs!Cycle, EventUnitRegs!Lowest, EventUnitRegs!TypeOK,
         EventUnitRegs!Registers
<1> QED BY <1>2, <1>3 DEF EventUnitRegs!TypeOK

\* The sleep unit keeps its type, sets its bit only by a write, and enters or
\* stays in SLEEP only in a cycle without an event or an interrupt.
LEMMA SleepUnitStep ==
    ASSUME NEW irq \in BOOLEAN, NEW event \in BOOLEAN, NEW coreBusy \in BOOLEAN,
           NEW write \in SleepWrites, SleepTypeOK,
           SleepCycle(irq, event, coreBusy, write)
    PROVE  /\ SleepTypeOK'
           /\ sleepState' = "SLEEP" =>
                /\ ~event /\ ~irq
                /\ \/ sleepState = "SHUTDOWN" /\ ~coreBusy
                   \/ sleepState = "SLEEP"
           /\ sleepState = "RUN" /\ ~sleepEnable => sleepState' = "RUN"
           /\ ~sleepEnable /\ write = NoSleepWrite => ~sleepEnable'
<1>1. sleepStatus' \in BOOLEAN
  BY DEF SleepCycle, SleepRegs
<1>2. sleepEnable' \in BOOLEAN /\ (~sleepEnable /\ write = NoSleepWrite => ~sleepEnable')
  BY DEF SleepCycle, SleepRegs, SleepTypeOK, SleepWrites, NoSleepWrite
<1>3. CASE Run(event)
  BY <1>1, <1>2, <1>3 DEF Run, SleepTypeOK
<1>4. CASE Shutdown(irq, event, coreBusy)
  BY <1>1, <1>2, <1>4 DEF Shutdown, SleepTypeOK
<1>5. CASE Sleep(irq, event)
  BY <1>1, <1>2, <1>5 DEF Sleep, SleepTypeOK
<1> QED BY <1>3, <1>4, <1>5 DEF SleepCycle

\* The whole event unit keeps its type.
LEMMA EventUnitType ==
    ASSUME EventUnitTypeOK, NEW signal \in SUBSET Lines, NEW pin \in BOOLEAN,
           NEW coreBusy \in BOOLEAN, NEW access, AccessOK(access),
           EventUnitCycle(signal, pin, coreBusy, access)
    PROVE  EventUnitTypeOK'
<1>1. /\ WriteTo("IRQ", access) = IrqUnit!NoWrite
            \/ WriteTo("IRQ", access).data \subseteq Lines
      /\ WriteTo("EVENT", access) = IrqUnit!NoWrite
            \/ WriteTo("EVENT", access).data \subseteq Lines
  BY DEF WriteTo, AccessOK
<1>2. IrqUnit!TypeOK'
  BY <1>1, IrqUnitType DEF EventUnitCycle, EventUnitTypeOK
<1>3. EventUnitRegs!TypeOK'
  BY <1>1, EventUnitRegsType DEF EventUnitCycle, EventUnitTypeOK
<1>4. SleepTypeOK'
  <2>1. SleepWriteOf(access) \in SleepWrites /\ IrqUp \in BOOLEAN /\ EventUp \in BOOLEAN
    BY DEF SleepWriteOf, SleepWrites, NoSleepWrite, IrqUp, EventUp
  <2> QED BY <2>1, SleepUnitStep DEF EventUnitCycle, EventUnitTypeOK
<1>5. fetchFf1' \in BOOLEAN /\ fetchFf2' \in BOOLEAN
  BY DEF EventUnitCycle, EventUnitTypeOK
<1> QED BY <1>2, <1>3, <1>4, <1>5 DEF EventUnitTypeOK

-----------------------------------------------------------------------------
(* The path to the peripherals and the timer.                              *)

\* The slot fills with a granted request and empties with its answer.
LEMMA PathStep ==
    ASSUME PathTypeOK, NEW req \in BOOLEAN, NEW op, req => op \in Ops,
           NEW arrive \in BOOLEAN, NEW answer \in BOOLEAN,
           PathCycle(req, op, arrive, answer)
    PROVE  /\ PathTypeOK'
           /\ answer => pathStage = "RESPONSE"
           /\ arrive => pathStage = "REQUEST"
           /\ pathStage = "IDLE" => (pathStage' # "IDLE" <=> req)
           /\ pathStage # "IDLE" => (pathStage' = "IDLE" <=> answer)
<1>1. CASE PathIdle(req, op)
  BY <1>1 DEF PathIdle, PathCycle, PathTypeOK, Stages, pathVars
<1>2. CASE PathRequest(arrive)
  BY <1>2, PathAssumption DEF PathRequest, PathCycle, PathTypeOK, Stages, pathVars
<1>3. CASE PathSendB
  BY <1>3 DEF PathSendB, PathCycle, PathTypeOK, Stages
<1>4. CASE PathResponse(answer)
  BY <1>4 DEF PathResponse, PathCycle, PathTypeOK, Stages
<1> QED BY <1>1, <1>2, <1>3, <1>4 DEF PathCycle

\* The pulse source keeps its type, and the bound on its pulses.
LEMMA TimerStep ==
    ASSUME PulseTypeOK, pulses \in 0..MaxPulses, NEW access,
           Timer(TimerWriteOf(access))
    PROVE  PulseTypeOK' /\ pulses' \in 0..MaxPulses
<1>1. TimerWriteOf(access) \in {"NONE", "START", "STOP"}
  BY DEF TimerWriteOf
<1>2. PulseTypeOK'
  BY <1>1 DEF Timer, PulseStep, PulseTypeOK
<1>3. pulses' \in 0..MaxPulses
  BY SystemAssumption DEF Timer
<1> QED BY <1>2, <1>3

-----------------------------------------------------------------------------
(* One edge of the system's clock.                                         *)

\* What a tick of the system is, for its parts.
LEMMA TickParts ==
    ASSUME SleepInv, NEW arrive \in BOOLEAN, NEW answer \in BOOLEAN,
           NEW fetched \in BOOLEAN, Tick(arrive, answer, fetched)
    PROVE  /\ Timer(TimerWriteOf(AccessOf(arrive)))
           /\ SleepCycle(IrqUp, EventUp, CoreBusy, SleepWriteOf(AccessOf(arrive)))
           /\ AccessOK(AccessOf(arrive)) /\ EventUnitTypeOK' /\ PathTypeOK'
           /\ fetchPin' \in BOOLEAN
           /\ GntOf(answer) <=> DataReq(answer) /\ pathStage = "IDLE"
           /\ Core(GntOf(answer), answer, fetched)
           /\ answer => pathStage = "RESPONSE"
           /\ arrive => pathStage = "REQUEST"
           /\ pathStage = "IDLE" => (pathStage' # "IDLE" <=> DataReq(answer))
           /\ pathStage # "IDLE" => (pathStage' = "IDLE" <=> answer)
<1> DEFINE op == IF DataReq(answer) THEN Program[exPc].arg ELSE pathOp
<1>1. /\ Timer(TimerWriteOf(AccessOf(arrive)))
      /\ EventUnitCycle(IF timerIrq THEN {TimerLine} ELSE {}, fetchPin,
                        CoreBusy, AccessOf(arrive))
      /\ PathCycle(DataReq(answer), op, arrive, answer)
      /\ Core(GntOf(answer), answer, fetched)
      /\ fetchPin' \in BOOLEAN
  BY DEF Tick, AccessOf, GntOf
<1>2. DataReq(answer) => Program[exPc].arg \in Ops
  BY SystemAssumption DEF DataReq, SleepInv, CoreInv, PipelineInv
<1>3. AccessOK(AccessOf(arrive))
  BY SystemAssumption DEF AccessOK, AccessOf, NoAccess, SleepInv, SysTypeOK, PathTypeOK
<1>4. EventUnitTypeOK'
  <2>1. /\ (IF timerIrq THEN {TimerLine} ELSE {}) \in SUBSET Lines
        /\ fetchPin \in BOOLEAN /\ CoreBusy \in BOOLEAN /\ EventUnitTypeOK
    BY SystemAssumption DEF SleepInv, SysTypeOK, CoreTypeOK, CoreBusy
  <2> QED BY <1>1, <1>3, <2>1, EventUnitType
<1>5. /\ PathTypeOK'
      /\ answer => pathStage = "RESPONSE"
      /\ arrive => pathStage = "REQUEST"
      /\ pathStage = "IDLE" => (pathStage' # "IDLE" <=> DataReq(answer))
      /\ pathStage # "IDLE" => (pathStage' = "IDLE" <=> answer)
  <2>1. DataReq(answer) \in BOOLEAN /\ PathTypeOK
    BY DEF DataReq, SleepInv, SysTypeOK
  <2>2. DataReq(answer) => op \in Ops
    BY <1>2
  <2> HIDE DEF op
  <2> QED BY <1>1, <2>1, <2>2, PathStep
<1>6. SleepCycle(IrqUp, EventUp, CoreBusy, SleepWriteOf(AccessOf(arrive)))
  BY <1>1 DEF EventUnitCycle
<1> QED BY <1>1, <1>3, <1>4, <1>5, <1>6 DEF GntOf, PathGnt

\* Without its clock the core has nothing under way.
LEMMA GateIsSafe == SleepInv => ClockGateSafe
<1> SUFFICES ASSUME SleepInv, ~CoreClocked
             PROVE  /\ ctrl = "SLEEP" /\ ~ifBusy /\ irqCtrl = "IDLE"
                    /\ lsu = "IDLE" /\ pathStage = "IDLE" /\ "lsu" \notin exUnits
  BY DEF ClockGateSafe
<1>1. sleepState = "SLEEP" /\ ctrl # "FIRST_FETCH" /\ ~coreBusyQ
  BY DEF CoreClocked, CoreClockEn, ClockEnable, ClkGateCore, CoreBusy
<1>2. /\ ctrl \in {"RESET", "BOOT_SET", "SLEEP"}
      /\ lsu = "IDLE" /\ "lsu" \notin exUnits /\ ~ifBusy
  BY <1>1 DEF SleepInv, IdleInv
<1>3. ctrl = "SLEEP"
  BY <1>1, <1>2 DEF SleepInv, BootInv
<1>4. pathStage = "IDLE"
  BY <1>2 DEF SleepInv, AnswerExpected
<1>5. irqCtrl = "IDLE"
  BY <1>1, <1>3 DEF SleepInv, WakeInv, CoreInv, CoreTypeOK
<1> QED BY <1>2, <1>3, <1>4, <1>5

\* Init establishes the invariant.
LEMMA SleepInvInit == SysInit => SleepInv
<1> SUFFICES ASSUME SysInit PROVE SleepInv
  OBVIOUS
<1>1. EventUnitTypeOK
  BY DEF SysInit, EventUnitInit, EventUnitTypeOK, SleepInit, SleepTypeOK,
         IrqUnit!Init, IrqUnit!TypeOK, IrqUnit!Registers,
         EventUnitRegs!Init, EventUnitRegs!TypeOK, EventUnitRegs!Registers
<1>2. SysTypeOK
  <2>1. CoreTypeOK
    <3>1. CoreInit
      BY DEF SysInit
    <3>2. ctrl \in CtrlStates /\ irqId \in DOMAIN Handler /\ mepc \in Addr /\ pcIf \in Addr
      BY <3>1, ProgramAssumption DEF CoreInit, CtrlStates
    <3> QED BY <3>1, <3>2 DEF CoreInit, CoreTypeOK
  <2>2. PathTypeOK /\ PulseTypeOK
    BY PathAssumption
       DEF SysInit, PathInit, PathTypeOK, Stages, PulseInit, PulseTypeOK
  <2>3. fetchPin \in BOOLEAN
    BY DEF SysInit
  <2>4. pulses = 0 /\ MaxPulses \in Nat
    BY SystemAssumption DEF SysInit
  <2>5. pulses \in 0..MaxPulses
    BY <2>4
  <2> QED BY <1>1, <2>1, <2>2, <2>3, <2>5 DEF SysTypeOK
<1>3. CoreInv
  BY <1>2 DEF SysInit, SysTypeOK, CoreInit, CoreInv, PipelineInv, CsrInv, FlushInv,
              NoInstructionDropped, TakenOnlyEnabled, IrqAck, Kind
<1> QED BY <1>2, <1>3 DEF SysInit, SleepInv, IdleInv, BootInv, WakeInv, AnswerExpected,
              CoreInit, PathInit, EventUnitInit, SleepInit

\* With its clock the core takes a step of its own, without it it stands still.
LEMMA CoreStep ==
    ASSUME SleepInv, NEW arrive \in BOOLEAN, NEW answer \in BOOLEAN,
           NEW fetched \in BOOLEAN, Tick(arrive, answer, fetched)
    PROVE  /\ CoreInv'
           /\ CoreClocked => CoreCycle(FetchEnable, irqOut, GntOf(answer), answer, fetched)
           /\ ~CoreClocked => UNCHANGED coreVars /\ ClockGateSafe
<1>1. Core(GntOf(answer), answer, fetched)
  BY TickParts
<1>2. CASE CoreClocked
  <2>1. CoreCycle(FetchEnable, irqOut, GntOf(answer), answer, fetched)
    BY <1>1, <1>2 DEF Core
  <2>2. FetchEnable \in BOOLEAN /\ irqOut \in SUBSET DOMAIN Handler
    BY SystemAssumption
       DEF SleepInv, SysTypeOK, EventUnitTypeOK, IrqUnit!TypeOK, FetchEnable, FetchEn
  <2>3. GntOf(answer) \in BOOLEAN /\ CoreInv
    BY TickParts DEF SleepInv, GntOf, PathGnt, DataReq
  <2> QED BY <1>2, <2>1, <2>2, <2>3, CoreInvStep
<1>3. CASE ~CoreClocked
  <2>1. UNCHANGED coreVars /\ CoreInv
    BY <1>1, <1>3 DEF Core, SleepInv
  <2>2. CoreInv'
    BY <2>1 DEF coreVars, CoreInv, CoreTypeOK, PipelineInv, CsrInv, FlushInv, Kind,
                NoInstructionDropped, TakenOnlyEnabled, IrqAck, IrqTake, IrqReq
  <2> QED BY <1>3, <2>1, <2>2, GateIsSafe
<1> QED BY <1>2, <1>3

\* A cycle after which the busy flag is low: the core does nothing in it.
LEMMA QuietCycle ==
    ASSUME SleepInv, NEW arrive \in BOOLEAN, NEW answer \in BOOLEAN,
           NEW fetched \in BOOLEAN, Tick(arrive, answer, fetched),
           CoreClocked, ~coreBusyQ'
    PROVE  /\ ctrl \in {"RESET", "WAIT_SLEEP", "SLEEP"}
           /\ lsu = "IDLE" /\ "lsu" \notin exUnits /\ ~ifBusy
           /\ lsu' = "IDLE" /\ "lsu" \notin exUnits' /\ ~ifBusy'
<1>1. /\ CoreCycle(FetchEnable, irqOut, GntOf(answer), answer, fetched)
      /\ CoreTypeOK
  BY CoreStep DEF SleepInv, CoreInv
<1>2. ~ifBusy /\ ctrl \in {"RESET", "WAIT_SLEEP", "SLEEP"} /\ ~LsuBusy(answer)
  BY <1>1 DEF CoreCycle, BusyFlag, CtrlBusy, InstrReq
<1>3. lsu = "IDLE" /\ "lsu" \notin exUnits
  BY <1>2 DEF LsuBusy, DataReq, WbReady
<1>4. lsu' = "IDLE"
  BY <1>1, <1>3, LoadStoreStep DEF CoreCycle, DataReq
<1>5. "lsu" \notin exUnits'
  BY <1>1, <1>2, <1>3, IdExStep DEF CoreCycle, Decoding
<1>6. ~ifBusy'
  BY <1>1, <1>2 DEF CoreCycle, PrefetchBuffer, InstrReq
<1> QED BY <1>2, <1>3, <1>4, <1>5, <1>6

\* One edge of the system's clock preserves the invariant.
LEMMA SleepInvStep ==
    ASSUME SleepInv, NEW arrive \in BOOLEAN, NEW answer \in BOOLEAN,
           NEW fetched \in BOOLEAN, Tick(arrive, answer, fetched)
    PROVE  SleepInv'
<1>1. /\ CoreInv /\ CoreInv' /\ ctrl \in CtrlStates
      /\ CoreClocked => /\ Controller(FetchEnable, GntOf(answer), answer)
                        /\ InterruptController(irqOut)
                        /\ IdExRegister(GntOf(answer), answer)
                        /\ LoadStoreUnit(GntOf(answer), answer)
      /\ CoreTypeOK
  BY CoreStep DEF CoreCycle, SleepInv, CoreInv, CoreTypeOK
<1>2. ~CoreClocked =>
        /\ ctrl' = ctrl /\ ctrl = "SLEEP"
        /\ irqCtrl' = irqCtrl /\ irqCtrl = "IDLE"
        /\ exUnits' = exUnits /\ "lsu" \notin exUnits
        /\ lsu' = lsu /\ lsu = "IDLE" /\ pathStage = "IDLE"
        /\ ifBusy' = ifBusy /\ coreBusyQ' = coreBusyQ
  BY CoreStep DEF coreVars, ClockGateSafe
<1>3. SysTypeOK'
  BY <1>1, TickParts, TimerStep DEF SysTypeOK, SleepInv, CoreInv
<1>4. IdleInv'
  <2>1. CASE CoreClocked
    BY <2>1, <1>1, QuietCycle, ControllerSteps DEF IdleInv
  <2>2. CASE ~CoreClocked
    BY <2>2, <1>2 DEF IdleInv, SleepInv
  <2> QED BY <2>1, <2>2
<1>5. SleepTypeOK /\ IrqUp \in BOOLEAN /\ EventUp \in BOOLEAN /\ CoreBusy \in BOOLEAN
      /\ SleepWriteOf(AccessOf(arrive)) \in SleepWrites
  BY <1>1 DEF SleepInv, SysTypeOK, EventUnitTypeOK, IrqUp, EventUp, CoreBusy,
         CoreTypeOK, SleepWriteOf, SleepWrites, NoSleepWrite
<1>6. BootInv'
  <2> SUFFICES ASSUME ctrl' \in {"RESET", "BOOT_SET"}
               PROVE  /\ sleepState' = "RUN" /\ ~sleepEnable'
                      /\ pathStage' = "IDLE" /\ "lsu" \notin exUnits'
    BY DEF BootInv
  <2>1. CoreClocked /\ ctrl = "RESET"
    BY <1>1, <1>2, ControllerSteps
  <2>2. /\ sleepState = "RUN" /\ ~sleepEnable
        /\ pathStage = "IDLE" /\ "lsu" \notin exUnits
    BY <2>1 DEF SleepInv, BootInv
  <2>3. ~arrive /\ SleepWriteOf(AccessOf(arrive)) = NoSleepWrite
    BY <2>2, TickParts DEF AccessOf, NoAccess, SleepWriteOf
  <2>4. sleepState' = "RUN" /\ ~sleepEnable'
    BY <2>2, <2>3, <1>5, TickParts, SleepUnitStep
  <2>5. pathStage' = "IDLE"
    BY <2>2, TickParts DEF DataReq
  <2>6. "lsu" \notin exUnits'
    BY <2>1, <2>2, <1>1, IdExStep DEF Decoding
  <2> QED BY <2>4, <2>5, <2>6
<1>7. WakeInv'
  <2> SUFFICES ASSUME irqCtrl' = "IRQ_PENDING", sleepState' = "SLEEP"
               PROVE  ctrl' \in {"FIRST_FETCH", "DECODE", "IRQ_FLUSH",
                                 "IRQ_TAKEN_ID", "IRQ_TAKEN_IF"}
    BY DEF WakeInv
  <2>1. CoreClocked
    BY <1>2
  <2>2. /\ ~IrqUp
        /\ \/ sleepState = "SHUTDOWN" /\ ~CoreBusy
           \/ sleepState = "SLEEP"
    BY <1>5, TickParts, SleepUnitStep
  <2>3. irqCtrl = "IRQ_PENDING" /\ ~IrqAck /\ ~IrqKill
    <3>1. irqOut = {} /\ irqOut \in SUBSET DOMAIN Handler
      BY <2>2 DEF IrqUp
    <3> QED BY <1>1, <2>1, <3>1, InterruptControllerStep
  <2>4. CASE sleepState = "SHUTDOWN" /\ ~CoreBusy
    <3>1. ctrl = "SLEEP"
      BY <2>4 DEF SleepInv, IdleInv, BootInv, CoreBusy
    <3> QED BY <3>1, <2>1, <2>3, <1>1, ControllerSteps DEF IrqReq
  <2>5. CASE sleepState = "SLEEP"
    <3>1. ctrl \in {"FIRST_FETCH", "DECODE", "IRQ_FLUSH"}
      BY <2>5, <2>3 DEF SleepInv, WakeInv, IrqAck
    <3>2. ctrl' # "FLUSH_EX"
      BY <3>1, <2>1, <2>3, <1>1, ControllerSteps DEF IrqKill, IrqTake, IrqReq
    <3> QED BY <3>1, <3>2, <2>1, <1>1, ControllerSteps
  <2> QED BY <2>2, <2>4, <2>5
<1>8. AnswerExpected'
  <2>1. (pathStage # "IDLE") <=> (lsu = "WAIT_RVALID")
    BY DEF SleepInv, AnswerExpected
  <2>2. CASE CoreClocked /\ pathStage = "IDLE"
    <3>1. ~answer /\ lsu = "IDLE" /\ (GntOf(answer) <=> DataReq(answer))
      BY <2>1, <2>2, <1>1, TickParts DEF CoreTypeOK
    <3>2. lsu' = "WAIT_RVALID" <=> DataReq(answer)
      BY <3>1, <2>2, <1>1, LoadStoreStep
    <3> QED BY <3>2, <2>2, TickParts DEF AnswerExpected
  <2>3. CASE CoreClocked /\ pathStage # "IDLE"
    <3>1. lsu' = "IDLE" <=> answer
      BY <2>1, <2>3, <1>1, TickParts, LoadStoreStep
    <3>2. lsu' \in {"IDLE", "WAIT_RVALID"}
      BY <1>1 DEF CoreInv, CoreTypeOK
    <3> QED BY <3>1, <3>2, <2>3, TickParts DEF AnswerExpected
  <2>4. CASE ~CoreClocked
    <3>1. ~DataReq(answer)
      BY <2>4, <1>2 DEF DataReq
    <3> QED BY <3>1, <2>4, <1>2, TickParts DEF AnswerExpected
  <2> QED BY <2>2, <2>3, <2>4
<1> QED BY <1>1, <1>3, <1>4, <1>6, <1>7, <1>8 DEF SleepInv

\* A step of the system is a tick, or nothing moves.
LEMMA SleepInvNext == SleepInv /\ [SysNext]_sysVars => SleepInv'
<1> SUFFICES ASSUME SleepInv, [SysNext]_sysVars PROVE SleepInv'
  OBVIOUS
<1>1. CASE SysNext
  BY <1>1, SleepInvStep DEF SysNext
<1>2. CASE UNCHANGED sysVars
  <2>1. UNCHANGED <<eventUnitVars, coreVars, pathVars, pulseVars, fetchPin, pulses>>
    BY <1>2 DEF sysVars
  <2>2. SysTypeOK'
    BY <2>1 DEF SleepInv, SysTypeOK, EventUnitTypeOK, IrqUnit!TypeOK,
       EventUnitRegs!TypeOK, SleepTypeOK, CoreTypeOK, PathTypeOK, PulseTypeOK,
       eventUnitVars, sleepVars, coreVars, pathVars, pulseVars
  <2>3. CoreInv'
    BY <2>1 DEF SleepInv, CoreInv, coreVars, CoreTypeOK, PipelineInv, CsrInv, FlushInv,
       Kind, NoInstructionDropped, TakenOnlyEnabled, IrqAck, IrqTake, IrqReq
  <2>4. (IdleInv /\ BootInv /\ WakeInv /\ AnswerExpected)'
    BY <2>1 DEF SleepInv, IdleInv, BootInv, WakeInv, AnswerExpected, coreVars,
       eventUnitVars, sleepVars, pathVars
  <2> QED BY <2>2, <2>3, <2>4 DEF SleepInv
<1> QED BY <1>1, <1>2

-----------------------------------------------------------------------------
(* The theorems.                                                           *)

\* SleepInv holds in every reachable state.
THEOREM SleepInvHolds == SysSpec => []SleepInv
BY SleepInvInit, SleepInvNext, PTL DEF SysSpec

\* Every register of event unit, core, bus path and timer stays in its range.
THEOREM SystemTypeCorrect == SysSpec => []SysTypeOK
<1>1. SleepInv => SysTypeOK
  BY DEF SleepInv
<1> QED BY <1>1, SleepInvHolds, PTL

\* Gating the core's clock never cuts off a bus answer, a fetch or an interrupt.
THEOREM ClockGateIsSafe == SysSpec => []ClockGateSafe
BY GateIsSafe, SleepInvHolds, PTL

\* An answer comes exactly when the load-store unit waits for one: the core's
\* clock, the bridge and the unit never lose step.
THEOREM AnswersAreExpected == SysSpec => []AnswerExpected
<1>1. SleepInv => AnswerExpected
  BY DEF SleepInv
<1> QED BY <1>1, SleepInvHolds, PTL

\* An instruction that gives way to an interrupt is executed after mret: it is
\* never taken out of the pipeline without the interrupt being entered.
THEOREM InstructionsSurvive == SysSpec => []NoInstructionDropped
<1>1. SleepInv => NoInstructionDropped
  BY DEF SleepInv, CoreInv
<1> QED BY <1>1, SleepInvHolds, PTL

\* No interrupt is entered with mie clear, whatever has happened between the
\* request the interrupt controller latched and the moment it is taken.
THEOREM InterruptsTakenEnabled == SysSpec => []TakenOnlyEnabled
<1>1. SleepInv => TakenOnlyEnabled
  BY DEF SleepInv, CoreInv
<1> QED BY <1>1, SleepInvHolds, PTL

\* The pipeline is empty before the core sleeps: no store is frozen half-way.
THEOREM PipelineEmptyAsleep == SysSpec => []FlushedAsleep
<1>1. SleepInv => FlushedAsleep
  BY DEF SleepInv, CoreInv, FlushInv, FlushedAsleep
<1> QED BY <1>1, SleepInvHolds, PTL

-----------------------------------------------------------------------------
(* The contract about the core's clock.                                    *)

\* Without a clock, before and after the edge, nothing is under way.
LEMMA NoWorkUnclocked == SleepInv /\ ~CoreClocked => ~Working
<1> SUFFICES ASSUME SleepInv, ~CoreClocked PROVE ~Working
  OBVIOUS
<1>1. /\ ctrl = "SLEEP" /\ ~ifBusy /\ irqCtrl = "IDLE"
      /\ lsu = "IDLE" /\ pathStage = "IDLE" /\ "lsu" \notin exUnits
  BY GateIsSafe DEF ClockGateSafe
<1>2. ~idValid /\ exPc = NoInstr
  BY <1>1 DEF SleepInv, CoreInv, FlushInv
<1> QED BY <1>1, <1>2 DEF Working

\* The same after the edge.
LEMMA UnclockedAfter ==
    /\ SleepInv' => ClockGateSafe'
    /\ SleepInv' /\ ~CoreClocked' => ~Working'
BY GateIsSafe, NoWorkUnclocked, PTL

\* The edge that takes the clock away ends a cycle without work, and no edge
\* keeps or takes it away while an interrupt is requested.
LEMMA StopStep ==
    ASSUME SleepInv, SleepInv', NEW arrive \in BOOLEAN, NEW answer \in BOOLEAN,
           NEW fetched \in BOOLEAN, Tick(arrive, answer, fetched), ~CoreClocked'
    PROVE  ~IrqUp /\ ~Working
<1>1. /\ sleepState' = "SLEEP" /\ ~coreBusyQ'
      /\ ctrl' = "SLEEP" /\ irqCtrl' = "IDLE"
  BY UnclockedAfter DEF CoreClocked, CoreClockEn, ClockEnable, ClkGateCore, CoreBusy,
                        ClockGateSafe
<1>2. ~IrqUp
  <2>1. /\ SleepTypeOK /\ IrqUp \in BOOLEAN /\ EventUp \in BOOLEAN /\ CoreBusy \in BOOLEAN
        /\ SleepWriteOf(AccessOf(arrive)) \in SleepWrites
    BY DEF SleepInv, SysTypeOK, EventUnitTypeOK, IrqUp, EventUp, CoreBusy,
           CoreTypeOK, SleepWriteOf, SleepWrites, NoSleepWrite
  <2> QED BY <1>1, <2>1, TickParts, SleepUnitStep
<1>3. CASE ~CoreClocked
  BY <1>2, <1>3, NoWorkUnclocked
<1>4. CASE CoreClocked
  <2>1. /\ ctrl \in {"RESET", "WAIT_SLEEP", "SLEEP"}
        /\ lsu = "IDLE" /\ "lsu" \notin exUnits /\ ~ifBusy
    BY <1>1, <1>4, QuietCycle
  <2>2. /\ Controller(FetchEnable, GntOf(answer), answer)
        /\ InterruptController(irqOut) /\ irqOut \in SUBSET DOMAIN Handler
        /\ CoreTypeOK /\ ctrl \in CtrlStates
    BY <1>4, CoreStep, SystemAssumption
       DEF CoreCycle, SleepInv, SysTypeOK, CoreTypeOK, EventUnitTypeOK, IrqUnit!TypeOK
  <2>3. ctrl \in {"WAIT_SLEEP", "SLEEP"} /\ (ctrl = "SLEEP" => ~IrqReq)
    BY <1>1, <2>2, ControllerSteps
  <2>4. ~idValid /\ exPc = NoInstr /\ pathStage = "IDLE"
    BY <2>1, <2>3 DEF SleepInv, CoreInv, FlushInv, AnswerExpected
  <2>5. irqCtrl = "IDLE"
    <3>1. irqCtrl # "IRQ_DONE"
      BY <2>3 DEF SleepInv, CoreInv
    <3>2. ~IrqAck /\ ~IrqKill
      BY <2>3 DEF IrqAck, IrqKill, Decoding
    <3>3. irqCtrl # "IRQ_PENDING"
      BY <1>1, <2>2, <3>2, InterruptControllerStep
    <3> QED BY <2>2, <3>1, <3>3 DEF CoreTypeOK
  <2> QED BY <1>2, <2>1, <2>4, <2>5 DEF Working
<1> QED BY <1>3, <1>4

\* Every tick is a step of the contract.
LEMMA TickKeepsContract ==
    ASSUME SleepInv, SleepInv', NEW arrive \in BOOLEAN, NEW answer \in BOOLEAN,
           NEW fetched \in BOOLEAN, Tick(arrive, answer, fetched)
    PROVE  Contract!ContractNext
<1>1. /\ CoreClocked \in BOOLEAN /\ Working \in BOOLEAN /\ IrqUp \in BOOLEAN
      /\ CoreClocked' \in BOOLEAN /\ Working' \in BOOLEAN /\ IrqUp' \in BOOLEAN
  BY DEF CoreClocked, CoreClockEn, Working, IrqUp
<1>2. CASE CoreClocked /\ CoreClocked'
  BY <1>1, <1>2 DEF Contract!ContractNext, Contract!Work
<1>3. CASE CoreClocked /\ ~CoreClocked'
  <2>1. ~IrqUp /\ ~Working /\ ~Working'
    BY <1>3, StopStep, UnclockedAfter
  <2> QED BY <1>1, <1>3, <2>1 DEF Contract!ContractNext, Contract!Stop
<1>4. CASE ~CoreClocked /\ ~CoreClocked'
  <2>1. ~IrqUp /\ ~Working'
    BY <1>4, StopStep, UnclockedAfter
  <2> QED BY <1>1, <1>4, <2>1 DEF Contract!ContractNext, Contract!Stay
<1>5. CASE ~CoreClocked /\ CoreClocked'
  <2>1. UNCHANGED coreVars /\ ~Working
    BY <1>5, CoreStep, NoWorkUnclocked
  <2>2. ~DataReq(answer) /\ pathStage = "IDLE"
    BY <2>1 DEF DataReq, Working
  <2>3. pathStage' = "IDLE"
    BY <2>2, TickParts
  <2>4. ~Working'
    BY <2>1, <2>3 DEF Working, coreVars
  <2> QED BY <1>1, <1>5, <2>4 DEF Contract!ContractNext, Contract!Resume
<1> QED BY <1>1, <1>2, <1>3, <1>4, <1>5

\* The system implements the contract: the clock is taken away only from a
\* core without work and without a request, stays away only without a request,
\* and comes back before there is work.
THEOREM ClockContractKept == SysSpec => KeepsClockContract
<1>1. SysInit => Contract!ContractInit
  <2> SUFFICES ASSUME SysInit PROVE Contract!ContractInit
    OBVIOUS
  <2>1. CoreClocked
    BY DEF SysInit, EventUnitInit, SleepInit, CoreClocked, CoreClockEn, ClockEnable,
           ClkGateCore
  <2>2. ~Working
    BY DEF SysInit, CoreInit, PathInit, Working
  <2>3. ~IrqUp
    BY DEF SysInit, EventUnitInit, IrqUnit!Init, IrqUp
  <2> QED BY <2>1, <2>2, <2>3 DEF Contract!ContractInit
<1>2. SleepInv /\ SleepInv' /\ [SysNext]_sysVars
        => [Contract!ContractNext]_(Contract!contractVars)
  <2> SUFFICES ASSUME SleepInv, SleepInv', [SysNext]_sysVars
               PROVE  [Contract!ContractNext]_(Contract!contractVars)
    OBVIOUS
  <2>1. CASE SysNext
    BY <2>1, TickKeepsContract DEF SysNext
  <2>2. CASE UNCHANGED sysVars
    BY <2>2 DEF sysVars, eventUnitVars, sleepVars, coreVars, pathVars,
       Contract!contractVars, CoreClocked, CoreClockEn, ClockEnable, ClkGateCore,
       CoreBusy, EventUp, Working, IrqUp
  <2> QED BY <2>1, <2>2
<1> QED BY <1>1, <1>2, SleepInvHolds, PTL
        DEF SysSpec, KeepsClockContract, Contract!ContractSpec
=============================================================================

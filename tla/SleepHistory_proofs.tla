------------------------- MODULE SleepHistory_proofs -------------------------
(***************************************************************************)
(* Proofs about the order in which programs and handlers execute, for      *)
(* every program that keeps to ProgramDiscipline.                          *)
(***************************************************************************)
EXTENDS OrderInvariant, SleepSystem_proofs

\* The next state of the controller, state by state.
LEMMA ControllerWays ==
    ASSUME NEW fetchEn, NEW gnt, NEW rvalid, Controller(fetchEn, gnt, rvalid)
    PROVE  /\ ctrl = "RESET" => ctrl' = IF fetchEn THEN "BOOT_SET" ELSE "RESET"
           /\ ctrl = "BOOT_SET" => ctrl' = "FIRST_FETCH"
           /\ ctrl = "WAIT_SLEEP" => ctrl' = "SLEEP"
           /\ ctrl = "SLEEP" =>
                ctrl' = IF fetchEn \/ IrqReq THEN "FIRST_FETCH" ELSE "SLEEP"
           /\ ctrl = "FIRST_FETCH" /\ IrqTake => ctrl' = "IRQ_TAKEN_IF"
           /\ ctrl = "FIRST_FETCH" /\ ~IrqTake /\ ExReady(gnt, rvalid) => ctrl' = "DECODE"
           /\ ctrl = "DECODE" /\ ~idValid => ctrl' = "DECODE"
           /\ Decoding /\ IrqTake => ctrl' = "IRQ_FLUSH"
           /\ Decoding /\ ~IrqTake /\ Flushing(idPc) => ctrl' = "FLUSH_EX"
           /\ Decoding /\ ~IrqTake /\ ~Flushing(idPc) =>
                ctrl' = IF Kind(idPc) = "csr" /\ ExReady(gnt, rvalid)
                        THEN "FLUSH_EX" ELSE "DECODE"
           /\ ctrl = "IRQ_FLUSH" /\ IrqTake => ctrl' = "IRQ_TAKEN_ID"
           /\ IrqAck => ctrl' = "DECODE"
           /\ ctrl = "FLUSH_EX" =>
                ctrl' = IF ExValid(gnt, rvalid) THEN "FLUSH_WB" ELSE "FLUSH_EX"
           /\ ctrl = "FLUSH_WB" =>
                ctrl' = IF ~fetchEn /\ Flushing(idPc) THEN "WAIT_SLEEP" ELSE "DECODE"
<1>1. CASE Reset(fetchEn) \/ BootSet \/ WaitSleep \/ Sleeping(fetchEn)
  BY <1>1 DEF Reset, BootSet, WaitSleep, Sleeping, IrqAck, Decoding
<1>2. CASE FirstFetch(gnt, rvalid)
  BY <1>2 DEF FirstFetch, IrqAck, Decoding
<1>3. CASE Decode(gnt, rvalid)
  BY <1>3 DEF Decode, IrqAck, Decoding
<1>4. CASE IrqFlush \/ IrqTaken \/ FlushEx(gnt, rvalid) \/ FlushWb(fetchEn)
  BY <1>4 DEF IrqFlush, IrqTaken, FlushEx, FlushWb, IrqAck, Decoding
<1> QED BY <1>1, <1>2, <1>3, <1>4 DEF Controller

-----------------------------------------------------------------------------
\* The execute stage's answer to the controller, given that of the bus.
Ready(answer) == ExReady(GntOf(answer), answer)

\* One clock edge, for the core and for the history: with its clock the core
\* takes a step of its own, without it core and history stand still.
LEMMA Edge ==
    ASSUME SleepInv, NEW arrive \in BOOLEAN, NEW answer \in BOOLEAN,
           NEW fetched \in BOOLEAN, HistoryTick(arrive, answer, fetched)
    PROVE  /\ SleepInv' /\ CoreTypeOK /\ CoreInv /\ CoreInv' /\ ctrl \in CtrlStates
           /\ CoreClocked =>
                /\ Controller(FetchEnable, GntOf(answer), answer)
                /\ InterruptController(irqOut) /\ irqOut \in SUBSET DOMAIN Handler
                /\ CsrRegisters
                /\ IfIdRegister(GntOf(answer), answer, fetched)
                /\ IdExRegister(GntOf(answer), answer)
                /\ LoadStoreUnit(GntOf(answer), answer)
                /\ fetched => IfReady(GntOf(answer), answer)
                /\ context' = CASE IrqAck -> "ISR"
                                [] Mret   -> "MAIN"
                                [] OTHER  -> context
                /\ due' = CASE IrqAck -> [due EXCEPT !["ISR"] = {Handler[irqId]}]
                            [] Issue(GntOf(answer), answer) ->
                                    [due EXCEPT ![context] = Program[idPc].next]
                            [] OTHER  -> due
           /\ ~CoreClocked =>
                /\ UNCHANGED coreVars /\ ctrl = "SLEEP" /\ irqCtrl = "IDLE"
                /\ context' = context /\ due' = due
<1>1. Tick(arrive, answer, fetched)
  BY DEF HistoryTick
<1>2. SleepInv' /\ CoreTypeOK /\ CoreInv /\ CoreInv' /\ ctrl \in CtrlStates
  BY <1>1, SleepInvStep DEF SleepInv, SysTypeOK, CoreTypeOK
<1>3. /\ context' = CASE CoreClocked /\ IrqAck -> "ISR"
                      [] CoreClocked /\ Mret   -> "MAIN"
                      [] OTHER                 -> context
      /\ due' = CASE CoreClocked /\ IrqAck -> [due EXCEPT !["ISR"] = {Handler[irqId]}]
                  [] Issue(GntOf(answer), answer) ->
                        [due EXCEPT ![context] = Program[idPc].next]
                  [] OTHER -> due
  BY DEF HistoryTick, GntOf
<1>4. ASSUME CoreClocked
      PROVE  /\ Controller(FetchEnable, GntOf(answer), answer)
             /\ InterruptController(irqOut) /\ irqOut \in SUBSET DOMAIN Handler
             /\ CsrRegisters
             /\ IfIdRegister(GntOf(answer), answer, fetched)
             /\ IdExRegister(GntOf(answer), answer)
             /\ LoadStoreUnit(GntOf(answer), answer)
             /\ fetched => IfReady(GntOf(answer), answer)
  BY <1>1, <1>4, CoreStep, SystemAssumption
     DEF CoreCycle, SleepInv, SysTypeOK, EventUnitTypeOK, IrqUnit!TypeOK
<1>5. ASSUME ~CoreClocked
      PROVE  UNCHANGED coreVars /\ ctrl = "SLEEP" /\ irqCtrl = "IDLE"
  BY <1>1, <1>5, CoreStep DEF ClockGateSafe
<1>6. ~CoreClocked => ~Issue(GntOf(answer), answer)
  BY DEF Issue
<1> QED BY <1>2, <1>3, <1>4, <1>5, <1>6

\* Where an instruction leaves ID, and what the IF/ID register then holds.
LEMMA IdEdge ==
    ASSUME SleepInv, NEW arrive \in BOOLEAN, NEW answer \in BOOLEAN,
           NEW fetched \in BOOLEAN, HistoryTick(arrive, answer, fetched), CoreClocked
    PROVE  /\ Issue(GntOf(answer), answer) <=>
                \/ Decoding /\ ~IrqTake /\ ~Flushing(idPc) /\ Ready(answer)
                \/ ctrl = "FLUSH_WB" /\ Flushing(idPc)
           /\ fetched =>
                /\ ctrl \in {"FIRST_FETCH", "DECODE"} /\ Ready(answer)
                /\ Decoding => ~IrqTake /\ ~Flushing(idPc) /\ Kind(idPc) # "csr"
                /\ ctrl = "FIRST_FETCH" => ~IrqTake
                /\ idPc' = pcIf /\ idValid' /\ pcIf' \in Program[pcIf].next
           /\ ~fetched =>
                /\ idPc' = idPc /\ pcIf' = IF PcSet THEN PcNew ELSE pcIf
                /\ idValid' => idValid /\ ~Ready(answer)
                /\ idValid /\ ~HaltId /\ ~Ready(answer) => idValid'
           /\ Mret => ctrl = "FLUSH_WB" /\ Flushing(idPc) /\ Kind(idPc) = "mret"
<1>1. /\ IfIdRegister(GntOf(answer), answer, fetched)
      /\ fetched => IfReady(GntOf(answer), answer)
      /\ ctrl \in CtrlStates
  BY Edge
<1>2. Decoding => (HaltId <=> IrqTake \/ Flushing(idPc))
  BY DEF HaltId, Decoding
<1>3. Issue(GntOf(answer), answer) <=>
          \/ Decoding /\ ~IrqTake /\ ~Flushing(idPc) /\ Ready(answer)
          \/ ctrl = "FLUSH_WB" /\ Flushing(idPc)
  BY <1>2 DEF Issue, Ready
<1>4. CASE fetched
  BY <1>1, <1>2, <1>3, <1>4 DEF IfIdRegister, IfReady, HaltIf, HaltId, Ready, Mret, Flushing
<1>5. CASE ~fetched
  BY <1>1, <1>3, <1>5 DEF IfIdRegister, Ready, Mret, Flushing
<1> QED BY <1>3, <1>4, <1>5

\* The interrupt unit and the slot of the bus path in one edge: lines leave
\* PENDING only by an access that takes them out, now or in the last cycle.
LEMMA LineEdge ==
    ASSUME SleepInv, NEW arrive \in BOOLEAN, NEW answer \in BOOLEAN,
           NEW fetched \in BOOLEAN, HistoryTick(arrive, answer, fetched)
    PROVE  /\ irqRegs'["CLEAR_PENDING"] # {} => arrive /\ TakesLines(pathOp)
           /\ irqRegs["CLEAR_PENDING"] = {} /\ ~(arrive /\ TakesLines(pathOp))
                => irqRegs["PENDING"] \subseteq irqRegs'["PENDING"]
           /\ irqOut' \subseteq irqRegs["PENDING"]
           /\ arrive => pathStage = "REQUEST" /\ pathStage' = "SEND_B"
           /\ answer => pathStage = "RESPONSE" /\ pathStage' = "IDLE"
           /\ pathStage' = "REQUEST" =>
                \/ pathStage = "IDLE" /\ DataReq(answer) /\ pathOp' = Program[exPc].arg
                \/ pathStage = "REQUEST" /\ pathOp' = pathOp
           /\ pathStage' = "SEND_B" => arrive
           /\ pathStage' = "RESPONSE" => pathStage \in {"SEND_B", "RESPONSE"}
           /\ pathStage' = "IDLE" => pathStage \in {"IDLE", "RESPONSE"}
           /\ pathStage = "IDLE" /\ ~DataReq(answer) => pathStage' = "IDLE"
<1> DEFINE signal == IF timerIrq THEN {TimerLine} ELSE {}
           write  == WriteTo("IRQ", AccessOf(arrive))
           op     == IF DataReq(answer) THEN Program[exPc].arg ELSE pathOp
<1>1. /\ irqRegs' = IrqUnit!RegsNext(signal, write)
      /\ irqOut' = IrqUnit!Lowest(irqRegs["PENDING"])
      /\ PathCycle(DataReq(answer), op, arrive, answer)
  BY DEF HistoryTick, Tick, EventUnitCycle, IrqUnit!Cycle, AccessOf
<1>2. arrive => pathStage = "REQUEST"
  BY <1>1 DEF PathCycle
<1>3. write.reg \in {"PENDING", "CLEAR_PENDING"} => arrive /\ TakesLines(pathOp)
  BY DEF WriteTo, AccessOf, TakesLines, NoAccess, IrqUnit!NoWrite
<1> HIDE DEF signal, write
<1>4. irqRegs'["CLEAR_PENDING"] = IF write.reg = "CLEAR_PENDING" THEN write.data ELSE {}
  BY <1>1 DEF IrqUnit!RegsNext, IrqUnit!Registers
<1>5. irqRegs'["PENDING"] = IF write.reg = "PENDING" THEN write.data
                            ELSE IrqUnit!PendingInt(signal)
  BY <1>1 DEF IrqUnit!RegsNext, IrqUnit!Registers
<1>6. irqRegs["CLEAR_PENDING"] = {} => irqRegs["PENDING"] \subseteq IrqUnit!PendingInt(signal)
  BY DEF IrqUnit!PendingInt
<1>7. irqOut' \subseteq irqRegs["PENDING"]
  BY <1>1 DEF IrqUnit!Lowest
<1>8. /\ arrive => pathStage = "REQUEST" /\ pathStage' = "SEND_B"
      /\ answer => pathStage = "RESPONSE" /\ pathStage' = "IDLE"
      /\ pathStage' = "REQUEST" =>
            \/ pathStage = "IDLE" /\ DataReq(answer) /\ pathOp' = op
            \/ pathStage = "REQUEST" /\ pathOp' = pathOp
      /\ pathStage' = "SEND_B" => arrive
      /\ pathStage' = "RESPONSE" => pathStage \in {"SEND_B", "RESPONSE"}
      /\ pathStage' = "IDLE" => pathStage \in {"IDLE", "RESPONSE"}
      /\ pathStage = "IDLE" /\ ~DataReq(answer) => pathStage' = "IDLE"
  <2> HIDE DEF op
  <2>1. CASE PathIdle(DataReq(answer), op)
    BY <1>1, <2>1 DEF PathCycle, PathIdle, pathVars
  <2>2. CASE PathRequest(arrive)
    BY <1>1, <2>2 DEF PathCycle, PathRequest, pathVars
  <2>3. CASE PathSendB
    BY <1>1, <2>3 DEF PathCycle, PathSendB
  <2>4. CASE PathResponse(answer)
    BY <1>1, <2>4 DEF PathCycle, PathResponse
  <2> QED BY <1>1, <2>1, <2>2, <2>3, <2>4 DEF PathCycle
<1> QED BY <1>3, <1>4, <1>5, <1>6, <1>7, <1>8

\* A pulse on an enabled line becomes pending, unless an access takes lines
\* out of PENDING in that very cycle.
LEMMA PulseEdge ==
    ASSUME SleepInv, NEW arrive \in BOOLEAN, NEW answer \in BOOLEAN,
           NEW fetched \in BOOLEAN, HistoryTick(arrive, answer, fetched),
           timerIrq, TimerLine \in irqRegs["ENABLE"],
           irqRegs["CLEAR_PENDING"] = {}, ~(arrive /\ TakesLines(pathOp))
    PROVE  TimerLine \in irqRegs'["PENDING"]
<1>1. irqRegs' = IrqUnit!RegsNext({TimerLine}, WriteTo("IRQ", AccessOf(arrive)))
  BY DEF HistoryTick, Tick, EventUnitCycle, IrqUnit!Cycle, AccessOf
<1>2. WriteTo("IRQ", AccessOf(arrive)).reg # "PENDING"
  BY DEF WriteTo, AccessOf, TakesLines, NoAccess, IrqUnit!NoWrite
<1>3. irqRegs'["PENDING"] = IrqUnit!PendingInt({TimerLine})
  BY <1>1, <1>2 DEF IrqUnit!RegsNext, IrqUnit!Registers
<1> QED BY <1>3 DEF IrqUnit!PendingInt

-----------------------------------------------------------------------------
(* Every edge preserves the invariant, a conjunct at a time.               *)

\* mret is a handler's: when it ends its flush, the context is ISR.
LEMMA MretInHandler ==
    ASSUME SleepInv, OrderInv, Mret
    PROVE  /\ context = "ISR" /\ Holding /\ idPc \in due["ISR"]
           /\ idPc \in Addr /\ Drained /\ mepc \in due["MAIN"]
<1>1. ctrl = "FLUSH_WB" /\ Flushing(idPc) /\ Kind(idPc) = "mret"
  BY DEF Mret, Flushing
<1>2. Holding /\ Drained
  BY <1>1 DEF Holding, Drained
<1>3. idPc \in due[context] /\ context \in Contexts /\ due[context] \subseteq CodeOf(context)
      /\ due[context] \subseteq Addr
  BY <1>2 DEF OrderInv, DueInv, ContextInv, Contexts
<1>4. idPc \in HandlerCode
  BY <1>1, <1>3, ProgramDiscipline
<1>5. context = "ISR"
  BY <1>3, <1>4 DEF CodeOf, Contexts
<1> QED BY <1>1, <1>2, <1>3, <1>5 DEF OrderInv, ContextInv

\* An instruction that leaves ID is the one that was due, and what follows it
\* is code of the same context.
LEMMA IssuedIsDue ==
    ASSUME SleepInv, OrderInv, NEW gnt, NEW rvalid, Issue(gnt, rvalid)
    PROVE  /\ Holding /\ idPc \in due[context] /\ idPc \in Addr
           /\ pcIf \in Program[idPc].next
           /\ idPc \in CodeOf(context)
           /\ Program[idPc].next \subseteq CodeOf(context)
<1>1. Holding /\ context \in Contexts
  BY DEF Issue, Holding, Decoding, OrderInv, ContextInv
<1>2. /\ idPc \in due[context] /\ pcIf \in Program[idPc].next
      /\ due[context] \subseteq CodeOf(context)
  BY <1>1 DEF OrderInv, DueInv, ContextInv
<1>3. idPc \in Addr /\ idPc \in CodeOf(context)
  BY <1>2, ProgramDiscipline DEF CodeOf
<1>4. Program[idPc].next \subseteq CodeOf(context)
  BY <1>3, ProgramFacts, ProgramDiscipline DEF CodeOf
<1> QED BY <1>1, <1>2, <1>3, <1>4

\* The contexts change only with a trap and with mret, and keep to their code.
LEMMA ContextStep ==
    ASSUME SleepInv, OrderInv, NEW arrive \in BOOLEAN, NEW answer \in BOOLEAN,
           NEW fetched \in BOOLEAN, HistoryTick(arrive, answer, fetched)
    PROVE  ContextInv'
<1> DEFINE issue == Issue(GntOf(answer), answer)
<1>1. CASE ~CoreClocked
  BY <1>1, Edge DEF OrderInv, ContextInv, coreVars, IrqAck
<1>2. CASE CoreClocked
  <2> USE <1>2
  <2>1. /\ context \in Contexts /\ due \in [Contexts -> SUBSET Addr]
        /\ \A c \in Contexts : due[c] \subseteq CodeOf(c)
        /\ context = "ISR" => ~mie /\ mepc \in due["MAIN"] /\ irqCtrl # "IRQ_PENDING"
        /\ IrqAck => irqCtrl = "IRQ_PENDING"
    BY DEF OrderInv, ContextInv
  <2>2. /\ context' = CASE IrqAck -> "ISR"
                        [] Mret   -> "MAIN"
                        [] OTHER  -> context
        /\ due' = CASE IrqAck -> [due EXCEPT !["ISR"] = {Handler[irqId]}]
                    [] issue  -> [due EXCEPT ![context] = Program[idPc].next]
                    [] OTHER  -> due
    BY Edge
  <2>3. ~(IrqAck /\ issue) /\ ~(IrqAck /\ Mret)
    BY DEF IrqAck, Mret, Issue, Decoding
  <2>4. context' \in Contexts
    BY <2>1, <2>2, <2>3 DEF Contexts
  <2>5. /\ due' \in [Contexts -> SUBSET Addr]
        /\ \A c \in Contexts : due'[c] \subseteq CodeOf(c)
    <3>1. CASE IrqAck
      <4>1. irqId \in DOMAIN Handler /\ DOMAIN Handler = Lines
        BY SystemAssumption, Edge DEF CoreTypeOK
      <4>2. Handler[irqId] \in HandlerCode /\ HandlerCode \subseteq Addr
        BY <4>1, ProgramDiscipline
      <4>3. due' = [due EXCEPT !["ISR"] = {Handler[irqId]}]
        BY <2>2, <2>3, <3>1
      <4> QED BY <2>1, <4>2, <4>3 DEF CodeOf, Contexts
    <3>2. CASE issue
      <4>1. due' = [due EXCEPT ![context] = Program[idPc].next]
        BY <2>2, <2>3, <3>2
      <4>2. Program[idPc].next \subseteq CodeOf(context) /\ Program[idPc].next \subseteq Addr
        BY <3>2, IssuedIsDue, ProgramFacts
      <4> QED BY <2>1, <4>1, <4>2
    <3>3. CASE ~IrqAck /\ ~issue
      BY <2>1, <2>2, <3>3
    <3> QED BY <3>1, <3>2, <3>3
  <2>6. IrqAck' => irqCtrl' = "IRQ_PENDING"
    <3> SUFFICES ASSUME IrqAck' PROVE irqCtrl' = "IRQ_PENDING"
      OBVIOUS
    <3>1. ctrl \in {"IRQ_FLUSH", "FIRST_FETCH"} /\ IrqTake
      BY Edge, ControllerSteps DEF IrqAck
    <3>2. ~IrqAck /\ ~IrqKill
      BY <3>1 DEF IrqAck, IrqKill, Decoding
    <3> QED BY <3>1, <3>2, Edge, InterruptControllerStep DEF IrqTake, IrqReq
  <2>7. ASSUME context' = "ISR"
        PROVE  ~mie' /\ mepc' \in due'["MAIN"] /\ irqCtrl' # "IRQ_PENDING"
    <3>1. CASE IrqAck
      <4>1. irqCtrl = "IRQ_PENDING" /\ context = "MAIN"
        BY <2>1, <3>1 DEF Contexts
      <4>2. ~mie'
        BY <3>1, Edge DEF CsrRegisters, NextMie, Mret, IrqAck
      <4>3. irqCtrl' = "IRQ_DONE"
        BY <3>1, <4>1, Edge DEF InterruptController
      <4>4. mepc' = IF ctrl = "IRQ_TAKEN_ID" THEN idPc ELSE pcIf
        BY <3>1, Edge DEF CsrRegisters, NextMepc, IrqAck
      <4>5. mepc' \in due["MAIN"]
        <5>1. ~idValid
          BY <3>1 DEF OrderInv, DueInv, IrqAck
        <5>2. CASE ctrl = "IRQ_TAKEN_ID"
          BY <4>1, <4>4, <5>2 DEF OrderInv, DueInv, Holding
        <5>3. CASE ctrl = "IRQ_TAKEN_IF"
          BY <4>1, <4>4, <5>1, <5>3 DEF OrderInv, DueInv, Holding
        <5> QED BY <3>1, <5>2, <5>3 DEF IrqAck
      <4>6. due'["MAIN"] = due["MAIN"]
        BY <2>1, <2>2, <2>3, <3>1 DEF Contexts
      <4> QED BY <4>2, <4>3, <4>5, <4>6
    <3>2. CASE ~IrqAck
      <4>1. context = "ISR" /\ ~Mret
        BY <2>2, <2>7, <3>2
      <4>2. ~mie /\ mepc \in due["MAIN"] /\ irqCtrl # "IRQ_PENDING"
        BY <2>1, <4>1
      <4>3. ~mie'
        <5>1. CASE Kind(exPc) = "csr"
          <6>1. exPc \in Addr
            BY <5>1, Edge, KindFacts DEF CoreTypeOK
          <6>2. Program[exPc].next = due["ISR"]
            BY <4>1, <5>1 DEF OrderInv, ExInv
          <6>3. PICK b \in Program[exPc].next : b \in HandlerCode
            BY <2>1, <6>1, <6>2, ProgramAssumption DEF CodeOf, Contexts
          <6>4. Program[exPc].arg # "ENABLE"
            BY <5>1, <6>1, <6>3, ProgramDiscipline
          <6> QED BY <3>2, <4>1, <4>2, <5>1, <6>4, Edge
                  DEF CsrRegisters, NextMie, CsrWrite, WrittenMie
        <5>2. CASE Kind(exPc) # "csr"
          BY <3>2, <4>1, <4>2, <5>2, Edge, CsrStep DEF CoreInv, PipelineInv
        <5> QED BY <5>1, <5>2
      <4>4. mepc' = mepc
        BY <3>2, Edge DEF CsrRegisters, NextMepc, IrqAck
      <4>5. due'["MAIN"] = due["MAIN"]
        BY <2>1, <2>2, <3>2, <4>1 DEF Contexts
      <4>6. irqCtrl' # "IRQ_PENDING"
        BY <4>2, Edge, InterruptControllerStep
      <4> QED BY <4>2, <4>3, <4>4, <4>5, <4>6
    <3> QED BY <3>1, <3>2
  <2> QED BY <2>4, <2>5, <2>6, <2>7 DEF ContextInv
<1> QED BY <1>1, <1>2

\* What is due stays what ID holds or IF delivers: an instruction enters ID as
\* its predecessor leaves it, gives way to a handler only into mepc, and comes
\* back from there.
LEMMA DueStep ==
    ASSUME SleepInv, OrderInv, NEW arrive \in BOOLEAN, NEW answer \in BOOLEAN,
           NEW fetched \in BOOLEAN, HistoryTick(arrive, answer, fetched)
    PROVE  DueInv'
<1> DEFINE issue == Issue(GntOf(answer), answer)
<1>1. CASE ~CoreClocked
  BY <1>1, Edge DEF OrderInv, DueInv, coreVars, Holding, Flushing, Kind
<1>2. CASE CoreClocked
  <2> USE <1>2
  <2>1. /\ context \in Contexts /\ due \in [Contexts -> SUBSET Addr]
        /\ Holding => idPc \in due[context] /\ pcIf \in Program[idPc].next
        /\ ~Holding => pcIf \in due[context]
        /\ ctrl \in {"RESET", "BOOT_SET", "FIRST_FETCH",
                     "IRQ_FLUSH", "IRQ_TAKEN_ID", "IRQ_TAKEN_IF"} => ~idValid
        /\ ctrl \in {"RESET", "BOOT_SET"} => Boot \in due[context]
        /\ ctrl \in {"FLUSH_EX", "FLUSH_WB", "WAIT_SLEEP", "SLEEP"} => ~idValid
        /\ ctrl = "FIRST_FETCH" => Ready(answer)
        /\ ctrl = "IRQ_FLUSH" => IrqTake
    <3>1. ctrl = "FIRST_FETCH" => Ready(answer)
      BY DEF OrderInv, DrainInv, Drained, Ready, ExReady, LsuReadyEx, DataReq, WbReady,
             SleepInv, AnswerExpected, SysTypeOK, CoreTypeOK
    <3> QED BY <3>1 DEF OrderInv, ContextInv, DueInv, SleepInv, CoreInv, FlushInv,
                        NoInstructionDropped
  <2>2. /\ context' = CASE IrqAck -> "ISR"
                        [] Mret   -> "MAIN"
                        [] OTHER  -> context
        /\ due' = CASE IrqAck -> [due EXCEPT !["ISR"] = {Handler[irqId]}]
                    [] issue  -> [due EXCEPT ![context] = Program[idPc].next]
                    [] OTHER  -> due
        /\ ctrl \in CtrlStates
    BY Edge
  <2>3. /\ Holding <=> \/ idValid
                       \/ ctrl \in {"IRQ_FLUSH", "IRQ_TAKEN_ID"}
                       \/ ctrl \in {"FLUSH_EX", "FLUSH_WB"} /\ Flushing(idPc)
        /\ Holding' <=> \/ idValid'
                        \/ ctrl' \in {"IRQ_FLUSH", "IRQ_TAKEN_ID"}
                        \/ ctrl' \in {"FLUSH_EX", "FLUSH_WB"} /\ Flushing(idPc')
    BY DEF Holding, Flushing, Kind
  <2>4. CASE ctrl \in {"RESET", "BOOT_SET", "WAIT_SLEEP", "SLEEP"}
    <3>1. ~issue /\ ~IrqAck /\ ~Mret /\ ~fetched
      BY <2>4, IdEdge DEF IrqAck, Mret, Decoding
    <3>2. due' = due /\ context' = context /\ idPc' = idPc /\ ~idValid'
      BY <2>1, <2>2, <2>4, <3>1, IdEdge
    <3>3. pcIf' = IF ctrl = "BOOT_SET" THEN Boot ELSE pcIf
      BY <2>4, <3>1, IdEdge DEF PcSet, PcNew
    <3>4. /\ ctrl' \in {"RESET", "BOOT_SET", "FIRST_FETCH", "SLEEP"}
          /\ ctrl' \in {"RESET", "BOOT_SET"} => ctrl = "RESET"
      BY <2>4, Edge, ControllerWays
    <3>5. pcIf' \in due'[context'] /\ ~Holding'
      BY <2>1, <2>3, <2>4, <3>2, <3>3, <3>4
    <3> QED BY <2>1, <3>2, <3>4, <3>5 DEF DueInv
  <2>5. CASE ctrl = "FIRST_FETCH"
    <3>1. ~issue /\ ~IrqAck /\ ~Mret /\ ~PcSet /\ ~idValid
      BY <2>1, <2>5, IdEdge DEF IrqAck, Mret, Decoding, PcSet
    <3>2. due' = due /\ context' = context
      BY <2>2, <3>1
    <3>3. ctrl' = IF IrqTake THEN "IRQ_TAKEN_IF" ELSE "DECODE"
      BY <2>1, <2>5, Edge, ControllerWays DEF Ready
    <3>4. fetched => ~IrqTake
      BY <2>5, IdEdge
    <3>5. pcIf \in due[context]
      BY <2>1, <2>3, <2>5, <3>1
    <3> QED BY <2>3, <3>1, <3>2, <3>3, <3>4, <3>5, IdEdge DEF DueInv
  <2>6. CASE ctrl = "DECODE" /\ ~idValid
    <3>1. ~issue /\ ~IrqAck /\ ~Mret /\ ~PcSet
      BY <2>6, IdEdge DEF IrqAck, Mret, Decoding, PcSet
    <3>2. due' = due /\ context' = context
      BY <2>2, <3>1
    <3>3. ctrl' = "DECODE"
      BY <2>6, Edge, ControllerWays
    <3>4. pcIf \in due[context]
      BY <2>1, <2>3, <2>6
    <3> QED BY <2>3, <2>6, <3>1, <3>2, <3>3, <3>4, IdEdge DEF DueInv
  <2>7. CASE Decoding /\ (IrqTake \/ Flushing(idPc))
    <3>1. ~issue /\ ~IrqAck /\ ~Mret /\ ~PcSet /\ ~fetched /\ HaltId
      BY <2>7, IdEdge DEF IrqAck, Mret, Decoding, PcSet, HaltId
    <3>2. due' = due /\ context' = context /\ idPc' = idPc /\ pcIf' = pcIf
      BY <2>2, <3>1, IdEdge
    <3>3. ctrl' = IF IrqTake THEN "IRQ_FLUSH" ELSE "FLUSH_EX"
      BY <2>7, Edge, ControllerWays
    <3>4. ~idValid'
      BY <3>1, Edge, IfIdStep
    <3>5. Holding /\ Holding'
      BY <2>3, <2>7, <3>2, <3>3 DEF Decoding
    <3> QED BY <2>1, <3>2, <3>3, <3>4, <3>5 DEF DueInv
  <2>8. CASE Decoding /\ ~IrqTake /\ ~Flushing(idPc)
    <3>1. (issue <=> Ready(answer)) /\ ~IrqAck /\ ~Mret /\ ~PcSet /\ ~HaltId /\ Holding
      BY <2>3, <2>8, IdEdge DEF IrqAck, Mret, Decoding, PcSet, HaltId
    <3>2. ctrl' = IF Kind(idPc) = "csr" /\ Ready(answer) THEN "FLUSH_EX" ELSE "DECODE"
      BY <2>8, Edge, ControllerWays DEF Ready
    <3>3. context' = context
      BY <2>2, <3>1
    <3>4. CASE Ready(answer)
      <4>1. due' = [due EXCEPT ![context] = Program[idPc].next]
        BY <2>2, <3>1, <3>4
      <4>2. due'[context'] = Program[idPc].next /\ pcIf \in Program[idPc].next
        BY <2>1, <3>1, <3>3, <4>1
      <4>3. CASE fetched
        <5>1. ctrl' = "DECODE" /\ idValid' /\ idPc' = pcIf /\ pcIf' \in Program[pcIf].next
          BY <2>8, <3>2, <4>3, IdEdge
        <5> QED BY <2>3, <4>2, <5>1 DEF DueInv
      <4>4. CASE ~fetched
        <5>1. idPc' = idPc /\ pcIf' = pcIf /\ ~idValid'
          BY <3>1, <3>4, <4>4, IdEdge
        <5>2. ~Holding' /\ ctrl' \in {"FLUSH_EX", "DECODE"}
          BY <2>3, <2>8, <3>2, <5>1
        <5> QED BY <4>2, <5>1, <5>2 DEF DueInv
      <4> QED BY <4>3, <4>4
    <3>5. CASE ~Ready(answer)
      <4>1. due' = due /\ ~fetched /\ ctrl' = "DECODE"
        BY <2>2, <3>1, <3>2, <3>5, IdEdge
      <4>2. idValid' /\ idPc' = idPc /\ pcIf' = pcIf
        BY <2>8, <3>1, <3>5, <4>1, IdEdge DEF Decoding
      <4> QED BY <2>1, <2>3, <3>1, <3>3, <4>1, <4>2 DEF DueInv
    <3> QED BY <3>4, <3>5
  <2>9. CASE ctrl = "IRQ_FLUSH"
    <3>1. ~issue /\ ~IrqAck /\ ~Mret /\ ~PcSet /\ ~fetched /\ Holding
      BY <2>3, <2>9, IdEdge DEF IrqAck, Mret, Decoding, PcSet
    <3>2. due' = due /\ context' = context /\ idPc' = idPc /\ pcIf' = pcIf /\ ~idValid'
      BY <2>1, <2>2, <2>9, <3>1, IdEdge
    <3>3. ctrl' = "IRQ_TAKEN_ID"
      BY <2>1, <2>9, Edge, ControllerWays
    <3> QED BY <2>1, <2>3, <3>1, <3>2, <3>3 DEF DueInv
  <2>10. CASE IrqAck
    <3>1. ~issue /\ ~Mret /\ PcSet /\ ~fetched
      BY <2>10, IdEdge DEF IrqAck, Mret, Decoding, PcSet
    <3>2. context' = "ISR" /\ due' = [due EXCEPT !["ISR"] = {Handler[irqId]}]
      BY <2>2, <2>10, <3>1
    <3>3. pcIf' = Handler[irqId] /\ ~idValid' /\ ctrl' = "DECODE"
      BY <2>1, <2>10, <3>1, Edge, ControllerWays, IdEdge DEF PcNew, IrqAck
    <3>4. due'["ISR"] = {Handler[irqId]}
      BY <2>1, <3>2 DEF Contexts
    <3> QED BY <2>3, <3>2, <3>3, <3>4 DEF DueInv
  <2>11. CASE ctrl = "FLUSH_EX" \/ (ctrl = "FLUSH_WB" /\ ~Flushing(idPc))
    <3>1. ~issue /\ ~IrqAck /\ ~Mret /\ ~PcSet /\ ~fetched
      BY <2>11, IdEdge DEF IrqAck, Mret, Decoding, PcSet
    <3>2. due' = due /\ context' = context /\ idPc' = idPc /\ pcIf' = pcIf /\ ~idValid'
      BY <2>1, <2>2, <2>11, <3>1, IdEdge
    <3>3. /\ ctrl = "FLUSH_EX" => ctrl' \in {"FLUSH_EX", "FLUSH_WB"}
          /\ ctrl = "FLUSH_WB" => ctrl' = "DECODE"
      BY <2>11, Edge, ControllerWays
    <3> QED BY <2>1, <2>3, <2>11, <3>2, <3>3 DEF DueInv
  <2>12. CASE ctrl = "FLUSH_WB" /\ Flushing(idPc)
    <3>1. issue /\ ~IrqAck /\ ~fetched /\ Holding
      BY <2>3, <2>12, IdEdge DEF IrqAck
    <3>2. due' = [due EXCEPT ![context] = Program[idPc].next]
      BY <2>2, <3>1
    <3>3. ~idValid' /\ idPc' = idPc /\ ctrl' \in {"WAIT_SLEEP", "DECODE"}
      BY <2>1, <2>12, <3>1, Edge, ControllerWays, IdEdge
    <3>4. CASE Mret
      <4>1. context = "ISR" /\ mepc \in due["MAIN"] /\ context' = "MAIN"
        BY <2>2, <3>1, <3>4, MretInHandler
      <4>2. pcIf' = mepc
        BY <2>12, <3>1, <3>4, IdEdge DEF PcSet, PcNew
      <4>3. due'["MAIN"] = due["MAIN"]
        BY <2>1, <3>2, <4>1 DEF Contexts
      <4> QED BY <2>3, <3>3, <4>1, <4>2, <4>3 DEF DueInv
    <3>5. CASE ~Mret
      <4>1. context' = context /\ pcIf' = pcIf
        BY <2>2, <2>12, <3>1, <3>5, IdEdge DEF PcSet
      <4>2. due'[context'] = Program[idPc].next
        BY <2>1, <3>2, <4>1
      <4> QED BY <2>1, <2>3, <3>1, <3>3, <4>1, <4>2 DEF DueInv
    <3> QED BY <3>4, <3>5
  <2> QED BY <2>2, <2>4, <2>5, <2>6, <2>7, <2>8, <2>9, <2>10, <2>11, <2>12
          DEF CtrlStates, Decoding, IrqAck
<1> QED BY <1>1, <1>2

\* EX: a csr access keeps its place, a store is followed in ID by its
\* successor, and a handler's store leaves EX before its mret ends.
LEMMA ExStep ==
    ASSUME SleepInv, OrderInv, NEW arrive \in BOOLEAN, NEW answer \in BOOLEAN,
           NEW fetched \in BOOLEAN, HistoryTick(arrive, answer, fetched)
    PROVE  ExInv'
<1>1. CASE ~CoreClocked
  BY <1>1, Edge DEF OrderInv, ExInv, coreVars, Kind
<1>2. CASE CoreClocked
  <2> USE <1>2
  <2>1. /\ Kind(exPc) = "csr" => exPc = idPc /\ due[context] = Program[exPc].next
        /\ "lsu" \in exUnits /\ exPc \in HandlerCode => context = "ISR"
        /\ "lsu" \in exUnits /\ idValid => idPc \in Program[exPc].next
        /\ context \in Contexts /\ due \in [Contexts -> SUBSET Addr]
        /\ Kind(exPc) = "csr" => ctrl = "FLUSH_EX"
    BY DEF OrderInv, ExInv, ContextInv, SleepInv, CoreInv, CsrInv
  <2>2. (Kind(exPc) = "csr")' <=> Kind(exPc') = "csr"
    BY DEF Kind
  <2>3. CASE ~Ready(answer)
    <3>1. exPc' = exPc /\ exUnits' = exUnits /\ ~fetched /\ idPc' = idPc
          /\ (idValid' => idValid)
      BY <2>3, Edge, IdExStep, IdEdge DEF Ready
    <3>2. Kind(exPc) = "csr" => context' = context /\ due' = due
      BY <2>1, <2>3, Edge, IdEdge DEF IrqAck, Mret, Decoding
    <3>3. context = "ISR" /\ "lsu" \in exUnits => context' = "ISR"
      <4>1. Mret => "lsu" \notin exUnits
        BY MretInHandler DEF OrderInv, DrainInv
      <4> QED BY <4>1, Edge
    <3> QED BY <2>1, <2>2, <3>1, <3>2, <3>3 DEF ExInv
  <2>4. CASE Ready(answer) /\ (HaltId \/ ~Decoding)
    BY <2>2, <2>4, Edge, IdExStep, KindFacts DEF Ready, ExInv
  <2>5. CASE Ready(answer) /\ ~HaltId /\ Decoding
    <3>1. exUnits' = UnitsOf(idPc) /\ exPc' = idPc
      BY <2>5, Edge, IdExStep DEF Ready
    <3>2. Issue(GntOf(answer), answer) /\ ~IrqAck /\ ~Mret
      BY <2>5 DEF Issue, Ready, IrqAck, Mret, Decoding
    <3>3. context' = context /\ due' = [due EXCEPT ![context] = Program[idPc].next]
      BY <3>2, Edge
    <3>4. due'[context'] = Program[idPc].next
      BY <2>1, <3>3
    <3>5. Kind(idPc) = "csr" => idPc' = idPc
      BY <2>5, IdEdge
    <3>6. idValid' => idPc' \in Program[idPc].next
      BY <2>5, <3>2, IssuedIsDue, IdEdge
    <3>7. idPc \in HandlerCode => context = "ISR"
      BY <2>1, <3>2, IssuedIsDue DEF CodeOf, Contexts
    <3> QED BY <2>2, <3>1, <3>3, <3>4, <3>5, <3>6, <3>7 DEF ExInv
  <2> QED BY <2>3, <2>4, <2>5
<1> QED BY <1>1, <1>2

\* Once the bus is idle under a flush or a sleep it stays so.
LEMMA DrainedStays ==
    ASSUME SleepInv, OrderInv, NEW arrive \in BOOLEAN, NEW answer \in BOOLEAN,
           NEW fetched \in BOOLEAN, HistoryTick(arrive, answer, fetched), Drained
    PROVE  /\ pathStage' = "IDLE" /\ "lsu" \notin exUnits' /\ Ready(answer)
           /\ AccessOf(arrive) = NoAccess
<1>1. pathStage = "IDLE" /\ "lsu" \notin exUnits /\ lsu = "IDLE"
  BY DEF OrderInv, DrainInv, SleepInv, AnswerExpected, SysTypeOK, CoreTypeOK
<1>2. ~DataReq(answer) /\ Ready(answer)
  BY <1>1 DEF DataReq, Ready, ExReady, LsuReadyEx, WbReady
<1>3. pathStage' = "IDLE" /\ ~arrive
  BY <1>1, <1>2, LineEdge
<1>4. "lsu" \notin exUnits'
  <2>1. CASE CoreClocked
    BY <2>1, <1>1, Edge, IdExStep DEF Drained, Decoding
  <2>2. CASE ~CoreClocked
    BY <2>2, <1>1, Edge DEF coreVars
  <2> QED BY <2>1, <2>2
<1> QED BY <1>2, <1>3, <1>4 DEF AccessOf

\* A flush waits for EX, and a store is never directly before it: so the bus
\* is idle when it ends.  A request that mie holds back is killed at its start.
LEMMA DrainStep ==
    ASSUME SleepInv, OrderInv, NEW arrive \in BOOLEAN, NEW answer \in BOOLEAN,
           NEW fetched \in BOOLEAN, HistoryTick(arrive, answer, fetched)
    PROVE  DrainInv'
<1>1. CASE ~CoreClocked
  <2>1. Drained /\ Drained' /\ Asleep /\ Asleep' /\ UNCHANGED coreVars
    BY <1>1, Edge DEF Drained, Asleep, coreVars
  <2>2. pathStage' = "IDLE" /\ "lsu" \notin exUnits'
    BY <2>1, DrainedStays
  <2> QED BY <2>1, <2>2 DEF OrderInv, DrainInv, coreVars
<1>2. CASE CoreClocked
  <2> USE <1>2
  <2>1. ctrl \in CtrlStates /\ Controller(FetchEnable, GntOf(answer), answer)
        /\ CoreTypeOK /\ irqOut \in SUBSET DOMAIN Handler
    BY Edge
  <2>2. /\ Drained' <=> \/ ctrl' \in {"RESET", "BOOT_SET", "WAIT_SLEEP", "SLEEP", "FIRST_FETCH"}
                        \/ ctrl' = "FLUSH_WB" /\ Flushing(idPc')
        /\ Asleep' <=> \/ ctrl' \in {"WAIT_SLEEP", "SLEEP"}
                       \/ ctrl' \in {"FLUSH_EX", "FLUSH_WB"} /\ Flushing(idPc')
    BY DEF Drained, Asleep, Flushing, Kind
  <2>3. \/ ctrl \in {"FLUSH_EX", "FLUSH_WB", "WAIT_SLEEP", "SLEEP"}
        \/ Decoding /\ Flushing(idPc)
        => ~fetched /\ idPc' = idPc /\ HaltId
    BY IdEdge DEF HaltId, Decoding
  <2>4. Drained' => \/ Drained
                    \/ ctrl = "FLUSH_EX" /\ Flushing(idPc) /\ ExValid(GntOf(answer), answer)
    <3>1. ctrl' \in {"RESET", "BOOT_SET"} => ctrl = "RESET"
      BY <2>1, ControllerSteps
    <3>2. ctrl' = "WAIT_SLEEP" => ctrl = "FLUSH_WB" /\ Flushing(idPc)
      BY <2>1, ControllerSteps, ControllerWays
    <3>3. ctrl' = "SLEEP" => ctrl \in {"WAIT_SLEEP", "SLEEP"}
      BY <2>1, ControllerSteps
    <3>4. ctrl' = "FIRST_FETCH" => ctrl \in {"BOOT_SET", "SLEEP", "FIRST_FETCH"}
      BY <2>1, ControllerWays, ControllerSteps DEF CtrlStates, IrqAck
    <3>5. ctrl' = "FLUSH_WB" /\ Flushing(idPc') =>
                ctrl = "FLUSH_EX" /\ Flushing(idPc) /\ ExValid(GntOf(answer), answer)
      BY <2>1, <2>3, ControllerSteps
    <3> QED BY <2>2, <3>1, <3>2, <3>3, <3>4, <3>5 DEF Drained
  <2>5. Asleep' => Asleep \/ (Decoding /\ ~IrqTake /\ Flushing(idPc))
    <3>1. ctrl' = "FLUSH_EX" /\ Flushing(idPc') =>
             \/ ctrl = "FLUSH_EX" /\ Flushing(idPc)
             \/ Decoding /\ ~IrqTake /\ Flushing(idPc)
      <4>1. ctrl' = "FLUSH_EX" => \/ ctrl = "FLUSH_EX"
                                  \/ Decoding /\ ~IrqTake /\ Flushing(idPc)
                                  \/ Decoding /\ ~IrqTake /\ Kind(idPc) = "csr"
        BY <2>1, ControllerSteps
      <4>2. Decoding /\ Kind(idPc) = "csr" => idPc' = idPc /\ ~Flushing(idPc)
        BY IdEdge DEF Flushing
      <4> QED BY <2>3, <4>1, <4>2
    <3>2. ctrl' = "FLUSH_WB" /\ Flushing(idPc') => ctrl = "FLUSH_EX" /\ Flushing(idPc)
      BY <2>1, <2>3, ControllerSteps
    <3>3. ctrl' = "WAIT_SLEEP" => ctrl = "FLUSH_WB" /\ Flushing(idPc)
      BY <2>1, ControllerSteps, ControllerWays
    <3>4. ctrl' = "SLEEP" => ctrl \in {"WAIT_SLEEP", "SLEEP"}
      BY <2>1, ControllerSteps
    <3> QED BY <2>2, <3>1, <3>2, <3>3, <3>4 DEF Asleep
  <2>6. Drained' => pathStage' = "IDLE" /\ "lsu" \notin exUnits'
    <3>1. CASE Drained
      BY <3>1, DrainedStays
    <3>2. CASE ctrl = "FLUSH_EX" /\ Flushing(idPc) /\ ExValid(GntOf(answer), answer)
      <4>1. "lsu" \notin exUnits /\ (lsu = "IDLE" \/ answer)
        BY <3>2 DEF OrderInv, DrainInv, Asleep, ExValid, ExReady, WbReady
      <4>2. pathStage = "IDLE" \/ answer
        BY <4>1 DEF SleepInv, AnswerExpected
      <4>3. pathStage' = "IDLE"
        BY <4>1, <4>2, LineEdge DEF DataReq
      <4>4. "lsu" \notin exUnits'
        BY <3>2, <4>1, <2>3, Edge, IdExStep
      <4> QED BY <4>3, <4>4
    <3> QED BY <2>4, <3>1, <3>2
  <2>7. CASE Asleep
    <3>1. HaltId /\ ctrl \in {"FLUSH_EX", "FLUSH_WB", "WAIT_SLEEP", "SLEEP"}
      BY <2>7, <2>3 DEF Asleep
    <3>2. "lsu" \notin exUnits'
      BY <2>7, <3>1, Edge, IdExStep DEF OrderInv, DrainInv
    <3>3. irqCtrl' = "IRQ_PENDING" => mie
      BY <2>7, Edge, InterruptControllerStep DEF OrderInv, DrainInv
    <3>4. Kind(exPc) # "csr"
      BY <2>7, <3>1 DEF OrderInv, ExInv, SleepInv, CoreInv, CsrInv, Asleep, Flushing
    <3>5. mie /\ irqCtrl' = "IRQ_PENDING" => mie'
      <4>1. ~IrqAck
        BY <3>1 DEF IrqAck
      <4>2. Mret => ~mie
        BY MretInHandler DEF OrderInv, ContextInv
      <4> QED BY <3>4, <4>1, <4>2, Edge, CsrStep DEF CoreInv, PipelineInv
    <3> QED BY <2>6, <3>2, <3>3, <3>5 DEF DrainInv
  <2>8. CASE Decoding /\ ~IrqTake /\ Flushing(idPc)
    <3>1. "lsu" \notin exUnits
      <4> SUFFICES ASSUME "lsu" \in exUnits PROVE FALSE
        OBVIOUS
      <4>1. exPc \in Addr /\ Kind(exPc) = "store" /\ idPc \in Program[exPc].next
        BY <2>8, KindFacts DEF SleepInv, CoreInv, PipelineInv, OrderInv, ExInv, Decoding
      <4> QED BY <2>8, <4>1, ProgramDiscipline
    <3>2. "lsu" \notin exUnits'
      BY <2>3, <2>8, <3>1, Edge, IdExStep
    <3>3. irqCtrl' = "IRQ_PENDING" => mie
      BY <2>8, Edge, InterruptControllerStep DEF IrqKill, IrqTake, IrqReq
    <3>4. Kind(exPc) # "csr" /\ ~IrqAck /\ ~Mret
      BY <2>8 DEF SleepInv, CoreInv, CsrInv, Decoding, IrqAck, Mret
    <3>5. mie' = mie
      BY <3>4, Edge, CsrStep DEF CoreInv, PipelineInv
    <3> QED BY <2>6, <3>2, <3>3, <3>5 DEF DrainInv
  <2> QED BY <2>5, <2>6, <2>7, <2>8 DEF DrainInv
<1> QED BY <1>1, <1>2

\* Without an access the fetch enable that started or woke the core stays up:
\* the pin is never taken back, and an event clears the sleep bit.
LEMMA FetchStays ==
    ASSUME SleepInv, OrderInv, NEW arrive \in BOOLEAN, NEW answer \in BOOLEAN,
           NEW fetched \in BOOLEAN, HistoryTick(arrive, answer, fetched),
           AccessOf(arrive) = NoAccess, FetchEnable
    PROVE  FetchEnable'
<1>1. SleepWriteOf(AccessOf(arrive)) = NoSleepWrite
  BY DEF SleepWriteOf, NoAccess
<1>2. SleepCycle(IrqUp, EventUp, CoreBusy, NoSleepWrite) /\ fetchFf2' = fetchFf1
  BY <1>1 DEF HistoryTick, Tick, EventUnitCycle, AccessOf
<1>3. fetchFf2 /\ sleepState = "RUN" /\ (sleepEnable => EventUp)
  BY DEF FetchEnable, FetchEn
<1>4. sleepState' = "RUN" /\ ~sleepEnable'
  BY <1>2, <1>3 DEF SleepCycle, Run, Shutdown, Sleep, SleepRegs, NoSleepWrite
<1>5. fetchFf2'
  BY <1>2, <1>3 DEF OrderInv, FetchInv
<1> QED BY <1>4, <1>5 DEF FetchEnable, FetchEn

\* The core leaves its reset and its sleep only for instructions or a handler.
LEMMA FetchStep ==
    ASSUME SleepInv, OrderInv, NEW arrive \in BOOLEAN, NEW answer \in BOOLEAN,
           NEW fetched \in BOOLEAN, HistoryTick(arrive, answer, fetched)
    PROVE  FetchInv'
<1>1. (fetchFf2' => fetchFf1') /\ (fetchFf1' => fetchPin')
  BY DEF HistoryTick, Tick, EventUnitCycle, OrderInv, FetchInv
<1>2. CASE ~CoreClocked
  BY <1>1, <1>2, Edge DEF coreVars, FetchInv
<1>3. CASE CoreClocked
  <2> USE <1>3
  <2>1. ctrl \in CtrlStates /\ Controller(FetchEnable, GntOf(answer), answer)
        /\ CoreTypeOK /\ irqOut \in SUBSET DOMAIN Handler
    BY Edge
  <2>2. ctrl' = "BOOT_SET" => FetchEnable'
    <3> SUFFICES ASSUME ctrl' = "BOOT_SET" PROVE FetchEnable'
      OBVIOUS
    <3>1. ctrl = "RESET" /\ FetchEnable
      BY <2>1, ControllerSteps, ControllerWays
    <3> QED BY <3>1, DrainedStays, FetchStays DEF Drained
  <2>3. ctrl' = "FIRST_FETCH" => FetchEnable' \/ IrqTake'
    <3> SUFFICES ASSUME ctrl' = "FIRST_FETCH" PROVE FetchEnable' \/ IrqTake'
      OBVIOUS
    <3>1. ctrl \in {"BOOT_SET", "SLEEP", "FIRST_FETCH"}
      BY <2>1, ControllerWays, ControllerSteps DEF CtrlStates, IrqAck
    <3>2. Drained
      BY <3>1 DEF Drained
    <3>3. ctrl # "FIRST_FETCH"
      BY <2>1, <3>2, DrainedStays, ControllerWays DEF Ready
    <3>4. ctrl = "BOOT_SET" => FetchEnable
      BY DEF OrderInv, FetchInv
    <3>5. ctrl = "SLEEP" => FetchEnable \/ IrqReq
      BY <2>1, ControllerWays
    <3>6. CASE FetchEnable
      BY <3>2, <3>6, DrainedStays, FetchStays
    <3>7. CASE ctrl = "SLEEP" /\ IrqReq
      <4>1. mie /\ irqCtrl = "IRQ_PENDING"
        BY <3>7 DEF OrderInv, DrainInv, Asleep, IrqReq
      <4>2. ~IrqAck /\ ~IrqKill /\ ~Mret /\ Kind(exPc) # "csr"
        BY <3>7 DEF IrqAck, IrqKill, Decoding, Mret, SleepInv, CoreInv, CsrInv
      <4>3. irqCtrl' = "IRQ_PENDING"
        BY <4>1, <4>2, Edge, InterruptControllerStep
      <4>4. mie' = mie
        BY <4>2, Edge, CsrStep DEF CoreInv, PipelineInv
      <4> QED BY <4>1, <4>3, <4>4 DEF IrqTake, IrqReq
    <3> QED BY <3>1, <3>3, <3>4, <3>5, <3>6, <3>7
  <2> QED BY <1>1, <2>2, <2>3 DEF FetchInv
<1> QED BY <1>2, <1>3

\* No line leaves PENDING while main runs: a handler's store holds the
\* pipeline until it has acted and irq_o has followed, and only then can mret
\* give control back.
LEMMA LineStep ==
    ASSUME SleepInv, OrderInv, NEW arrive \in BOOLEAN, NEW answer \in BOOLEAN,
           NEW fetched \in BOOLEAN, HistoryTick(arrive, answer, fetched)
    PROVE  LineInv'
<1>1. /\ LinesLeaving => context = "ISR"
      /\ pathStage # "SEND_B" => irqRegs["CLEAR_PENDING"] = {}
      /\ pathStage \notin {"SEND_B", "RESPONSE"} => irqOut \subseteq irqRegs["PENDING"]
      /\ irqCtrl = "IRQ_PENDING" => irqId \in irqRegs["PENDING"]
  BY DEF OrderInv, LineInv
<1>2. pathStage' # "SEND_B" => irqRegs["CLEAR_PENDING"]' = {}
  BY LineEdge
<1>3. pathStage # "SEND_B" /\ ~arrive => irqRegs["PENDING"] \subseteq irqRegs'["PENDING"]
  BY <1>1, LineEdge
<1>4. pathStage' \notin {"SEND_B", "RESPONSE"} => irqOut' \subseteq irqRegs'["PENDING"]
  <2> SUFFICES ASSUME pathStage' \notin {"SEND_B", "RESPONSE"}
               PROVE  irqOut' \subseteq irqRegs'["PENDING"]
    OBVIOUS
  <2>1. pathStage # "SEND_B" /\ ~arrive
    <3>1. pathStage' \in {"REQUEST", "IDLE"}
      BY Edge DEF SleepInv, SysTypeOK, PathTypeOK, Stages
    <3> QED BY <3>1, LineEdge
  <2> QED BY <1>3, <2>1, LineEdge
<1>5. LinesLeaving' => context' = "ISR"
  <2>1. CASE Mret /\ CoreClocked
    <3>1. Drained /\ pathStage = "IDLE" /\ pathStage' = "IDLE" /\ "lsu" \notin exUnits'
      BY <2>1, MretInHandler, DrainedStays DEF OrderInv, DrainInv
    <3> QED BY <1>2, <1>4, <3>1 DEF LinesLeaving
  <2>2. CASE ~(Mret /\ CoreClocked)
    <3>1. context = "ISR" => context' = "ISR"
      BY <2>2, Edge
    <3>2. ASSUME "lsu" \in exUnits', TakesLines(Program[exPc'].arg) PROVE context' = "ISR"
      <4>1. exPc' \in Addr /\ Kind(exPc') = "store"
        BY <3>2, Edge, KindFacts DEF CoreInv, PipelineInv
      <4>2. exPc' \in HandlerCode
        BY <3>2, <4>1, ProgramDiscipline
      <4> QED BY <3>2, <4>2, ExStep DEF ExInv
    <3>3. ASSUME pathStage' = "REQUEST", TakesLines(pathOp') PROVE LinesLeaving
      BY <3>3, LineEdge DEF LinesLeaving, DataReq
    <3>4. ASSUME irqRegs'["CLEAR_PENDING"] # {} PROVE LinesLeaving
      BY <3>4, LineEdge DEF LinesLeaving
    <3>5. ASSUME ~(irqOut' \subseteq irqRegs'["PENDING"]) PROVE LinesLeaving
      BY <3>5, LineEdge DEF LinesLeaving
    <3> QED BY <1>1, <3>1, <3>2, <3>3, <3>4, <3>5 DEF LinesLeaving
  <2> QED BY <2>1, <2>2
<1>6. irqCtrl' = "IRQ_PENDING" => irqId' \in irqRegs'["PENDING"]
  <2> SUFFICES ASSUME irqCtrl' = "IRQ_PENDING" PROVE irqId' \in irqRegs'["PENDING"]
    OBVIOUS
  <2>1. CASE ~CoreClocked
    BY <2>1, Edge DEF coreVars
  <2>2. CASE CoreClocked
    <3>1. \/ irqCtrl = "IDLE" /\ mie /\ irqId' \in irqOut
          \/ irqCtrl = "IRQ_PENDING" /\ irqId' = irqId
      BY <2>2, Edge DEF InterruptController, CoreTypeOK
    <3>2. context # "ISR"
      BY <3>1 DEF OrderInv, ContextInv
    <3>3. ~LinesLeaving
      BY <1>1, <3>2
    <3>4. irqId' \in irqRegs["PENDING"]
      BY <1>1, <3>1, <3>3 DEF LinesLeaving
    <3>5. irqRegs["PENDING"] \subseteq irqRegs'["PENDING"]
      BY <3>3, LineEdge DEF LinesLeaving
    <3> QED BY <3>4, <3>5
  <2> QED BY <2>1, <2>2
<1> QED BY <1>2, <1>4, <1>5, <1>6 DEF LineInv

-----------------------------------------------------------------------------
\* Init establishes the invariant.
LEMMA OrderInit == SysInit /\ HistoryInit => OrderInv
<1> SUFFICES ASSUME SysInit, HistoryInit PROVE OrderInv
  OBVIOUS
<1>1. /\ ctrl = "RESET" /\ irqCtrl = "IDLE" /\ pcIf = Boot /\ idValid = FALSE
      /\ exUnits = {} /\ exPc = NoInstr /\ pathStage = "IDLE"
      /\ irqOut = {} /\ irqRegs["CLEAR_PENDING"] = {}
      /\ fetchFf1 = FALSE /\ fetchFf2 = FALSE
      /\ context = "MAIN" /\ due = [MAIN |-> {Boot}, ISR |-> {}]
  BY DEF SysInit, CoreInit, PathInit, EventUnitInit, IrqUnit!Init, IrqUnit!Registers,
         HistoryInit
<1>2. Boot \in Addr /\ Boot \notin HandlerCode
  BY ProgramAssumption, ProgramDiscipline
<1>3. due \in [Contexts -> SUBSET Addr] /\ due["MAIN"] = {Boot} /\ due["ISR"] = {}
  BY <1>1, <1>2 DEF Contexts
<1>4. ContextInv
  BY <1>1, <1>2, <1>3 DEF ContextInv, Contexts, CodeOf, IrqAck
<1>5. DueInv
  BY <1>1, <1>3 DEF DueInv, Holding
<1> QED BY <1>1, <1>4, <1>5 DEF OrderInv, ExInv, DrainInv, FetchInv, LineInv, LinesLeaving,
        Asleep, Kind

\* A step of the history specification preserves both invariants.
LEMMA OrderNext ==
    SleepInv /\ OrderInv
        /\ [\E arrive, answer, fetched \in BOOLEAN :
                HistoryTick(arrive, answer, fetched)]_<<sysVars, historyVars>>
        => SleepInv' /\ OrderInv'
<1> SUFFICES ASSUME SleepInv, OrderInv,
                    [\E arrive, answer, fetched \in BOOLEAN :
                        HistoryTick(arrive, answer, fetched)]_<<sysVars, historyVars>>
             PROVE  SleepInv' /\ OrderInv'
  OBVIOUS
<1>1. ASSUME NEW arrive \in BOOLEAN, NEW answer \in BOOLEAN, NEW fetched \in BOOLEAN,
             HistoryTick(arrive, answer, fetched)
      PROVE  SleepInv' /\ OrderInv'
  BY <1>1, Edge, ContextStep, DueStep, ExStep, DrainStep, FetchStep, LineStep DEF OrderInv
<1>2. CASE UNCHANGED <<sysVars, historyVars>>
  <2>1. UNCHANGED sysVars /\ UNCHANGED historyVars
    BY <1>2
  <2>2. SleepInv'
    BY <2>1, SleepInvNext
  <2>3. ContextInv' /\ DueInv' /\ ExInv'
    BY <2>1 DEF OrderInv, ContextInv, DueInv, ExInv, sysVars, historyVars, coreVars,
       Holding, Flushing, Kind, IrqAck
  <2>4. DrainInv' /\ FetchInv' /\ LineInv'
    BY <2>1 DEF OrderInv, DrainInv, FetchInv, LineInv, sysVars, historyVars, coreVars,
       pathVars, eventUnitVars, sleepVars, Drained, Asleep, Flushing, Kind, LinesLeaving,
       FetchEnable, FetchEn, EventUp, IrqTake, IrqReq
  <2> QED BY <2>2, <2>3, <2>4 DEF OrderInv
<1> QED BY <1>1, <1>2

\* OrderInv holds in every reachable state.
THEOREM OrderInvHolds == HistorySpec => [](SleepInv /\ OrderInv)
<1>1. SysInit /\ HistoryInit => SleepInv /\ OrderInv
  BY SleepInvInit, OrderInit
<1> QED BY <1>1, OrderNext, PTL DEF HistorySpec

\* Main and the handlers each execute their own instructions one after the
\* other, none dropped and none repeated, asleep or interrupted as they may be.
THEOREM ProgramsInOrder == HistorySpec => []ProgramOrder
<1>1. OrderInv => ProgramOrder
  BY DEF OrderInv, DueInv, Holding, Decoding, ProgramOrder
<1> QED BY <1>1, OrderInvHolds, PTL

\* A handler is never interrupted, so mepc and mpie lose no context.
THEOREM HandlersDoNotNest == HistorySpec => []NoNesting
<1>1. OrderInv => NoNesting
  BY DEF OrderInv, ContextInv, Contexts, NoNesting
<1> QED BY <1>1, OrderInvHolds, PTL

\* A handler is entered only for a line that is pending at that moment.
THEOREM NoHandlerForNothing == HistorySpec => []NoStaleInterrupt
<1>1. OrderInv => NoStaleInterrupt
  BY DEF OrderInv, ContextInv, LineInv, NoStaleInterrupt
<1> QED BY <1>1, OrderInvHolds, PTL

\* A core that wakes without its fetch enabled wakes for a handler.
THEOREM WakesForItsHandler == HistorySpec => []WokenForInterrupt
<1>1. OrderInv => WokenForInterrupt
  BY DEF OrderInv, FetchInv, WokenForInterrupt
<1> QED BY <1>1, OrderInvHolds, PTL

-----------------------------------------------------------------------------
(* Pulses and the last int_disable.                                        *)

\* An access that takes lines out of PENDING holds the pipeline: until its
\* answer is back, the read of the cause that is next stays next.
LEMMA ReadNextStays ==
    ASSUME SleepInv, OrderInv, PulseInv, NEW arrive \in BOOLEAN, NEW answer \in BOOLEAN,
           NEW fetched \in BOOLEAN, HistoryTick(arrive, answer, fetched),
           LinesLeaving, pathStage' # "IDLE" \/ ~Ready(answer)
    PROVE  ReadNext'
<1>1. context = "ISR" /\ (due["ISR"] = {"isr_switch"} \/ exPc = "isr_switch")
  BY DEF PulseInv, ReadNext
<1>2. CASE ~CoreClocked
  BY <1>1, <1>2, Edge DEF ReadNext, coreVars
<1>3. CASE CoreClocked
  <2> USE <1>3
  <2>1. due \in [Contexts -> SUBSET Addr] /\ ~IrqAck
    BY <1>1 DEF OrderInv, ContextInv
  <2>2. ~Drained
    BY DrainedStays
  <2>3. context' = "ISR" /\ ~Mret
    BY <1>1, <2>1, <2>2, MretInHandler, Edge
  <2>4. Issue(GntOf(answer), answer) <=> Decoding /\ ~HaltId /\ Ready(answer)
    BY <2>2, IdEdge DEF Drained, HaltId, Decoding
  <2>5. CASE ~Ready(answer)
    <3>1. due' = due
      BY <2>1, <2>4, <2>5, Edge
    <3>2. exPc' = exPc
      BY <2>5, Edge, IdExStep DEF Ready
    <3> QED BY <1>1, <2>3, <3>1, <3>2 DEF ReadNext
  <2>6. CASE Ready(answer)
    <3>1. pathStage' # "IDLE"
      BY <2>6
    <3>2. pathStage = "IDLE"
      <4> SUFFICES ASSUME pathStage # "IDLE" PROVE FALSE
        OBVIOUS
      <4>1. lsu = "WAIT_RVALID" /\ ~answer
        BY <3>1, LineEdge DEF SleepInv, AnswerExpected
      <4> QED BY <2>6, <4>1 DEF Ready, ExReady, WbReady
    <3>3. "lsu" \in exUnits /\ TakesLines(Program[exPc].arg)
      BY <3>2 DEF LinesLeaving, OrderInv, LineInv
    <3>4. exPc = "isr_clear"
      BY <3>3, KindFacts, HandlerDiscipline DEF SleepInv, CoreInv, PipelineInv
    <3>5. due["ISR"] = {"isr_switch"}
      BY <1>1, <3>4
    <3>6. CASE Issue(GntOf(answer), answer)
      <4>1. idPc = "isr_switch"
        BY <1>1, <3>5, <3>6, IssuedIsDue
      <4>2. exPc' = idPc
        BY <2>4, <2>6, <3>6, Edge, IdExStep DEF Ready
      <4> QED BY <2>3, <4>1, <4>2 DEF ReadNext
    <3>7. CASE ~Issue(GntOf(answer), answer)
      BY <2>1, <2>3, <3>5, <3>7, Edge DEF ReadNext
    <3> QED BY <3>6, <3>7
  <2> QED BY <2>5, <2>6
<1> QED BY <1>2, <1>3

\* A handler on its way to the cause goes on to it.
LEMMA ReadAheadStays ==
    ASSUME SleepInv, OrderInv, NEW arrive \in BOOLEAN, NEW answer \in BOOLEAN,
           NEW fetched \in BOOLEAN, HistoryTick(arrive, answer, fetched),
           ReadAhead, ~Reads(GntOf(answer), answer)
    PROVE  ReadAhead'
<1>1. context = "ISR" /\ (due["ISR"] \subseteq BeforeRead \/ exPc = "isr_switch")
  BY DEF ReadAhead
<1>2. CASE ~CoreClocked
  BY <1>1, <1>2, Edge DEF ReadAhead, coreVars
<1>3. CASE CoreClocked
  <2> USE <1>3
  <2>1. due \in [Contexts -> SUBSET Addr] /\ ~IrqAck
    BY <1>1 DEF OrderInv, ContextInv
  <2>2. "isr_switch" \in Addr /\ "isr_switch" # NoInstr
    BY HandlerDiscipline, ProgramDiscipline, ProgramFacts DEF BeforeRead
  <2>3. ctrl = "FLUSH_WB" => exPc = NoInstr
    BY DEF SleepInv, CoreInv, FlushInv
  <2>4. ~(ctrl = "FLUSH_WB" /\ Flushing(idPc))
    <3> SUFFICES ASSUME ctrl = "FLUSH_WB", Flushing(idPc) PROVE FALSE
      OBVIOUS
    <3>1. idPc \in due["ISR"] /\ due["ISR"] \subseteq BeforeRead
      BY <1>1, <2>2, <2>3 DEF OrderInv, DueInv, Holding
    <3> QED BY <3>1, HandlerDiscipline
  <2>5. context' = "ISR"
    BY <1>1, <2>1, <2>4, Edge DEF Mret, Flushing
  <2>6. Issue(GntOf(answer), answer) <=> Decoding /\ ~HaltId /\ Ready(answer)
    BY <2>4, IdEdge DEF HaltId, Decoding
  <2>7. CASE exPc = "isr_switch"
    <3>1. ~Ready(answer)
      BY <2>7 DEF Reads, Ready
    <3> QED BY <2>5, <2>7, <3>1, Edge, IdExStep DEF ReadAhead, Ready
  <2>8. CASE exPc # "isr_switch" /\ Issue(GntOf(answer), answer)
    <3>1. idPc \in BeforeRead
      BY <1>1, <2>8, IssuedIsDue
    <3>2. due' = [due EXCEPT !["ISR"] = Program[idPc].next]
      BY <1>1, <2>1, <2>8, Edge
    <3>3. due'["ISR"] = Program[idPc].next
      BY <2>1, <3>2 DEF Contexts
    <3>4. CASE idPc = "isr_switch"
      <4>1. exPc' = idPc
        BY <2>6, <2>8, Edge, IdExStep DEF Ready
      <4> QED BY <2>5, <3>4, <4>1 DEF ReadAhead
    <3>5. CASE idPc # "isr_switch"
      BY <2>5, <3>1, <3>3, <3>5, HandlerDiscipline DEF BeforeRead, ReadAhead
    <3> QED BY <3>4, <3>5
  <2>9. CASE exPc # "isr_switch" /\ ~Issue(GntOf(answer), answer)
    BY <1>1, <2>1, <2>5, <2>9, Edge DEF ReadAhead
  <2> QED BY <2>7, <2>8, <2>9
<1> QED BY <1>2, <1>3

\* A pulse becomes pending, or it comes in the cycle in which a handler's
\* clear acts, and then the read of the cause is still to come.
LEMMA OwedStep ==
    ASSUME SleepInv, OrderInv, PulseInv, NEW arrive \in BOOLEAN, NEW answer \in BOOLEAN,
           NEW fetched \in BOOLEAN, HistoryTick(arrive, answer, fetched)
    PROVE  PulseInv'
<1>1. ReadNext => ReadAhead
  BY DEF ReadNext, ReadAhead, BeforeRead
<1>2. ReadNext' => ReadAhead'
  BY DEF ReadNext, ReadAhead, BeforeRead
<1>3. ASSUME irqRegs["CLEAR_PENDING"] # {} \/ (arrive /\ TakesLines(pathOp))
      PROVE  ReadNext'
  <2>1. LinesLeaving
    BY <1>3, LineEdge DEF LinesLeaving
  <2>2. pathStage' # "IDLE"
    BY <1>3, LineEdge DEF OrderInv, LineInv
  <2> QED BY <2>1, <2>2, ReadNextStays
<1>4. LinesLeaving' => ReadNext'
  <2> SUFFICES ASSUME LinesLeaving' PROVE ReadNext'
    OBVIOUS
  <2>1. context' = "ISR"
    BY LineStep DEF LineInv
  <2>2. CASE "lsu" \in exUnits' /\ TakesLines(Program[exPc'].arg)
    <3>1. exPc' \in Addr /\ Kind(exPc') = "store"
      BY <2>2, Edge, KindFacts DEF CoreInv, PipelineInv
    <3>2. exPc' = "isr_clear"
      BY <2>2, <3>1, HandlerDiscipline
    <3>3. CASE CoreClocked /\ Ready(answer)
      <4>1. Decoding /\ ~HaltId /\ exPc' = idPc
        BY <2>2, <3>3, Edge, IdExStep, <3>1, ProgramFacts DEF Ready
      <4>2. Issue(GntOf(answer), answer) /\ ~IrqAck /\ ~Mret
        BY <3>3, <4>1 DEF Issue, Ready, Decoding, IrqAck, Mret
      <4>3. context = "ISR" /\ due' = [due EXCEPT !["ISR"] = Program[idPc].next]
        BY <2>1, <3>3, <4>2, Edge
      <4>4. due'["ISR"] = {"isr_switch"}
        BY <3>2, <4>1, <4>3, HandlerDiscipline DEF OrderInv, ContextInv, Contexts
      <4> QED BY <2>1, <4>4 DEF ReadNext
    <3>4. CASE ~(CoreClocked /\ Ready(answer))
      <4>1. exPc' = exPc /\ exUnits' = exUnits
        BY <3>4, Edge, IdExStep DEF Ready, coreVars
      <4>2. LinesLeaving
        BY <2>2, <4>1 DEF LinesLeaving
      <4>3. CASE CoreClocked
        BY <3>4, <4>2, <4>3, ReadNextStays
      <4>4. CASE ~CoreClocked
        BY <4>2, <4>4, Edge DEF PulseInv, ReadNext, coreVars
      <4> QED BY <4>3, <4>4
    <3> QED BY <3>3, <3>4
  <2>3. CASE pathStage' = "REQUEST" /\ TakesLines(pathOp')
    <3>1. LinesLeaving
      BY <2>3, LineEdge DEF LinesLeaving, DataReq
    <3> QED BY <2>3, <3>1, ReadNextStays
  <2>4. CASE irqRegs'["CLEAR_PENDING"] # {}
    BY <1>3, <2>4, LineEdge
  <2>5. CASE ~(irqOut' \subseteq irqRegs'["PENDING"])
    BY <1>3, <2>5, LineEdge
  <2> QED BY <2>2, <2>3, <2>4, <2>5 DEF LinesLeaving
<1>5. owed' => TimerLine \in irqRegs'["PENDING"] \/ ReadAhead'
  <2> SUFFICES ASSUME owed', ~ReadAhead' PROVE TimerLine \in irqRegs'["PENDING"]
    OBVIOUS
  <2>1. /\ irqRegs["CLEAR_PENDING"] = {} /\ ~(arrive /\ TakesLines(pathOp))
        /\ irqRegs["PENDING"] \subseteq irqRegs'["PENDING"]
    BY <1>2, <1>3, LineEdge
  <2>2. CASE timerIrq /\ TimerLine \in irqRegs["ENABLE"]
    BY <2>1, <2>2, PulseEdge
  <2>3. CASE owed /\ ~Reads(GntOf(answer), answer)
    BY <2>1, <2>3, ReadAheadStays DEF PulseInv
  <2> QED BY <2>2, <2>3 DEF HistoryTick, GntOf
<1> QED BY <1>4, <1>5 DEF PulseInv

\* Past the last int_disable mie stays clear: only the next instruction of
\* main moves on, and no handler runs that could restore it.
LEMMA EndStep ==
    ASSUME SleepInv, OrderInv, EndInv, NEW arrive \in BOOLEAN, NEW answer \in BOOLEAN,
           NEW fetched \in BOOLEAN, HistoryTick(arrive, answer, fetched)
    PROVE  EndInv'
<1>1. CASE ~CoreClocked
  BY <1>1, Edge DEF EndInv, coreVars, Disabling, Kind
<1>2. CASE CoreClocked
  <2> USE <1>2
  <2> SUFFICES ASSUME "loop_end" \in due'["MAIN"]
               PROVE  context' = "MAIN" /\ (mie' => Kind(exPc') = "csr"
                                            /\ Program[exPc'].arg = "DISABLE")
    BY DEF EndInv, Disabling, Kind
  <2>1. due \in [Contexts -> SUBSET Addr] /\ context \in Contexts
    BY DEF OrderInv, ContextInv
  <2>2. ASSUME "loop_end" \in due["MAIN"]
        PROVE  context' = "MAIN" /\ ~mie'
    <3>1. context = "MAIN" /\ (mie => Kind(exPc) = "csr" /\ Program[exPc].arg = "DISABLE")
      BY <2>2 DEF EndInv, Disabling
    <3>2. ~IrqAck
      BY <3>1 DEF SleepInv, CoreInv, TakenOnlyEnabled, CsrInv, IrqAck
    <3>3. ~Mret
      BY <3>1, MretInHandler
    <3>4. context' = "MAIN"
      BY <3>1, <3>2, <3>3, Edge
    <3>5. CASE Kind(exPc) = "csr"
      <4>1. exPc \in Addr /\ "loop_end" \in Program[exPc].next
        BY <2>2, <3>1, <3>5, Edge, KindFacts DEF OrderInv, ExInv, CoreTypeOK
      <4>2. Program[exPc].arg = "DISABLE"
        BY <3>5, <4>1, EndDiscipline
      <4> QED BY <3>2, <3>3, <3>4, <3>5, <4>2, Edge
              DEF CsrRegisters, NextMie, CsrWrite, WrittenMie
    <3>6. CASE Kind(exPc) # "csr"
      BY <3>1, <3>2, <3>3, <3>4, <3>6, Edge DEF CsrRegisters, NextMie, CsrWrite
    <3> QED BY <3>5, <3>6
  <2>3. CASE "loop_end" \in due["MAIN"]
    BY <2>2, <2>3
  <2>4. CASE "loop_end" \notin due["MAIN"]
    <3>1. context = "MAIN" /\ Issue(GntOf(answer), answer) /\ ~IrqAck
      BY <2>1, <2>4, Edge DEF Contexts, IrqAck, Issue, Decoding
    <3>2. due' = [due EXCEPT !["MAIN"] = Program[idPc].next]
      BY <3>1, Edge
    <3>3. idPc \in Addr /\ idPc \in due["MAIN"] /\ "loop_end" \in Program[idPc].next
      BY <2>1, <3>1, <3>2, IssuedIsDue DEF Contexts
    <3>4. Kind(idPc) = "csr" /\ Program[idPc].arg = "DISABLE"
      BY <2>4, <3>3, EndDiscipline
    <3>5. Decoding /\ ~HaltId /\ Ready(answer) /\ ~Mret
      BY <3>1, <3>4, IdEdge DEF Flushing, HaltId, Decoding
    <3>6. exPc' = idPc /\ context' = "MAIN"
      BY <3>1, <3>5, Edge, IdExStep DEF Ready
    <3> QED BY <3>4, <3>6
  <2> QED BY <2>3, <2>4
<1> QED BY <1>1, <1>2

\* The two invariants hold with OrderInv in every reachable state.
LEMMA PulseAndEndHold == HistorySpec => [](SleepInv /\ OrderInv /\ PulseInv /\ EndInv)
<1> DEFINE Inv  == SleepInv /\ OrderInv /\ PulseInv /\ EndInv
           Next == \E arrive, answer, fetched \in BOOLEAN :
                        HistoryTick(arrive, answer, fetched)
<1>1. SysInit /\ HistoryInit => Inv
  <2> SUFFICES ASSUME SysInit, HistoryInit PROVE PulseInv /\ EndInv
    BY SleepInvInit, OrderInit
  <2>1. ~LinesLeaving /\ context = "MAIN"
    BY OrderInit, SleepInvInit DEF HistoryInit, OrderInv, LineInv
  <2>2. due["MAIN"] = {Boot} /\ owed = FALSE
    BY DEF HistoryInit
  <2> QED BY <2>1, <2>2, EndDiscipline DEF PulseInv, EndInv
<1>2. Inv /\ [Next]_<<sysVars, historyVars>> => Inv'
  <2> SUFFICES ASSUME Inv, [Next]_<<sysVars, historyVars>> PROVE Inv'
    OBVIOUS
  <2>1. ASSUME NEW arrive \in BOOLEAN, NEW answer \in BOOLEAN, NEW fetched \in BOOLEAN,
               HistoryTick(arrive, answer, fetched)
        PROVE  PulseInv' /\ EndInv'
    BY <2>1, OwedStep, EndStep
  <2>2. ASSUME UNCHANGED <<sysVars, historyVars>> PROVE PulseInv' /\ EndInv'
    <3>1. PulseInv'
      BY <2>2 DEF PulseInv, ReadNext, ReadAhead, LinesLeaving, sysVars, historyVars,
         coreVars, pathVars, eventUnitVars
    <3>2. EndInv'
      BY <2>2 DEF EndInv, Disabling, Kind, sysVars, historyVars, coreVars
    <3> QED BY <3>1, <3>2
  <2>3. PulseInv' /\ EndInv'
    BY <2>1, <2>2
  <2> QED BY <2>3, OrderNext
<1> QED BY <1>1, <1>2, PTL DEF HistorySpec

\* A pulse of the timer on an enabled line stays pending until a handler that
\* will still read the cause has taken it, whenever the pulse comes.
THEOREM PulsesReachTheirHandler == HistorySpec => []NoLostPulse
<1>1. SleepInv /\ OrderInv /\ ReadAhead => HandlerWillRead
  <2> SUFFICES ASSUME SleepInv, OrderInv, ReadAhead, exPc # "isr_switch"
               PROVE  HandlerWillRead
    BY DEF HandlerWillRead, BeforeRead
  <2>1. context = "ISR" /\ due["ISR"] \subseteq BeforeRead
    BY DEF ReadAhead
  <2>2. CASE ~Holding
    BY <2>1, <2>2 DEF OrderInv, DueInv, HandlerWillRead
  <2>3. CASE Holding
    <3>1. idPc \in BeforeRead /\ ~Flushing(idPc)
      BY <2>1, <2>3, HandlerDiscipline DEF OrderInv, DueInv
    <3>2. ctrl \notin {"IRQ_FLUSH", "IRQ_TAKEN_ID"}
      BY <2>1 DEF OrderInv, ContextInv, SleepInv, CoreInv, NoInstructionDropped,
                  IrqTake, IrqReq, IrqAck
    <3> QED BY <2>3, <3>1, <3>2 DEF Holding, HandlerWillRead
  <2> QED BY <2>2, <2>3
<1>2. SleepInv /\ OrderInv /\ PulseInv => NoLostPulse
  BY <1>1 DEF PulseInv, NoLostPulse
<1> QED BY <1>2, PulseAndEndHold, PTL

\* No interrupt returns behind int_disable, however early it was latched.
THEOREM DisabledForGood == HistorySpec => []DisableIsFinal
<1>1. SleepInv /\ EndInv => DisableIsFinal
  BY DEF SleepInv, CoreInv, TakenOnlyEnabled, CsrInv, EndInv, Disabling, DisableIsFinal, IrqAck
<1> QED BY <1>1, PulseAndEndHold, PTL
=============================================================================

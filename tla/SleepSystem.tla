---------------------------- MODULE SleepSystem ----------------------------
(***************************************************************************)
(* PULPino's sleep and interrupt system: the RISCY core runs a program     *)
(* that stores to the event unit and to a timer over the peripheral path,  *)
(* the timer pulses a line of the event unit, and the event unit           *)
(* interrupts the core, stops its fetch, gates its clock and wakes it      *)
(* (rtl/core_region.sv, rtl/peripherals.sv, rtl/pulpino_core.sv).          *)
(*                                                                         *)
(* One step is one rising edge of the system clock.  Everything on that    *)
(* clock moves together; the core moves only when its clock is enabled.    *)
(***************************************************************************)
EXTENDS Naturals, EventUnit, RiscyCore, PeripheralPath, PulseTimer

CONSTANTS
    TimerLine,      \* the line of the timer's compare interrupt
    MaxPulses       \* bound: pulses of the timer between two times it is armed

ASSUME SystemAssumption ==
    /\ TimerLine \in Lines
    /\ DOMAIN Handler = Lines
    /\ MaxPulses \in Nat
    /\ \A a \in Addr : Program[a].kind = "store" => Program[a].arg \in Ops
    /\ \A op \in Ops : op.unit \in {"IRQ", "EVENT"} =>
            op.reg \in IrqUnit!Registers /\ op.data \subseteq Lines

VARIABLES
    fetchPin,       \* the chip's fetch_enable_i pin
    pulses          \* pulses of the timer since it was started or stopped

sysVars == <<eventUnitVars, coreVars, pathVars, pulseVars, fetchPin, pulses>>

\* The type invariant: every register of the system stays in its range.
SysTypeOK ==
    /\ EventUnitTypeOK
    /\ CoreTypeOK
    /\ PathTypeOK
    /\ fetchPin \in BOOLEAN
    /\ PulseTypeOK
    /\ pulses \in 0..MaxPulses

SysInit ==
    /\ EventUnitInit
    /\ CoreInit
    /\ PathInit
    /\ fetchPin = FALSE
    /\ PulseInit
    /\ pulses = 0

-----------------------------------------------------------------------------
\* The enable bit of TIMER_CTRL as a bus access leaves it.
TimerWriteOf(access) ==
    IF access.unit # "TIMER" \/ access.reg # "CTRL" THEN "NONE"
    ELSE IF access.data # {} THEN "START" ELSE "STOP"

\* pulses only bounds the model: MaxPulses between two writes of TIMER_CTRL.
Timer(write) ==
    /\ PulseStep(write)
    /\ pulses' = (IF write = "NONE" THEN pulses ELSE 0) + (IF timerIrq' THEN 1 ELSE 0)
    /\ pulses' <= MaxPulses

\* The core's clock gate (riscv_core.sv): without a clock nothing in it moves.
CoreClocked == CoreClockEn(ClockEnable)

Core(gnt, rvalid, fetched) ==
    IF CoreClocked
    THEN CoreCycle(FetchEnable, irqOut, gnt, rvalid, fetched)
    ELSE ~fetched /\ UNCHANGED coreVars

\* One clock edge of the system.
Tick(arrive, answer, fetched) ==
    LET access == IF arrive THEN pathOp ELSE NoAccess
        req    == DataReq(answer)
        gnt    == PathGnt(req)
    IN  /\ Timer(TimerWriteOf(access))
        /\ EventUnitCycle(IF timerIrq THEN {TimerLine} ELSE {}, fetchPin,
                          CoreBusy, access)
        /\ PathCycle(req, IF req THEN Program[exPc].arg ELSE pathOp,
                     arrive, answer)
        /\ Core(gnt, answer, fetched)
        /\ fetchPin' \in {b \in BOOLEAN : fetchPin => b}

SysNext == \E arrive, answer, fetched \in BOOLEAN : Tick(arrive, answer, fetched)

SysSpec == SysInit /\ [][SysNext]_sysVars

\* What the clock and the memories owe: the clock runs, a fetch is answered
\* and an instruction arrives, a bus stage ends, an enabled timer reaches its
\* compare value, and the chip is started.  The step that ends one of the
\* conditions under []<> is enabled for as long as the condition lasts, so
\* each of them is weak fairness of that step.
Fairness ==
    /\ WF_sysVars(SysNext)
    /\ []<>(pathStage # "REQUEST") /\ []<>(pathStage # "RESPONSE")
    /\ []<>~ifBusy /\ []<>(ctrl = "DECODE" => idValid)
    /\ []<>fetchPin
    /\ []<>(timerMode = "ON" => timerIrq \/ pulses = MaxPulses)

FairSysSpec == SysSpec /\ Fairness

-----------------------------------------------------------------------------
(* Safety, for every program.                                              *)

\* Gating the core's clock freezes nothing that is under way: the core is
\* asleep, no bus answer is due to it, no fetch is outstanding and no
\* interrupt is between its two controllers.  core2axi and the memories keep
\* their clock, so an answer to a stopped core would be lost.
ClockGateSafe ==
    ~CoreClocked =>
        /\ ctrl = "SLEEP"
        /\ lsu = "IDLE" /\ pathStage = "IDLE" /\ "lsu" \notin exUnits
        /\ ~ifBusy
        /\ irqCtrl = "IDLE"

\* The assertions of riscv_load_store_unit.sv:472-478 across core, clock gate
\* and bridge: whenever an answer can come, the unit waits for exactly one.
AnswerExpected == (pathStage # "IDLE") <=> (lsu = "WAIT_RVALID")

\* An interrupt is taken only for a line that is still pending in the event
\* unit: a handler that cleared its line is not entered again by the stale
\* level of the registered irq_o.
NoStaleInterrupt == IrqAck => irqId \in irqRegs["PENDING"]

\* A core that leaves SLEEP with fetch disabled does so for an interrupt it
\* will take: it never runs the interrupted program meanwhile.
WokenForInterrupt ==
    ctrl = "FIRST_FETCH" /\ ~FetchEnable => IrqTake

\* The core, the sleep unit and the bus keep the contract about the core's
\* clock: it is taken away only when nothing is under way.
Working ==
    \/ lsu # "IDLE" \/ pathStage # "IDLE" \/ "lsu" \in exUnits
    \/ ifBusy \/ idValid \/ exPc # NoInstr
    \/ irqCtrl # "IDLE"
Contract == INSTANCE ClockContract WITH
    clocked <- CoreClocked, working <- Working, request <- IrqUp
KeepsClockContract == Contract!ContractSpec

-----------------------------------------------------------------------------
(* Liveness, under Fairness.                                               *)

\* No lost wake-up: an event that is up, wherever it hits the way into sleep,
\* leaves the core decoding with its fetch enabled.
EventWakes == EventUp ~> (ctrl = "DECODE" /\ FetchEnable)

\* A pending interrupt is taken, asleep or not.
InterruptTaken == (TimerLine \in irqRegs["PENDING"]) ~> IrqAck

\* A flush of the pipeline ends.
FlushEnds == (ctrl = "FLUSH_EX") ~> (ctrl = "FLUSH_WB")
=============================================================================

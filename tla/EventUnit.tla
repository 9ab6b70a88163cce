----------------------------- MODULE EventUnit -----------------------------
(***************************************************************************)
(* The APB event unit (ips/apb/apb_event_unit/apb_event_unit.sv): one      *)
(* service unit for interrupts, one for events, both fed with the same     *)
(* peripheral lines (rtl/peripherals.sv ties irq_i and event_i together),  *)
(* the sleep unit that listens to both, and the two flip-flops that        *)
(* synchronise the chip's fetch_enable pin.                                *)
(*                                                                         *)
(* One step is one clock edge that all of them share.                      *)
(***************************************************************************)
EXTENDS SleepUnit

CONSTANT Lines

VARIABLES
    irqRegs, irqOut,        \* the interrupt unit
    eventRegs, events,      \* the event unit
    fetchFf1, fetchFf2      \* the synchroniser of fetch_enable_i

IrqUnit   == INSTANCE ServiceUnit WITH regs <- irqRegs,   irq_o <- irqOut
EventUnitRegs == INSTANCE ServiceUnit WITH regs <- eventRegs, irq_o <- events

eventUnitVars ==
    <<irqRegs, irqOut, eventRegs, events, fetchFf1, fetchFf2, sleepVars>>

\* An APB access: the unit the address selects, its register, the data.
NoAccess == [unit |-> "NONE", reg |-> "NONE", data |-> {}]

EventUnitTypeOK ==
    /\ IrqUnit!TypeOK
    /\ EventUnitRegs!TypeOK
    /\ SleepTypeOK
    /\ fetchFf1 \in BOOLEAN
    /\ fetchFf2 \in BOOLEAN

EventUnitInit ==
    /\ IrqUnit!Init
    /\ EventUnitRegs!Init
    /\ SleepInit
    /\ fetchFf1 = FALSE
    /\ fetchFf2 = FALSE

-----------------------------------------------------------------------------
IrqUp   == irqOut # {}      \* |irq_o
EventUp == events # {}      \* |events

\* The outputs to the core.
FetchEnable == fetchFf2 /\ FetchEn(EventUp)
ClockEnable == ClkGateCore(EventUp)

\* The address selector: a service unit sees the access if it is the target.
WriteTo(unit, access) ==
    IF access.unit = unit THEN [reg |-> access.reg, data |-> access.data]
                          ELSE IrqUnit!NoWrite

\* Bit 0 of the written word is the sleep bit; SLEEP_STATUS ignores writes.
SleepWriteOf(access) ==
    IF access.unit # "SLEEP" \/ access.reg # "SLEEP_CTRL" THEN NoSleepWrite
    ELSE IF 0 \in access.data THEN "SET" ELSE "RESET"

\* One clock edge of the whole event unit.
EventUnitCycle(signal, fetchPin, coreBusy, access) ==
    /\ IrqUnit!Cycle(signal, WriteTo("IRQ", access))
    /\ EventUnitRegs!Cycle(signal, WriteTo("EVENT", access))
    /\ SleepCycle(IrqUp, EventUp, coreBusy, SleepWriteOf(access))
    /\ fetchFf1' = fetchPin
    /\ fetchFf2' = fetchFf1
=============================================================================

----------------------------- MODULE SleepUnit -----------------------------
(***************************************************************************)
(* The sleep unit of the APB event unit                                    *)
(* (ips/apb/apb_event_unit/sleep_unit.sv): the state machine that stops    *)
(* the core's instruction fetch when software sets the sleep bit, gates    *)
(* the core's clock once the core has drained, and wakes it again.         *)
(*                                                                         *)
(* One step is one rising edge of HCLK.  irq, event and coreBusy are the   *)
(* levels of irq_i, event_i and core_busy_i in the cycle that ends; write  *)
(* is the value an APB write gives bit 0 of SLEEP_CTRL, or NoSleepWrite.   *)
(***************************************************************************)

VARIABLES
    sleepState,     \* SLEEP_STATE_Q
    sleepEnable,    \* regs_q[REG_SLEEP_CTRL][SLEEP_ENABLE]
    sleepStatus     \* regs_q[REG_SLEEP_STATUS][SLEEP_STATUS]

sleepVars == <<sleepState, sleepEnable, sleepStatus>>

NoSleepWrite == "NONE"
SleepWrites  == {NoSleepWrite, "SET", "RESET"}

SleepTypeOK ==
    /\ sleepState \in {"RUN", "SHUTDOWN", "SLEEP"}
    /\ sleepEnable \in BOOLEAN
    /\ sleepStatus \in BOOLEAN

SleepInit ==
    /\ sleepState = "RUN"
    /\ sleepEnable = FALSE
    /\ sleepStatus = FALSE

-----------------------------------------------------------------------------
(* The combinational outputs.                                              *)

\* fetch_en_o: already low in RUN when the sleep bit is set and no event is up.
FetchEn(event) == sleepState = "RUN" /\ (sleepEnable => event)

\* clk_gate_core_o: the core's clock request, low only in SLEEP.
ClkGateCore(event) == sleepState = "SLEEP" => event

-----------------------------------------------------------------------------
(* The three states of the machine.                                        *)

Run(event) ==
    /\ sleepState = "RUN"
    /\ sleepState' = IF sleepEnable /\ ~event THEN "SHUTDOWN" ELSE "RUN"

\* Mutant: the machine goes to sleep over an interrupt.
Shutdown_DeafToIrq(irq, event, coreBusy) ==
    /\ sleepState = "SHUTDOWN"
    /\ sleepState' = IF event THEN "RUN" ELSE IF ~coreBusy THEN "SLEEP" ELSE "SHUTDOWN"

Shutdown(irq, event, coreBusy) ==
    /\ sleepState = "SHUTDOWN"
    /\ sleepState' = IF event THEN "RUN"
                     ELSE IF ~coreBusy /\ ~irq THEN "SLEEP"
                     ELSE "SHUTDOWN"

\* Mutants: an interrupt, or an event, does not end SLEEP.
Sleep_DeafToIrq(irq, event) ==
    sleepState = "SLEEP" /\ sleepState' = IF event THEN "RUN" ELSE "SLEEP"
Sleep_DeafToEvent(irq, event) ==
    sleepState = "SLEEP" /\ sleepState' = IF irq THEN "SHUTDOWN" ELSE "SLEEP"

Sleep(irq, event) ==
    /\ sleepState = "SLEEP"
    /\ sleepState' = IF event THEN "RUN" ELSE IF irq THEN "SHUTDOWN" ELSE "SLEEP"

\* The registers: the bit falls in SLEEP and under an event, unless the bus
\* writes the register in the same cycle.
SleepRegs(event, write) ==
    /\ sleepStatus' = (sleepState = "SLEEP")
    /\ sleepEnable' = CASE write = "SET"   -> TRUE
                        [] write = "RESET" -> FALSE
                        [] OTHER -> sleepEnable /\ sleepState # "SLEEP" /\ ~event

SleepCycle(irq, event, coreBusy, write) ==
    /\ \/ Run(event)
       \/ Shutdown(irq, event, coreBusy)
       \/ Sleep(irq, event)
    /\ SleepRegs(event, write)
=============================================================================

----------------------------- MODULE PulseTimer -----------------------------
(***************************************************************************)
(* The timer as the event unit sees it: a source of one-line pulses that   *)
(* software starts and stops through TIMER_CTRL                            *)
(* (ips/apb/apb_timer/timer.sv:54-107).  When the counter matches is left  *)
(* open.  A stop takes effect on the counter one cycle late: the edge that *)
(* clears the enable bit still counts, so the first cycle of the stopped   *)
(* timer may be the one that matches; and a stopped timer may match in the *)
(* cycle after software has loaded the counter with the compare value.     *)
(* ApbTimer implements this specification.                                 *)
(***************************************************************************)
VARIABLES
    timerMode,      \* OFF, ON, or LAST: off, but stopped or loaded by the last edge
    timerIrq        \* the interrupt line in the present cycle

pulseVars == <<timerMode, timerIrq>>

PulseTypeOK ==
    /\ timerMode \in {"OFF", "ON", "LAST"}
    /\ timerIrq \in BOOLEAN

PulseInit ==
    /\ timerMode = "OFF"
    /\ timerIrq = FALSE

\* What the bus may do in a cycle: write TIMER_CTRL, or a value other than
\* zero to the counter.
TimerWrites == {"NONE", "START", "STOP", "LOAD"}

\* One clock edge.
PulseStep(write) ==
    /\ timerMode' = CASE write = "START" -> "ON"
                      [] write = "STOP"  -> IF timerMode = "ON" THEN "LAST" ELSE "OFF"
                      [] write = "LOAD"  -> IF timerMode = "ON" THEN "ON" ELSE "LAST"
                      [] OTHER -> IF timerMode = "LAST" THEN "OFF" ELSE timerMode
    /\ timerIrq' \in BOOLEAN
    /\ timerIrq' => timerMode' # "OFF"

PulseNext == \E write \in TimerWrites : PulseStep(write)

PulseSpec == PulseInit /\ [][PulseNext]_pulseVars
=============================================================================

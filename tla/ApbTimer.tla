------------------------------ MODULE ApbTimer ------------------------------
(***************************************************************************)
(* One timer of the APB timer unit (ips/apb/apb_timer/timer.sv): a counter *)
(* with a prescaler, a compare and an overflow interrupt, and three        *)
(* registers that software may write at any time.  The 32-bit counter is   *)
(* the integers modulo Modulus; register values come from small sets.      *)
(*                                                                         *)
(* One step is one rising edge of HCLK, with at most one APB write.        *)
(***************************************************************************)
EXTENDS Naturals

CONSTANTS
    Modulus,        \* 2^32 in the code
    TimerValues,    \* what software writes to TIMER,
    CtrlValues,     \* to TIMER_CTRL
    CmpValues       \* and to CMP

ASSUME TimerAssumption ==
    /\ Modulus \in Nat /\ Modulus > 1
    /\ TimerValues \subseteq 0 .. (Modulus - 1)
    /\ CmpValues \subseteq 0 .. (Modulus - 1)
    /\ CtrlValues \subseteq Nat

VARIABLES
    timer,          \* regs_q[REG_TIMER]
    timerCtrl,      \* regs_q[REG_TIMER_CTRL]
    cmp,            \* regs_q[REG_CMP]
    cycles          \* cycle_counter_q

timerVars == <<timer, timerCtrl, cmp, cycles>>

NoWrite == [reg |-> "NONE", value |-> 0]
Writes  == [reg : {"TIMER"}, value : TimerValues]
           \cup [reg : {"CTRL"}, value : CtrlValues]
           \cup [reg : {"CMP"}, value : CmpValues]

\* The type invariant: the counter never leaves its 32 bits, although the code
\* adds one to it without a check.
TimerTypeOK ==
    /\ timer \in 0 .. (Modulus - 1)
    /\ timerCtrl \in CtrlValues \cup {0}
    /\ cmp \in CmpValues \cup {0}
    /\ cycles \in Nat

TimerInit == timer = 0 /\ timerCtrl = 0 /\ cmp = 0 /\ cycles = 0

-----------------------------------------------------------------------------
\* The fields of TIMER_CTRL: bit 0, and bits 5 to 3.
EnableBit(value)    == value % 2 = 1
PrescalerOf(value)  == (value \div 8) % 8
Enabled   == EnableBit(timerCtrl)
Prescaler == PrescalerOf(timerCtrl)

\* Mutant: the overflow is one count late.
OverflowIrq_Late == timer = Modulus

\* irq_o[0] and irq_o[1]; neither asks whether the timer is enabled.
OverflowIrq == timer = Modulus - 1

\* Mutant: a compare value of zero matches too.
CompareIrq_Zero == timer = cmp
CompareIrq  == cmp # 0 /\ timer = cmp

\* The counter advances in every cycle, or in the one of each round of the
\* cycle counter in which that counter equals the prescaler.
Counting == Enabled /\ (Prescaler = 0 \/ Prescaler = cycles)

\* Mutants: a new compare value does not restart the counter; a match does not.
TimerNext_NoRestart(write) ==
    CASE write.reg = "TIMER" -> write.value
      [] OTHER -> IF OverflowIrq \/ CompareIrq THEN 0
                  ELSE IF Counting THEN timer + 1 ELSE timer
TimerNext_NoWrap(write) ==
    CASE write.reg = "TIMER" -> write.value
      [] write.reg = "CMP"   -> 0
      [] OTHER -> IF OverflowIrq THEN 0 ELSE IF Counting THEN timer + 1 ELSE timer

\* An interrupt resets the counter; a write of TIMER or of CMP beats it.
TimerNext(write) ==
    CASE write.reg = "TIMER" -> write.value
      [] write.reg = "CMP"   -> 0
      [] OTHER -> IF OverflowIrq \/ CompareIrq THEN 0
                  ELSE IF Counting THEN timer + 1 ELSE timer

\* Mutants: a round is a cycle too long, or ends before the prescaler's value.
CyclesNext_LongRound == IF cycles > timerCtrl THEN 0 ELSE cycles + 1
CyclesNext_ShortRound == IF cycles + 1 >= Prescaler THEN 0 ELSE cycles + 1

\* A round of the cycle counter is as long as the whole control register says.
CyclesNext == IF cycles >= timerCtrl THEN 0 ELSE cycles + 1

TimerStep(write) ==
    /\ timer' = TimerNext(write)
    /\ timerCtrl' = IF write.reg = "CTRL" THEN write.value ELSE timerCtrl
    /\ cmp' = IF write.reg = "CMP" THEN write.value ELSE cmp
    /\ cycles' = CyclesNext
=============================================================================

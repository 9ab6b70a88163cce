---------------------------- MODULE TimerHistory ----------------------------
(***************************************************************************)
(* The timer in the hands of arbitrary software, with history variables    *)
(* that measure it: the time since the last compare interrupt, and what    *)
(* software has done meanwhile.                                            *)
(***************************************************************************)
EXTENDS ApbTimer

CONSTANT MaxElapsed     \* bound: the clock of the measurement stops here

\* The clock of the measurement outlasts the longest period.
ASSUME HistoryAssumption ==
    /\ MaxElapsed \in Nat
    /\ \A c \in CmpValues, v \in CtrlValues : c + 1 <= MaxElapsed /\ c * (v + 1) <= MaxElapsed

VARIABLES
    elapsed,        \* cycles since the last compare interrupt
    matches,        \* compare interrupts since the last write, up to two
    preset,         \* TIMER holds a value software has written and counts on from it
    lastChance      \* the last edge has stopped the timer, or loaded its counter

timerHistory == <<elapsed, matches, preset, lastChance>>

HistoryInit ==
    /\ TimerInit
    /\ elapsed = 0 /\ matches = 0 /\ preset = FALSE /\ lastChance = FALSE

HistoryStep(write) ==
    /\ TimerStep(write)
    /\ matches' = IF write # NoWrite THEN 0
                  ELSE IF CompareIrq /\ matches < 2 THEN matches + 1 ELSE matches
    /\ elapsed' = IF CompareIrq THEN 1
                  ELSE IF elapsed < MaxElapsed /\ matches = 2 THEN elapsed + 1
                  ELSE elapsed
    /\ preset' = CASE write.reg = "TIMER" -> TRUE
                   [] write.reg = "CMP"   -> FALSE
                   [] OTHER -> preset /\ ~CompareIrq /\ ~OverflowIrq
    /\ lastChance' = (Enabled \/ (write.reg = "TIMER" /\ write.value # 0))

Quiet == HistoryStep(NoWrite)
Bus   == \E write \in Writes : HistoryStep(write)

HistoryNext == Quiet \/ Bus

TimerSpec == HistoryInit /\ [][HistoryNext]_<<timerVars, timerHistory>>
FairTimerSpec == TimerSpec /\ WF_<<timerVars, timerHistory>>(Quiet)

-----------------------------------------------------------------------------
\* The counter never runs past the compare value: only a value that software
\* has put beyond it can miss the match and go on to the overflow.
NoOverrun == cmp # 0 /\ ~preset => timer <= cmp

\* The distance of two compare interrupts, once software leaves the timer
\* alone: the value cmp lasts a cycle of its own when every cycle counts, but
\* is part of the next round of the prescaler when there is one.
Period == IF Prescaler = 0 THEN cmp + 1 ELSE cmp * (timerCtrl + 1)
PeriodIsExact == CompareIrq /\ matches = 2 => elapsed = Period

\* "timerA ticks every 1 clock cycles, and the compare match handler is
\* called every 16384 ticks" (Arduino wiring.c:27-28, with CMP = 0x4000): the
\* handler's period is the compare value itself.
DocumentedPeriod == CompareIrq /\ matches = 2 /\ Prescaler = 0 => elapsed = cmp

\* An interrupt is a pulse of one cycle, as the event unit expects of its
\* lines, unless software writes the matching value again.
OneCyclePulse == [][CompareIrq /\ CompareIrq' => preset']_timerVars

\* The timer is the pulse source SleepSystem is built on.
Pulses == INSTANCE PulseTimer WITH
    timerMode <- IF Enabled THEN "ON" ELSE IF lastChance THEN "LAST" ELSE "OFF",
    timerIrq  <- CompareIrq
PulsesImplemented == Pulses!PulseSpec

\* Left alone, an enabled timer with a compare value keeps interrupting: the
\* prescaler meets the cycle counter in every round, whatever the phase.
KeepsFiring ==
    <>[](Enabled /\ cmp # 0) /\ <>[][Quiet]_timerVars => []<>CompareIrq
=============================================================================

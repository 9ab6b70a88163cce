-------------------------- MODULE ApbTimer_proofs --------------------------
(***************************************************************************)
(* Proofs about the timer, for a counter of any width and any register     *)
(* values: its types, that the counter does not overrun the compare value, *)
(* that an interrupt lasts one cycle, that the timer is the pulse source   *)
(* the sleep system is modelled with, and that its period is exact.        *)
(***************************************************************************)
EXTENDS TimerHistory, TLAPS

\* A step of the history specification, its stuttering set apart.
AnyStep == \E write \in Writes \cup {NoWrite} : HistoryStep(write)

\* The next-state relation is a step with one write or none.
LEMMA NextIsAnyStep == HistoryNext <=> AnyStep
BY DEF HistoryNext, Quiet, Bus, AnyStep

\* What a write may carry.
LEMMA WriteCases ==
    ASSUME NEW write \in Writes \cup {NoWrite}
    PROVE  \/ write.reg = "TIMER" /\ write.value \in TimerValues
           \/ write.reg = "CTRL" /\ write.value \in CtrlValues
           \/ write.reg = "CMP" /\ write.value \in CmpValues
           \/ write = NoWrite /\ write.reg = "NONE"
BY DEF Writes, NoWrite

-----------------------------------------------------------------------------
\* The counter stays below the modulus without a wrap-around: at the last
\* value the overflow interrupt resets it before it could count on.
THEOREM TimerTypeCorrect == TimerSpec => []TimerTypeOK
<1>1. HistoryInit => TimerTypeOK
  BY TimerAssumption DEF HistoryInit, TimerInit, TimerTypeOK
<1>2. TimerTypeOK /\ [HistoryNext]_<<timerVars, timerHistory>> => TimerTypeOK'
  <2> SUFFICES ASSUME TimerTypeOK, [HistoryNext]_<<timerVars, timerHistory>>
               PROVE  TimerTypeOK'
    OBVIOUS
  <2>1. CASE HistoryNext
    <3>1. PICK write \in Writes \cup {NoWrite} : TimerStep(write)
      BY <2>1, NextIsAnyStep DEF AnyStep, HistoryStep
    <3>2. timer' \in 0 .. (Modulus - 1)
      BY <3>1, WriteCases, TimerAssumption
         DEF TimerStep, TimerNext, TimerTypeOK, OverflowIrq
    <3>3. timerCtrl' \in CtrlValues \cup {0} /\ cmp' \in CmpValues \cup {0}
      BY <3>1, WriteCases DEF TimerStep, TimerTypeOK
    <3>4. cycles' \in Nat
      BY <3>1 DEF TimerStep, CyclesNext, TimerTypeOK
    <3> QED BY <3>2, <3>3, <3>4 DEF TimerTypeOK
  <2>2. CASE UNCHANGED <<timerVars, timerHistory>>
    BY <2>2 DEF timerVars, TimerTypeOK
  <2> QED BY <2>1, <2>2
<1> QED BY <1>1, <1>2, PTL DEF TimerSpec

-----------------------------------------------------------------------------
\* A counter that software has not preset never overruns the compare value.
THEOREM CounterNeverOverruns == TimerSpec => []NoOverrun
<1>1. HistoryInit => NoOverrun
  BY DEF HistoryInit, TimerInit, NoOverrun
<1>2. TimerTypeOK /\ NoOverrun /\ [HistoryNext]_<<timerVars, timerHistory>> => NoOverrun'
  <2> SUFFICES ASSUME TimerTypeOK, NoOverrun, [HistoryNext]_<<timerVars, timerHistory>>
               PROVE  NoOverrun'
    OBVIOUS
  <2>1. CASE HistoryNext
    <3>1. PICK write \in Writes \cup {NoWrite} : HistoryStep(write)
      BY <2>1, NextIsAnyStep DEF AnyStep
    <3> USE <3>1 DEF HistoryStep, TimerStep, NoOverrun
    <3>2. /\ timer \in Nat /\ cmp \in Nat
          /\ cmp' \in CmpValues \cup {0} => cmp' \in Nat
      BY TimerAssumption DEF TimerTypeOK
    <3>3. CASE write.reg = "TIMER"
      BY <3>3
    <3>4. CASE write.reg = "CMP"
      <4>1. timer' = 0 /\ cmp' \in CmpValues
        BY <3>4, WriteCases DEF TimerNext
      <4>2. cmp' \in Nat
        BY <4>1, TimerAssumption
      <4>3. timer' <= cmp'
        BY <4>1, <4>2
      <4> QED BY <4>3
    <3>5. CASE write.reg \notin {"TIMER", "CMP"}
      <4>1. cmp' = cmp /\ preset' = (preset /\ ~CompareIrq /\ ~OverflowIrq)
        BY <3>5
      <4>2. timer' = IF OverflowIrq \/ CompareIrq THEN 0
                     ELSE IF Counting THEN timer + 1 ELSE timer
        BY <3>5 DEF TimerNext
      <4>3. CASE OverflowIrq \/ CompareIrq
        BY <3>2, <4>1, <4>2, <4>3
      <4>4. CASE ~OverflowIrq /\ ~CompareIrq
        <5> SUFFICES ASSUME cmp # 0, ~preset PROVE timer' <= cmp
          BY <4>1, <4>4
        <5>1. timer <= cmp /\ timer # cmp
          BY <4>4 DEF CompareIrq
        <5>2. timer' \in {timer, timer + 1}
          BY <4>2, <4>4
        <5> QED BY <3>2, <5>1, <5>2
      <4> QED BY <4>3, <4>4
    <3> QED BY <3>3, <3>4, <3>5
  <2>2. CASE UNCHANGED <<timerVars, timerHistory>>
    BY <2>2 DEF timerVars, timerHistory, NoOverrun
  <2> QED BY <2>1, <2>2
<1> QED BY <1>1, <1>2, TimerTypeCorrect, PTL DEF TimerSpec

-----------------------------------------------------------------------------
\* An interrupt lasts one cycle, unless software writes the counter.
THEOREM InterruptIsAPulse == TimerSpec => OneCyclePulse
<1>1. [HistoryNext]_<<timerVars, timerHistory>> => [CompareIrq /\ CompareIrq' => preset']_timerVars
  <2> SUFFICES ASSUME HistoryNext, CompareIrq, CompareIrq' PROVE preset'
    BY DEF timerVars
  <2>1. PICK write \in Writes \cup {NoWrite} : HistoryStep(write)
    BY NextIsAnyStep DEF AnyStep
  <2>2. CASE write.reg = "TIMER"
    BY <2>1, <2>2 DEF HistoryStep
  <2>3. CASE write.reg # "TIMER"
    <3>1. timer' = 0
      BY <2>1, <2>3 DEF HistoryStep, TimerStep, TimerNext
    <3> QED BY <3>1 DEF CompareIrq
  <2> QED BY <2>2, <2>3
<1> QED BY <1>1, PTL DEF TimerSpec, OneCyclePulse

-----------------------------------------------------------------------------
\* The refinement needs one more fact: an idle timer does not sit on the
\* compare value, so a match while it is off has been loaded or counted to by
\* the last edge.
QuietWhenIdle ==
    /\ lastChance \in BOOLEAN
    /\ CompareIrq => Enabled \/ lastChance

Mode == IF Enabled THEN "ON" ELSE IF lastChance THEN "LAST" ELSE "OFF"

\* A timer that software leaves stopped matches at most once, right after the
\* edge that stopped or loaded it.
LEMMA IdleStep ==
    ASSUME TimerTypeOK, NEW write \in Writes \cup {NoWrite}, HistoryStep(write),
           QuietWhenIdle
    PROVE  QuietWhenIdle'
<1> USE DEF HistoryStep, TimerStep
<1>1. lastChance' = (Enabled \/ (write.reg = "TIMER" /\ write.value # 0))
  OBVIOUS
<1>2. ASSUME CompareIrq', ~lastChance' PROVE FALSE
  <2>1. ~Enabled /\ ~(write.reg = "TIMER" /\ write.value # 0)
    BY <1>1, <1>2
  <2>2. cmp' # 0 /\ timer' = cmp'
    BY <1>2 DEF CompareIrq
  <2>3. timer' # 0
    BY <2>2
  <2>4. write.reg \notin {"TIMER", "CMP"}
    BY <2>1, <2>3 DEF TimerNext
  <2>5. timer' = timer /\ cmp' = cmp /\ ~CompareIrq
    BY <2>1, <2>3, <2>4 DEF TimerNext, Counting
  <2> QED BY <2>2, <2>5 DEF CompareIrq
<1>3. lastChance' \in BOOLEAN
  BY <1>1 DEF Enabled, EnableBit
<1> QED BY <1>2, <1>3 DEF QuietWhenIdle

\* Every step of the timer is a step of the pulse source.
LEMMA StepIsPulseStep ==
    ASSUME TimerTypeOK, QuietWhenIdle, QuietWhenIdle',
           NEW write \in Writes \cup {NoWrite}, HistoryStep(write)
    PROVE  Pulses!PulseNext
<1> USE DEF HistoryStep, TimerStep
<1>1. lastChance' = (Enabled \/ (write.reg = "TIMER" /\ write.value # 0))
  OBVIOUS
<1>2. CompareIrq' \in BOOLEAN /\ (CompareIrq' => Mode' # "OFF")
  BY DEF CompareIrq, QuietWhenIdle, Mode
<1>3. CASE write.reg = "CTRL" /\ EnableBit(write.value)
  <2>1. Mode' = "ON"
    BY <1>3 DEF Mode, Enabled
  <2>2. Pulses!PulseStep("START")
    BY <1>2, <2>1 DEF Pulses!PulseStep, Mode
  <2> QED BY <2>2 DEF Pulses!PulseNext, Pulses!TimerWrites
<1>4. CASE write.reg = "CTRL" /\ ~EnableBit(write.value)
  <2>1. ~Enabled'
    BY <1>4 DEF Enabled
  <2>2. Mode' = IF Mode = "ON" THEN "LAST" ELSE "OFF"
    BY <1>1, <1>4, <2>1 DEF Mode
  <2>3. Pulses!PulseStep("STOP")
    BY <1>2, <2>2 DEF Pulses!PulseStep, Mode
  <2> QED BY <2>3 DEF Pulses!PulseNext, Pulses!TimerWrites
<1>5. CASE write.reg = "TIMER" /\ write.value # 0
  <2>1. (Enabled' <=> Enabled) /\ lastChance'
    BY <1>1, <1>5 DEF Enabled
  <2>2. Mode' = IF Mode = "ON" THEN "ON" ELSE "LAST"
    BY <2>1 DEF Mode
  <2>3. Pulses!PulseStep("LOAD")
    BY <1>2, <2>2 DEF Pulses!PulseStep, Mode
  <2> QED BY <2>3 DEF Pulses!PulseNext, Pulses!TimerWrites
<1>6. CASE write.reg # "CTRL" /\ ~(write.reg = "TIMER" /\ write.value # 0)
  <2>1. (Enabled' <=> Enabled) /\ (lastChance' <=> Enabled)
    BY <1>1, <1>6 DEF Enabled
  <2>2. Mode' = IF Mode = "LAST" THEN "OFF" ELSE Mode
    BY <2>1 DEF Mode
  <2>3. Pulses!PulseStep("NONE")
    BY <1>2, <2>2 DEF Pulses!PulseStep, Mode
  <2> QED BY <2>3 DEF Pulses!PulseNext, Pulses!TimerWrites
<1> QED BY <1>3, <1>4, <1>5, <1>6

\* The timer implements the pulse source.
THEOREM TimerImplementsPulses == TimerSpec => PulsesImplemented
<1>1. HistoryInit => Pulses!PulseInit /\ QuietWhenIdle
  <2> SUFFICES ASSUME HistoryInit PROVE Pulses!PulseInit /\ QuietWhenIdle
    OBVIOUS
  <2>1. timerCtrl = 0 /\ cmp = 0 /\ lastChance = FALSE
    BY DEF HistoryInit, TimerInit
  <2>2. ~Enabled /\ ~CompareIrq
    BY <2>1 DEF Enabled, EnableBit, CompareIrq
  <2> QED BY <2>1, <2>2 DEF Pulses!PulseInit, QuietWhenIdle, CompareIrq
<1>2. TimerTypeOK /\ QuietWhenIdle /\ [HistoryNext]_<<timerVars, timerHistory>>
        => QuietWhenIdle' /\ [Pulses!PulseNext]_(Pulses!pulseVars)
  <2> SUFFICES ASSUME TimerTypeOK, QuietWhenIdle,
                      [HistoryNext]_<<timerVars, timerHistory>>
               PROVE  QuietWhenIdle' /\ [Pulses!PulseNext]_(Pulses!pulseVars)
    OBVIOUS
  <2>1. CASE HistoryNext
    <3>1. PICK write \in Writes \cup {NoWrite} : HistoryStep(write)
      BY <2>1, NextIsAnyStep DEF AnyStep
    <3>2. QuietWhenIdle'
      BY <3>1, IdleStep
    <3>3. Pulses!PulseNext
      BY <3>1, <3>2, StepIsPulseStep
    <3> QED BY <3>2, <3>3
  <2>2. CASE UNCHANGED <<timerVars, timerHistory>>
    BY <2>2 DEF timerVars, timerHistory, QuietWhenIdle, CompareIrq, Enabled,
                Pulses!pulseVars
  <2> QED BY <2>1, <2>2
<1> QED BY <1>1, <1>2, TimerTypeCorrect, PTL
        DEF TimerSpec, PulsesImplemented, Pulses!PulseSpec
-----------------------------------------------------------------------------
\* The cycles since the prescaler last let the counter count.
Phase == IF cycles > Prescaler THEN cycles - (Prescaler + 1)
         ELSE cycles + timerCtrl - Prescaler

Round == timerCtrl + 1

\* What the measurement knows of the timer: after a match the counter climbs
\* to the compare value from zero, so it gets there in the cycle after a count,
\* and the time since the match is whole rounds of the prescaler and a phase.
MeasureInv ==
    /\ matches \in 0 .. 2 /\ elapsed \in Nat
    /\ matches # 0 =>
          /\ cmp # 0 /\ timer <= cmp /\ cycles <= timerCtrl
          /\ CompareIrq => Enabled /\ (Prescaler # 0 => Phase = 0)
    /\ matches = 2 /\ Enabled =>
          elapsed = IF Prescaler = 0 THEN timer + 1 ELSE timer * Round + Phase

\* The prescaler of an enabled timer is below its control register, by two at least.
LEMMA PrescalerFits ==
    ASSUME TimerTypeOK
    PROVE  /\ timerCtrl \in Nat /\ timer \in Nat /\ cmp \in Nat /\ cycles \in Nat
           /\ Prescaler \in Nat
           /\ Enabled /\ Prescaler # 0 => Prescaler + 2 <= timerCtrl
           /\ timer <= Modulus - 1 /\ cmp <= Modulus - 1 /\ Modulus \in Nat
<1>1. timerCtrl \in Nat /\ timer \in Nat /\ cmp \in Nat /\ cycles \in Nat
      /\ timer <= Modulus - 1 /\ cmp <= Modulus - 1 /\ Modulus \in Nat
  BY TimerAssumption DEF TimerTypeOK
<1>2. timerCtrl \div 8 \in Nat /\ 8 * (timerCtrl \div 8) <= timerCtrl
  BY <1>1
<1>3. Prescaler \in Nat /\ Prescaler <= timerCtrl \div 8
  BY <1>2 DEF Prescaler, PrescalerOf
<1>4. Prescaler # 0 => Prescaler + 2 <= timerCtrl
  BY <1>1, <1>2, <1>3
<1> QED BY <1>1, <1>3, <1>4

\* One quiet cycle without an interrupt keeps the measurement: the counter
\* counts in the last cycle of a round, counted from the last count.
LEMMA MeasureCount ==
    ASSUME TimerTypeOK, MeasureInv, HistoryStep(NoWrite), matches # 0, ~CompareIrq
    PROVE  /\ cmp' = cmp /\ timerCtrl' = timerCtrl /\ matches' = matches
           /\ timer' <= cmp' /\ cycles' <= timerCtrl'
           /\ Enabled /\ Prescaler # 0 =>
                \/ timer' = timer + 1 /\ Phase = timerCtrl /\ Phase' = 0
                \/ timer' = timer /\ Phase' = Phase + 1 /\ Phase < timerCtrl
           /\ Enabled /\ Prescaler = 0 => timer' = timer + 1
           /\ ~Enabled => timer' = timer
           /\ timer < cmp /\ Phase \in Nat /\ ~OverflowIrq
<1>1. cmp' = cmp /\ timerCtrl' = timerCtrl /\ matches' = matches
  BY DEF HistoryStep, TimerStep, NoWrite
<1>2. timer < cmp /\ cycles <= timerCtrl /\ ~OverflowIrq
  BY PrescalerFits DEF MeasureInv, CompareIrq, OverflowIrq
<1>3. timer' = IF Counting THEN timer + 1 ELSE timer
  BY <1>2 DEF HistoryStep, TimerStep, NoWrite, TimerNext
<1>4. cycles' = IF cycles >= timerCtrl THEN 0 ELSE cycles + 1
  BY DEF HistoryStep, TimerStep, CyclesNext
<1>5. timer' <= cmp' /\ cycles' <= timerCtrl'
  BY <1>1, <1>2, <1>3, <1>4, PrescalerFits
<1>6. Prescaler' = Prescaler /\ (Enabled' <=> Enabled)
  BY <1>1 DEF Prescaler, Enabled
<1>7. ASSUME Enabled, Prescaler # 0
      PROVE  \/ timer' = timer + 1 /\ Phase = timerCtrl /\ Phase' = 0
             \/ timer' = timer /\ Phase' = Phase + 1 /\ Phase < timerCtrl
  <2>1. CASE cycles = Prescaler
    BY <1>1, <1>3, <1>4, <1>6, <1>7, <2>1, PrescalerFits DEF Phase, Counting
  <2>2. CASE cycles # Prescaler
    BY <1>1, <1>2, <1>3, <1>4, <1>6, <1>7, <2>2, PrescalerFits DEF Phase, Counting
  <2> QED BY <2>1, <2>2
<1>8. (Enabled /\ Prescaler = 0 => timer' = timer + 1) /\ (~Enabled => timer' = timer)
  BY <1>3 DEF Counting
<1>9. Phase \in Nat
  <2>1. Prescaler <= timerCtrl
    BY PrescalerFits, TimerAssumption DEF Prescaler, PrescalerOf
  <2> QED BY <2>1, PrescalerFits DEF Phase
<1> QED BY <1>1, <1>2, <1>5, <1>7, <1>8, <1>9

\* Fewer rounds are shorter by one round at least.
LEMMA RoundsGrow ==
    ASSUME NEW a \in Nat, NEW b \in Nat, NEW r \in Nat, a < b
    PROVE  /\ a * r \in Nat /\ b * r \in Nat /\ a * r + r <= b * r
           /\ (a + 1) * r = a * r + r
<1>1. (a + 1) * r = a * r + r
  OBVIOUS
<1>2. PICK d \in Nat : b = a + 1 + d
  <2>1. b - a - 1 \in Nat /\ b = a + 1 + (b - a - 1)
    OBVIOUS
  <2> QED BY <2>1
<1>3. b * r = (a + 1) * r + d * r
  BY <1>2
<1>4. d * r \in Nat /\ a * r \in Nat /\ b * r \in Nat
  OBVIOUS
<1> QED BY <1>1, <1>3, <1>4

\* Every step keeps the measurement.
LEMMA MeasureStep ==
    ASSUME TimerTypeOK, MeasureInv, NEW write \in Writes \cup {NoWrite}, HistoryStep(write)
    PROVE  MeasureInv'
<1>1. CASE write # NoWrite
  <2>1. matches' = 0
    BY <1>1 DEF HistoryStep
  <2>2. elapsed' \in Nat
    BY DEF HistoryStep, MeasureInv
  <2> QED BY <2>1, <2>2 DEF MeasureInv
<1>2. CASE write = NoWrite /\ CompareIrq
  <2>1. /\ matches' = (IF matches < 2 THEN matches + 1 ELSE matches)
        /\ elapsed' = 1 /\ timer' = 0 /\ cmp' = cmp /\ timerCtrl' = timerCtrl
        /\ cycles' = IF cycles >= timerCtrl THEN 0 ELSE cycles + 1
    BY <1>2 DEF HistoryStep, TimerStep, TimerNext, CyclesNext, NoWrite
  <2>2. matches' \in 1 .. 2 /\ (matches' = 2 => matches # 0)
    BY <2>1 DEF MeasureInv
  <2>3. cmp # 0 /\ ~CompareIrq' /\ timer' <= cmp' /\ cycles' <= timerCtrl'
    BY <1>2, <2>1, PrescalerFits DEF CompareIrq
  <2>4. ASSUME matches' = 2, Enabled'
        PROVE  elapsed' = IF Prescaler' = 0 THEN timer' + 1 ELSE timer' * Round' + Phase'
    <3>1. Prescaler' = Prescaler /\ Enabled
      BY <2>1, <2>4 DEF Prescaler, Enabled
    <3>2. CASE Prescaler # 0
      <4>1. Phase = 0 /\ Prescaler + 2 <= timerCtrl
        BY <1>2, <2>2, <2>4, <3>1, <3>2, PrescalerFits DEF MeasureInv
      <4>2. cycles = Prescaler + 1
        BY <4>1, PrescalerFits DEF Phase
      <4>3. Phase' = 1
        BY <2>1, <3>1, <4>1, <4>2, PrescalerFits DEF Phase
      <4>4. timer' * Round' = 0
        BY <2>1, PrescalerFits DEF Round
      <4> QED BY <2>1, <3>1, <3>2, <4>3, <4>4
    <3>3. CASE Prescaler = 0
      BY <2>1, <3>1, <3>3
    <3> QED BY <3>2, <3>3
  <2> QED BY <2>1, <2>2, <2>3, <2>4 DEF MeasureInv
<1>3. CASE write = NoWrite /\ ~CompareIrq /\ matches = 0
  <2>1. matches' = 0 /\ elapsed' \in Nat
    BY <1>3 DEF HistoryStep, MeasureInv
  <2> QED BY <2>1 DEF MeasureInv
<1>4. CASE write = NoWrite /\ ~CompareIrq /\ matches # 0
  <2>1. /\ cmp' = cmp /\ timerCtrl' = timerCtrl /\ matches' = matches
        /\ timer' <= cmp' /\ cycles' <= timerCtrl'
        /\ Enabled /\ Prescaler # 0 =>
             \/ timer' = timer + 1 /\ Phase = timerCtrl /\ Phase' = 0
             \/ timer' = timer /\ Phase' = Phase + 1 /\ Phase < timerCtrl
        /\ Enabled /\ Prescaler = 0 => timer' = timer + 1
        /\ ~Enabled => timer' = timer
        /\ timer < cmp /\ Phase \in Nat
    BY <1>4, MeasureCount
  <2>2. Prescaler' = Prescaler /\ (Enabled' <=> Enabled) /\ Round' = Round /\ Round \in Nat
    BY <2>1, PrescalerFits DEF Prescaler, Enabled, Round
  <2>3. elapsed' = IF elapsed < MaxElapsed /\ matches = 2 THEN elapsed + 1 ELSE elapsed
    BY <1>4 DEF HistoryStep
  <2>4. /\ timer * Round \in Nat /\ cmp * Round \in Nat /\ timer * Round + Round <= cmp * Round
        /\ (timer + 1) * Round = timer * Round + Round
    BY <2>1, <2>2, PrescalerFits, RoundsGrow
  <2>5. CompareIrq' => Enabled /\ (Prescaler # 0 => Phase' = 0)
    BY <1>4, <2>1, PrescalerFits DEF CompareIrq
  <2>6. ASSUME matches = 2, Enabled
        PROVE  elapsed' = IF Prescaler' = 0 THEN timer' + 1 ELSE timer' * Round' + Phase'
    <3>1. cmp + 1 <= MaxElapsed /\ cmp * Round <= MaxElapsed /\ MaxElapsed \in Nat
      <4>1. cmp \in CmpValues /\ timerCtrl \in CtrlValues
        BY <2>6, <1>4 DEF TimerTypeOK, MeasureInv, Enabled, EnableBit
      <4> QED BY <4>1, HistoryAssumption DEF Round
    <3>2. CASE Prescaler = 0
      <4>1. elapsed = timer + 1 /\ timer' = timer + 1
        BY <2>1, <2>6, <3>2 DEF MeasureInv
      <4> QED BY <2>1, <2>2, <2>3, <2>6, <3>1, <3>2, <4>1, PrescalerFits
    <3>3. CASE Prescaler # 0
      <4>1. elapsed = timer * Round + Phase /\ Round = timerCtrl + 1
        BY <2>6, <3>3 DEF MeasureInv, Round
      <4>2. Phase <= timerCtrl
        BY <2>1, <2>6, <3>3, PrescalerFits
      <4>3. elapsed < MaxElapsed
        BY <2>1, <2>4, <3>1, <4>1, <4>2, PrescalerFits
      <4>4. elapsed' = timer * Round + Phase + 1
        BY <2>3, <2>6, <4>1, <4>3
      <4>5. CASE timer' = timer + 1 /\ Phase = timerCtrl /\ Phase' = 0
        BY <2>1, <2>2, <2>4, <3>3, <4>1, <4>4, <4>5, PrescalerFits
      <4>6. CASE timer' = timer /\ Phase' = Phase + 1
        BY <2>1, <2>2, <2>4, <3>3, <4>4, <4>6
      <4> QED BY <2>1, <2>6, <3>3, <4>5, <4>6
    <3> QED BY <3>2, <3>3
  <2>7. elapsed' \in Nat /\ matches' \in 0 .. 2 /\ cmp' # 0
    BY <1>4, <2>1, <2>3 DEF MeasureInv
  <2> QED BY <2>1, <2>2, <2>5, <2>6, <2>7 DEF MeasureInv
<1> QED BY <1>1, <1>2, <1>3, <1>4

\* The distance of two compare interrupts of a timer left alone is exactly its
\* period, for every compare value, prescaler and phase of the cycle counter.
THEOREM PeriodExact == TimerSpec => []PeriodIsExact
<1>1. HistoryInit => MeasureInv
  BY DEF HistoryInit, TimerInit, MeasureInv
<1>2. TimerTypeOK /\ MeasureInv /\ [HistoryNext]_<<timerVars, timerHistory>> => MeasureInv'
  <2> SUFFICES ASSUME TimerTypeOK, MeasureInv, [HistoryNext]_<<timerVars, timerHistory>>
               PROVE  MeasureInv'
    OBVIOUS
  <2>1. CASE HistoryNext
    BY <2>1, NextIsAnyStep, MeasureStep DEF AnyStep
  <2>2. CASE UNCHANGED <<timerVars, timerHistory>>
    BY <2>2 DEF timerVars, timerHistory, MeasureInv, Phase, Round, CompareIrq, Enabled,
                Prescaler
  <2> QED BY <2>1, <2>2
<1>3. TimerTypeOK /\ MeasureInv => PeriodIsExact
  <2> SUFFICES ASSUME TimerTypeOK, MeasureInv, CompareIrq, matches = 2
               PROVE elapsed = Period
    BY DEF PeriodIsExact
  <2>1. timer = cmp
    BY DEF CompareIrq
  <2>2. Enabled /\ (Prescaler # 0 => Phase = 0)
    BY DEF MeasureInv
  <2> QED BY <2>1, <2>2, PrescalerFits, RoundsGrow DEF MeasureInv, Period, Round
<1> QED BY <1>1, <1>2, <1>3, TimerTypeCorrect, PTL DEF TimerSpec
=============================================================================

--------------------------- MODULE SleepPrograms ---------------------------
(***************************************************************************)
(* The software side, as programs of RiscyCore: check_sleep_irq and        *)
(* ISR_TA_CMP of sw/apps/riscv_tests/testEvents/testEvents.c, and the loop *)
(* of sw/apps/imperio_tests/testInterrupt/main.c.                          *)
(* An address is a name; stores carry APB accesses to the event unit       *)
(* (sw/libs/sys_lib/inc/event.h) and to the timer.  Loads, stores to the   *)
(* data RAM and arithmetic are "alu" instructions.                         *)
(***************************************************************************)
EXTENDS Naturals

EventBit == 0       \* the event software raises: ESP = 0x1
TimerBit == 1       \* the timer's compare line, bit 29 in the code

Op(unit, reg, data) == [unit |-> unit, reg |-> reg, data |-> data]
NoStore == Op("NONE", "NONE", {})

ClearAllEvents == Op("EVENT", "CLEAR_PENDING", {EventBit, TimerBit})
EnableTimerIrq == Op("IRQ", "ENABLE", {TimerBit})
StartTimer     == Op("TIMER", "CTRL", {0})
StopTimer      == Op("TIMER", "CTRL", {})
RequestSleep   == Op("SLEEP", "SLEEP_CTRL", {0})
ClearEvent     == Op("EVENT", "CLEAR_PENDING", {EventBit})
ClearTimerIrq  == Op("IRQ", "CLEAR_PENDING", {TimerBit})
RearmTimer     == Op("TIMER", "TIMER", {})
RaiseEvent     == Op("EVENT", "SET_PENDING", {EventBit})
EnableTimerEvent == Op("EVENT", "ENABLE", {TimerBit})

StoreOps == {NoStore, ClearAllEvents, EnableTimerIrq, StartTimer, StopTimer,
             RequestSleep, ClearEvent, ClearTimerIrq, RearmTimer, RaiseEvent,
             EnableTimerEvent}

-----------------------------------------------------------------------------
Store(op, next) == [kind |-> "store", arg |-> op,   next |-> next]
Csr(op, next)   == [kind |-> "csr",   arg |-> op,   next |-> next]
Plain(k, next)  == [kind |-> k,       arg |-> "NONE", next |-> next]

\* The interrupt handler: crt0 prologue, ISR_TA_CMP, crt0 epilogue.  Which arm
\* of its switch on g_sleep_irq_global is taken is a choice among arms.
IsrCode(arms) ==
    [ isr_enter  |-> Plain("alu", {"isr_clear"}),
      isr_clear  |-> Store(ClearTimerIrq, {"isr_switch"}),
      isr_switch |-> Plain("alu", arms),
      isr_rearm  |-> Store(RearmTimer, {"isr_leave"}),
      isr_signal |-> Store(RaiseEvent, {"isr_leave"}),
      isr_leave  |-> Plain("alu", {"isr_mret"}),
      isr_mret   |-> Plain("mret", {"isr_mret"}) ]

\* check_sleep_irq, run again and again.  between is the kind of the
\* instructions the test puts between the store of the sleep bit and wfi.
MainCode(between) ==
    [ main_clear |-> Store(ClearAllEvents, {"main_ier"}),
      main_ier   |-> Store(EnableTimerIrq, {"main_ie"}),
      main_ie    |-> Csr("ENABLE", {"main_timer"}),
      main_timer |-> Store(StartTimer, {"main_sleep"}),
      main_sleep |-> Store(RequestSleep, {"main_add"}),
      main_add   |-> Plain(between, {"main_wfi"}),
      main_wfi   |-> Plain("wfi", {"main_after"}),
      main_after |-> Plain("alu", {"main_off"}),
      main_off   |-> Store(StopTimer, {"main_check"}),
      main_check |-> Plain("alu", {"main_ack"}),
      main_ack   |-> Store(ClearEvent, {"main_di"}),
      main_di    |-> Csr("DISABLE", {"main_clear"}) ]

Join(f, g) == [a \in DOMAIN f \cup DOMAIN g |-> IF a \in DOMAIN f THEN f[a] ELSE g[a]]

AllArms == {"isr_rearm", "isr_signal", "isr_leave"}

\* The test as it is written.
TestEvents == Join(MainCode("alu"), IsrCode(AllArms))

\* The same with a handler that raises the event every time.
SignallingTest == Join(MainCode("alu"), IsrCode({"isr_signal"}))

\* The same with a multiplication before wfi.
MultiplyTest == Join(MainCode("mul"), IsrCode(AllArms))

\* The same with wfi directly after the store of the sleep bit.
DirectWfiTest ==
    [TestEvents EXCEPT !["main_sleep"] = Store(RequestSleep, {"main_wfi"})]

\* testInterrupt: the timer raises both an event and an interrupt; main sleeps
\* until the handler has counted enough of them, then disables interrupts for
\* good while the timer runs on.  How many are enough is open, and so is
\* whether the caller of sleep() waits for events alone.
LoopCode ==
    [ loop_ie    |-> Csr("ENABLE", {"loop_eer"}),
      loop_eer   |-> Store(EnableTimerEvent, {"loop_ier", "loop_timer"}),
      loop_ier   |-> Store(EnableTimerIrq, {"loop_timer"}),
      loop_timer |-> Store(StartTimer, {"loop_while"}),
      loop_while |-> Plain("alu", {"loop_sleep", "loop_di"}),
      loop_sleep |-> Store(RequestSleep, {"loop_nop"}),
      loop_nop   |-> Plain("alu", {"loop_wfi"}),
      loop_wfi   |-> Plain("wfi", {"loop_while"}),
      loop_di    |-> Csr("DISABLE", {"loop_end"}),
      loop_end   |-> Plain("alu", {"loop_end"}) ]

TestInterrupt == Join(LoopCode, IsrCode({"isr_leave"}))

LoopStart == "loop_ie"
MainStart == "main_clear"
IsrAddr   == DOMAIN IsrCode(AllArms)
IsrStart  == [i \in {EventBit, TimerBit} |-> "isr_enter"]
=============================================================================

---------------------------- MODULE FreeRTOSTime ----------------------------
(***************************************************************************)
(* The tick counter of tasks.c and the arithmetic on it: TickType_t is     *)
(* unsigned and narrower than int (configUSE_16_BIT_TICKS), so a sum is    *)
(* cut to the type when it is stored, and a difference is signed.          *)
(***************************************************************************)
EXTENDS Integers

CONSTANTS
    Tasks,              \* the task control blocks that may ever exist
    TickMod             \* the tick counter counts modulo this, 2^16 in the code

ASSUME TimeAssumption == TickMod \in Nat \ {0, 1}

Ticks == 0 .. TickMod - 1
portMAX_DELAY == TickMod - 1

\* A value between -TickMod and 2 * TickMod stored in a TickType_t.
Stored(n) == IF n >= TickMod THEN n - TickMod ELSE IF n < 0 THEN n + TickMod ELSE n

\* The condition of xTaskCheckForTimeOut, entered at entry to wait for ticks;
\* wrapped says that xNumOfOverflows has changed since.
Expired(now, wrapped, entry, ticks) ==
    \/ wrapped /\ now >= entry
    \/ now - entry >= ticks

\* What it leaves in *pxTicksToWait.
Remaining(now, entry, ticks) == Stored(ticks - (now - entry))

\* Whether vTaskDelayUntil has to wait: its wake time is still to come.
DelayUntilWaits(previous, wake, now) ==
    IF now < previous THEN wake < previous /\ wake > now
    ELSE wake < previous \/ wake > now
=============================================================================

------------------------------ MODULE TickWheel ------------------------------
(***************************************************************************)
(* What vTaskDelay and the timed calls promise: a task that waits for n    *)
(* ticks becomes ready with the n-th tick, unless an event makes it ready  *)
(* before.                                                                 *)
(***************************************************************************)
EXTENDS FreeRTOSTime

VARIABLE left       \* [Tasks -> the ticks still to come, 0 for a task that does not wait]

WheelTypeOK == left \in [Tasks -> 0 .. portMAX_DELAY]

WheelInit == left = [t \in Tasks |-> 0]

Wait(t, n) == left[t] = 0 /\ left' = [left EXCEPT ![t] = n]
Rouse(t) == left' = [left EXCEPT ![t] = 0]
Turn == left' = [t \in Tasks |-> IF left[t] = 0 THEN 0 ELSE left[t] - 1]

WheelNext == Turn \/ \E t \in Tasks : Rouse(t) \/ \E n \in 1 .. portMAX_DELAY : Wait(t, n)

WheelSpec == WheelInit /\ [][WheelNext]_left
=============================================================================

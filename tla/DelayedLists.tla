---------------------------- MODULE DelayedLists ----------------------------
(***************************************************************************)
(* How tasks.c does what TickWheel says with a counter that wraps: with    *)
(* two lists, the near one for the wake times up to the next wrap and the  *)
(* far one for those behind it, which change places when the counter       *)
(* wraps, and the time before which the near list need not be looked at.   *)
(***************************************************************************)
EXTENDS FreeRTOSTime

VARIABLES
    tick,           \* xTickCount
    near, far,      \* the tasks in pxDelayedTaskList and pxOverflowDelayedTaskList
    wake,           \* [Tasks -> their wake time], 0 for the others
    next            \* xNextTaskUnblockTime

delayedVars == <<tick, near, far, wake, next>>

DelayedTypeOK ==
    /\ tick \in Ticks /\ next \in Ticks
    /\ near \in SUBSET Tasks /\ far \in SUBSET Tasks
    /\ wake \in [Tasks -> Ticks]

DelayedInit ==
    /\ tick = 0 /\ next = portMAX_DELAY
    /\ near = {} /\ far = {} /\ wake = [t \in Tasks |-> 0]

Later(n) == Stored(tick + n)

\* prvResetNextTaskUnblockTime for a near list: the wake time of its head.
Earliest(list) ==
    IF list = {} THEN portMAX_DELAY
    ELSE CHOOSE w \in Ticks : /\ \E t \in list : wake[t] = w
                              /\ \A t \in list : w <= wake[t]

\* prvAddCurrentTaskToDelayedList.
Block(t, n) ==
    /\ t \notin near \cup far
    /\ wake' = [wake EXCEPT ![t] = Later(n)]
    /\ IF Later(n) < tick
       THEN far' = far \cup {t} /\ UNCHANGED <<near, next>>
       ELSE /\ near' = near \cup {t}
            /\ next' = IF Later(n) < next THEN Later(n) ELSE next
            /\ UNCHANGED far
    /\ UNCHANGED tick

\* An event, or a deletion, takes a task off its list; next may become stale,
\* but only too early.
Remove(t) ==
    /\ near' = near \ {t} /\ far' = far \ {t}
    /\ wake' = [wake EXCEPT ![t] = 0]
    /\ UNCHANGED <<tick, next>>

ResetNext == next' = Earliest(near) /\ UNCHANGED <<tick, near, far, wake>>

\* xTaskIncrementTick: the lists change places at the wrap, and the tasks that
\* are due leave the near one, which is looked at only when next has come.
TickStep ==
    LET now == Later(1)
        list == IF now = 0 THEN far ELSE near
        look == now >= (IF now = 0 THEN Earliest(list) ELSE next)
        due == IF look THEN {t \in list : wake[t] <= now} ELSE {}
    IN  /\ tick' = now
        /\ near' = list \ due
        /\ far' = IF now = 0 THEN near ELSE far
        /\ wake' = [t \in Tasks |-> IF t \in due THEN 0 ELSE wake[t]]
        /\ next' = IF look THEN Earliest(list \ due)
                   ELSE IF now = 0 THEN Earliest(list) ELSE next

DelayedNext ==
    \/ TickStep \/ ResetNext
    \/ \E t \in Tasks : Remove(t) \/ \E n \in 1 .. portMAX_DELAY : Block(t, n)

DelayedSpec == DelayedInit /\ [][DelayedNext]_delayedVars

-----------------------------------------------------------------------------
\* Where the waiting tasks are: in one list each, the near ones ahead of the
\* counter and the far ones behind it, and none ahead of its time.
DelayedInv ==
    /\ near \cap far = {}
    /\ \A t \in near : tick < wake[t] /\ next <= wake[t]
    /\ \A t \in far : wake[t] < tick

\* The wait of a task, in ticks.
LeftOf(t) == IF t \in near THEN wake[t] - tick
             ELSE IF t \in far THEN wake[t] + TickMod - tick
             ELSE 0

\* A wait of n ticks ends with the n-th tick, however the counter wraps.
Wheel == INSTANCE TickWheel WITH left <- [t \in Tasks |-> LeftOf(t)]
WaitsImplemented == Wheel!WheelSpec
=============================================================================

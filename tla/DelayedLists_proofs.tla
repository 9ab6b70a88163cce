------------------------ MODULE DelayedLists_proofs ------------------------
(***************************************************************************)
(* Proofs about the delayed lists, for any set of tasks and a tick counter *)
(* of any width: the lists are on their side of the wrap, and a wait of n  *)
(* ticks ends with the n-th tick.  And about the arithmetic on the counter *)
(* that tasks.c does where it does not use the lists.                      *)
(***************************************************************************)
EXTENDS DelayedLists, WellFoundedInduction, TLAPS

-----------------------------------------------------------------------------
(* Arithmetic on the tick counter. *)

\* A set of ticks that is not empty has a smallest member.
LEMMA SmallestTick ==
    ASSUME NEW T, T \subseteq Ticks, T # {}
    PROVE  \E x \in T : \A y \in T : x <= y
<1>1. T \subseteq Nat
  BY DEF Ticks
<1>2. \E x \in T : \A y \in T : <<y, x>> \notin OpToRel(<, Nat)
  BY <1>1, NatLessThanWellFounded, WFMin, Zenon
<1>3. PICK x \in T : \A y \in T : <<y, x>> \notin OpToRel(<, Nat)
  BY <1>2
<1>4. ASSUME NEW y \in T PROVE x <= y
  <2>1. ~(y < x)
    BY <1>1, <1>3, Zenon DEF OpToRel
  <2> QED BY <1>1, <2>1
<1> QED BY <1>4

\* prvResetNextTaskUnblockTime finds the first wake time of a list.
LEMMA EarliestIsFirst ==
    ASSUME DelayedTypeOK, NEW list \in SUBSET Tasks
    PROVE  /\ Earliest(list) \in Ticks
           /\ \A t \in list : Earliest(list) <= wake[t]
<1>1. CASE list = {}
  BY <1>1, TimeAssumption DEF Earliest, portMAX_DELAY, Ticks
<1>2. CASE list # {}
  <2> DEFINE times == {wake[t] : t \in list}
             IsFirst(w) == /\ \E t \in list : wake[t] = w
                           /\ \A t \in list : w <= wake[t]
  <2>1. times \subseteq Ticks /\ times # {}
    BY <1>2 DEF DelayedTypeOK
  <2>2. PICK w \in times : \A y \in times : w <= y
    BY <2>1, SmallestTick
  <2>3. w \in Ticks /\ IsFirst(w)
    BY <2>1, <2>2
  <2>4. Earliest(list) = CHOOSE v \in Ticks : IsFirst(v)
    BY <1>2 DEF Earliest
  <2>5. (CHOOSE v \in Ticks : IsFirst(v)) \in Ticks /\ IsFirst(CHOOSE v \in Ticks : IsFirst(v))
    BY <2>3
  <2> QED BY <2>4, <2>5
<1> QED BY <1>1, <1>2

\* A wait leads to a later tick, or to an earlier one behind the wrap.
LEMMA LaterCases ==
    ASSUME NEW now \in Ticks, NEW n \in 1 .. portMAX_DELAY
    PROVE  /\ Stored(now + n) \in Ticks
           /\ \/ Stored(now + n) = now + n /\ now < now + n
              \/ Stored(now + n) = now + n - TickMod /\ now + n - TickMod < now
BY TimeAssumption DEF Stored, Ticks, portMAX_DELAY

\* A tick counts by one, or wraps to 0.
LEMMA NextTick ==
    ASSUME NEW now \in Ticks
    PROVE  \/ Stored(now + 1) = now + 1 /\ now + 1 \in Ticks /\ now + 1 # 0
           \/ Stored(now + 1) = 0 /\ now = TickMod - 1
BY TimeAssumption DEF Stored, Ticks

-----------------------------------------------------------------------------
(* Types. *)

\* Whatever is asked for, the counter and the wake times stay in the type, and
\* the lists hold tasks.
THEOREM DelayedTypeCorrect == DelayedSpec => []DelayedTypeOK
<1>1. DelayedInit => DelayedTypeOK
  BY TimeAssumption DEF DelayedInit, DelayedTypeOK, Ticks, portMAX_DELAY
<1>2. DelayedTypeOK /\ [DelayedNext]_delayedVars => DelayedTypeOK'
  <2> SUFFICES ASSUME DelayedTypeOK, [DelayedNext]_delayedVars
               PROVE  DelayedTypeOK'
    OBVIOUS
  <2> USE DEF DelayedTypeOK
  <2>1. CASE TickStep
    <3> DEFINE now == Later(1)
               list == IF now = 0 THEN far ELSE near
               look == now >= (IF now = 0 THEN Earliest(list) ELSE next)
               due == IF look THEN {t \in list : wake[t] <= now} ELSE {}
    <3>1. now \in Ticks /\ 0 \in Ticks
      BY NextTick, TimeAssumption DEF Later, Ticks
    <3>2. list \in SUBSET Tasks /\ list \ due \in SUBSET Tasks
      OBVIOUS
    <3>3. Earliest(list) \in Ticks /\ Earliest(list \ due) \in Ticks
      BY <3>2, EarliestIsFirst
    <3>4. /\ tick' = now
          /\ near' = list \ due
          /\ far' = IF now = 0 THEN near ELSE far
          /\ wake' = [t \in Tasks |-> IF t \in due THEN 0 ELSE wake[t]]
          /\ next' = IF look THEN Earliest(list \ due)
                     ELSE IF now = 0 THEN Earliest(list) ELSE next
      BY <2>1 DEF TickStep
    <3> HIDE DEF now, look, due
    <3> QED BY <3>1, <3>2, <3>3, <3>4
  <2>2. CASE ResetNext
    BY <2>2, EarliestIsFirst DEF ResetNext
  <2>3. ASSUME NEW t \in Tasks, Remove(t) PROVE DelayedTypeOK'
    BY <2>3, TimeAssumption DEF Remove, Ticks
  <2>4. ASSUME NEW t \in Tasks, NEW n \in 1 .. portMAX_DELAY, Block(t, n) PROVE DelayedTypeOK'
    <3>1. Later(n) \in Ticks
      BY LaterCases DEF Later
    <3> QED BY <2>4, <3>1 DEF Block
  <2>5. CASE UNCHANGED delayedVars
    BY <2>5 DEF delayedVars
  <2> QED BY <2>1, <2>2, <2>3, <2>4, <2>5 DEF DelayedNext
<1> QED BY <1>1, <1>2, PTL DEF DelayedSpec

-----------------------------------------------------------------------------
(* The lists. *)

\* What a tick does: the tasks whose time has come leave the list that counts.
TickEffect(list, due) ==
    /\ due \subseteq list
    /\ tick' \in Ticks /\ near' = list \ due
    /\ wake' = [t \in Tasks |-> IF t \in due THEN 0 ELSE wake[t]]
    /\ \A t \in list \ due : next' <= wake[t] /\ tick' < wake[t]
    /\ \A t \in due : wake[t] = tick'
    /\ \/ tick' = tick + 1 /\ list = near /\ far' = far
       \/ tick' = 0 /\ tick = TickMod - 1 /\ near = {} /\ list = far /\ far' = {}

\* The tick has that effect for the list it looks at and the tasks it wakes.
LEMMA TickCases ==
    ASSUME DelayedTypeOK, DelayedInv, TickStep
    PROVE  \E list, due \in SUBSET Tasks : TickEffect(list, due)
<1> DEFINE now == Later(1)
           list == IF now = 0 THEN far ELSE near
           look == now >= (IF now = 0 THEN Earliest(list) ELSE next)
           due == IF look THEN {t \in list : wake[t] <= now} ELSE {}
<1>1. /\ tick' = now
      /\ near' = list \ due
      /\ far' = IF now = 0 THEN near ELSE far
      /\ wake' = [t \in Tasks |-> IF t \in due THEN 0 ELSE wake[t]]
      /\ next' = IF look THEN Earliest(list \ due)
                 ELSE IF now = 0 THEN Earliest(list) ELSE next
  BY DEF TickStep
<1>2. /\ list \in SUBSET Tasks /\ list \ due \in SUBSET Tasks /\ due \in SUBSET list
      /\ tick \in Ticks /\ next \in Ticks /\ \A t \in list : wake[t] \in Ticks
  BY DEF DelayedTypeOK
<1>3. /\ \/ now = tick + 1 /\ now \in Ticks /\ now # 0
         \/ now = 0 /\ tick = TickMod - 1
      /\ now \in Ticks
  BY <1>2, NextTick, TimeAssumption DEF Later, Ticks
<1>4. /\ Earliest(list) \in Ticks /\ \A t \in list : Earliest(list) <= wake[t]
      /\ Earliest(list \ due) \in Ticks /\ \A t \in list \ due : Earliest(list \ due) <= wake[t]
  BY <1>2, EarliestIsFirst
<1>5. now = 0 => near = {}
  <2> SUFFICES ASSUME now = 0, NEW t \in near PROVE FALSE
    OBVIOUS
  <2>1. tick = TickMod - 1 /\ wake[t] \in Ticks /\ tick < wake[t]
    BY <1>3, TimeAssumption DEF DelayedInv, DelayedTypeOK, Ticks
  <2> QED BY <2>1, TimeAssumption DEF Ticks
<1>6. ASSUME NEW t \in list PROVE now <= wake[t]
  <2>1. CASE now = 0
    BY <2>1, <1>2 DEF Ticks
  <2>2. CASE now # 0
    BY <2>2, <1>2, <1>3 DEF DelayedInv, Ticks
  <2> QED BY <2>1, <2>2
<1>7. ASSUME NEW t \in list \ due PROVE next' <= wake[t] /\ now < wake[t]
  <2>1. CASE look
    BY <2>1, <1>1, <1>2, <1>3, <1>4 DEF Ticks
  <2>2. CASE ~look /\ now = 0
    BY <2>2, <1>1, <1>2, <1>3, <1>4 DEF Ticks
  <2>3. CASE ~look /\ now # 0
    <3>1. next <= wake[t]
      BY <2>3 DEF DelayedInv
    <3> QED BY <2>3, <3>1, <1>1, <1>2, <1>3 DEF Ticks
  <2> QED BY <2>1, <2>2, <2>3
<1>8. ASSUME NEW t \in due PROVE wake[t] = now
  <2>1. t \in list /\ wake[t] <= now
    OBVIOUS
  <2> QED BY <2>1, <1>2, <1>3, <1>6 DEF Ticks
<1>9. \/ now = tick + 1 /\ list = near /\ far' = far
      \/ now = 0 /\ tick = TickMod - 1 /\ near = {} /\ list = far /\ far' = {}
  BY <1>1, <1>3, <1>5
<1> HIDE DEF now, list, look, due
<1> QED BY <1>1, <1>2, <1>3, <1>7, <1>8, <1>9 DEF TickEffect

\* No task is in both lists, the near ones have their time ahead of the counter
\* and none before xNextTaskUnblockTime, the far ones behind the wrap.
THEOREM DelayedListsSorted == DelayedSpec => []DelayedInv
<1>1. DelayedInit => DelayedInv
  BY DEF DelayedInit, DelayedInv
<1>2. DelayedTypeOK /\ DelayedInv /\ [DelayedNext]_delayedVars => DelayedInv'
  <2> SUFFICES ASSUME DelayedTypeOK, DelayedInv, [DelayedNext]_delayedVars
               PROVE  DelayedInv'
    OBVIOUS
  <2>1. CASE TickStep
    <3>1. PICK list \in SUBSET Tasks, due \in SUBSET Tasks : TickEffect(list, due)
      BY <2>1, TickCases
    <3> USE <3>1 DEF TickEffect
    <3>2. near' \cap far' = {} /\ far' \subseteq far /\ far' \cap due = {}
      BY <3>1 DEF DelayedInv
    <3>3. ASSUME NEW t \in near' PROVE tick' < wake'[t] /\ next' <= wake'[t]
      BY <3>1
    <3>4. ASSUME NEW t \in far' PROVE wake'[t] < tick'
      <4>1. wake'[t] = wake[t] /\ wake[t] \in Ticks /\ tick \in Ticks
        BY <3>1, <3>2 DEF DelayedTypeOK
      <4>2. tick' = tick + 1 /\ wake[t] < tick
        BY <3>1, <3>2 DEF DelayedInv
      <4> QED BY <4>1, <4>2 DEF Ticks
    <3> QED BY <3>2, <3>3, <3>4 DEF DelayedInv
  <2>2. CASE ResetNext
    <3>1. \A t \in near : next' <= wake[t]
      BY <2>2, EarliestIsFirst DEF ResetNext, DelayedTypeOK
    <3> QED BY <2>2, <3>1 DEF ResetNext, DelayedInv
  <2>3. ASSUME NEW t \in Tasks, Remove(t) PROVE DelayedInv'
    BY <2>3 DEF Remove, DelayedInv, DelayedTypeOK
  <2>4. ASSUME NEW t \in Tasks, NEW n \in 1 .. portMAX_DELAY, Block(t, n) PROVE DelayedInv'
    <3>1. /\ Later(n) \in Ticks /\ tick \in Ticks /\ next \in Ticks
          /\ Later(n) < tick \/ tick < Later(n)
      BY LaterCases DEF Later, DelayedTypeOK, Ticks
    <3>2. /\ wake'[t] = Later(n) /\ t \notin near /\ t \notin far
          /\ \A u \in near \cup far : u # t /\ wake'[u] = wake[u]
      BY <2>4 DEF Block, DelayedTypeOK
    <3>3. CASE Later(n) < tick
      BY <2>4, <3>2, <3>3 DEF Block, DelayedInv
    <3>4. CASE tick < Later(n)
      <4>1. /\ near' = near \cup {t} /\ far' = far /\ tick' = tick
            /\ next' \in Ticks /\ next' <= next /\ next' <= Later(n)
        BY <2>4, <3>1, <3>4 DEF Block, Ticks
      <4>2. ASSUME NEW u \in near PROVE next' <= wake[u]
        <5>1. next <= wake[u] /\ wake[u] \in Ticks
          BY DEF DelayedInv, DelayedTypeOK
        <5> QED BY <4>1, <5>1, <3>1 DEF Ticks
      <4> QED BY <3>2, <3>4, <4>1, <4>2 DEF DelayedInv
    <3> QED BY <3>1, <3>3, <3>4
  <2>5. CASE UNCHANGED delayedVars
    BY <2>5 DEF delayedVars, DelayedInv
  <2> QED BY <2>1, <2>2, <2>3, <2>4, <2>5 DEF DelayedNext
<1> QED BY <1>1, <1>2, DelayedTypeCorrect, PTL DEF DelayedSpec

-----------------------------------------------------------------------------
(* The waits. *)

\* What a task still has to wait, by the list it is in.
LEMMA LeftCases ==
    ASSUME DelayedTypeOK, DelayedInv, NEW t \in Tasks
    PROVE  /\ t \in near => LeftOf(t) = wake[t] - tick /\ LeftOf(t) \in 1 .. portMAX_DELAY
           /\ t \in far => LeftOf(t) = wake[t] + TickMod - tick /\ LeftOf(t) \in 1 .. portMAX_DELAY
           /\ t \notin near \cup far => LeftOf(t) = 0
<1>1. wake[t] \in Ticks /\ tick \in Ticks
  BY DEF DelayedTypeOK
<1>2. CASE t \in near
  <2>1. tick < wake[t] /\ t \notin far
    BY <1>2 DEF DelayedInv
  <2> QED BY <1>1, <1>2, <2>1, TimeAssumption DEF LeftOf, Ticks, portMAX_DELAY
<1>3. CASE t \in far
  <2>1. wake[t] < tick /\ t \notin near
    BY <1>3 DEF DelayedInv
  <2> QED BY <1>1, <1>3, <2>1, TimeAssumption DEF LeftOf, Ticks, portMAX_DELAY
<1>4. CASE t \notin near \cup far
  BY <1>4 DEF LeftOf
<1> QED BY <1>2, <1>3, <1>4

\* However the counter wraps, a task that is to wait for n ticks, and that no
\* event wakes before, becomes ready with the n-th: the two lists implement
\* the promise.
THEOREM DelaysAreExact == DelayedSpec => WaitsImplemented
<1> DEFINE left == [t \in Tasks |-> LeftOf(t)]
<1>1. DelayedInit => Wheel!WheelInit
  BY DEF DelayedInit, Wheel!WheelInit, LeftOf
<1>2. DelayedTypeOK /\ DelayedInv /\ DelayedInv' /\ DelayedTypeOK' /\ [DelayedNext]_delayedVars
          => [Wheel!WheelNext]_left
  <2> SUFFICES ASSUME DelayedTypeOK, DelayedInv, DelayedTypeOK', DelayedInv', [DelayedNext]_delayedVars
               PROVE  Wheel!WheelNext \/ left' = left
    OBVIOUS
  <2>1. CASE TickStep
    <3>1. PICK list \in SUBSET Tasks, due \in SUBSET Tasks : TickEffect(list, due)
      BY <2>1, TickCases
    <3>2. ASSUME NEW t \in Tasks
          PROVE  LeftOf(t)' = IF LeftOf(t) = 0 THEN 0 ELSE LeftOf(t) - 1
      <4>1. wake[t] \in Ticks /\ tick \in Ticks /\ tick' \in Ticks
        BY <3>1 DEF DelayedTypeOK, TickEffect
      <4>2. CASE t \in due
        <5>1. t \notin near' /\ t \notin far' /\ wake[t] = tick'
          BY <3>1, <4>2 DEF TickEffect, DelayedInv
        <5>2. \/ tick' = tick + 1 /\ LeftOf(t) = tick' - tick
              \/ tick' = 0 /\ tick = TickMod - 1 /\ LeftOf(t) = tick' + TickMod - tick
          BY <3>1, <4>2, <5>1, LeftCases DEF TickEffect
        <5>3. LeftOf(t) = 1
          BY <4>1, <5>2, TimeAssumption DEF Ticks
        <5> QED BY <5>1, <5>3 DEF LeftOf
      <4>3. CASE t \in list \ due
        <5>1. t \in near' /\ wake'[t] = wake[t] /\ tick' < wake[t]
          BY <3>1, <4>3 DEF TickEffect
        <5>2. LeftOf(t)' = wake[t] - tick'
          BY <5>1 DEF LeftOf
        <5>3. \/ tick' = tick + 1 /\ t \in near /\ LeftOf(t) = wake[t] - tick
              \/ tick' = 0 /\ tick = TickMod - 1 /\ LeftOf(t) = wake[t] + TickMod - tick
          BY <3>1, <4>3, LeftCases DEF TickEffect
        <5> QED BY <4>1, <5>1, <5>2, <5>3, TimeAssumption DEF Ticks
      <4>4. CASE t \notin list /\ t \in far
        <5>1. t \in far' /\ t \notin near' /\ wake'[t] = wake[t] /\ tick' = tick + 1 /\ wake[t] < tick
          BY <3>1, <4>4 DEF TickEffect, DelayedInv
        <5>2. LeftOf(t)' = wake[t] + TickMod - tick' /\ LeftOf(t) = wake[t] + TickMod - tick
          BY <4>4, <5>1, LeftCases DEF LeftOf
        <5> QED BY <4>1, <5>1, <5>2, TimeAssumption DEF Ticks
      <4>5. CASE t \notin near \cup far
        <5>1. t \notin near' \cup far'
          BY <3>1, <4>5 DEF TickEffect
        <5> QED BY <4>5, <5>1 DEF LeftOf
      <4> QED BY <3>1, <4>2, <4>3, <4>4, <4>5 DEF TickEffect
    <3>3. left' = [t \in Tasks |-> IF left[t] = 0 THEN 0 ELSE left[t] - 1]
      BY <3>2
    <3> QED BY <3>3 DEF Wheel!WheelNext, Wheel!Turn
  <2>2. CASE ResetNext
    BY <2>2 DEF ResetNext, LeftOf
  <2>3. ASSUME NEW t \in Tasks, Remove(t) PROVE Wheel!WheelNext
    <3>1. ASSUME NEW u \in Tasks PROVE LeftOf(u)' = IF u = t THEN 0 ELSE LeftOf(u)
      BY <2>3 DEF Remove, LeftOf, DelayedTypeOK
    <3>2. left' = [left EXCEPT ![t] = 0]
      BY <3>1
    <3> QED BY <3>2 DEF Wheel!WheelNext, Wheel!Rouse
  <2>4. ASSUME NEW t \in Tasks, NEW n \in 1 .. portMAX_DELAY, Block(t, n) PROVE Wheel!WheelNext
    <3>1. /\ t \notin near \cup far /\ tick' = tick /\ wake' = [wake EXCEPT ![t] = Later(n)]
          /\ IF Later(n) < tick THEN near' = near /\ far' = far \cup {t}
             ELSE near' = near \cup {t} /\ far' = far
      BY <2>4 DEF Block
    <3>2. ASSUME NEW u \in Tasks PROVE LeftOf(u)' = IF u = t THEN n ELSE LeftOf(u)
      <4>1. CASE u # t
        BY <3>1, <4>1 DEF LeftOf, DelayedTypeOK
      <4>2. CASE u = t
        <5>1. tick \in Ticks /\ wake'[t] = Later(n)
          BY <3>1 DEF DelayedTypeOK
        <5>2. \/ Later(n) = tick + n /\ ~(Later(n) < tick)
              \/ Later(n) = tick + n - TickMod /\ Later(n) < tick
          BY <5>1, LaterCases, TimeAssumption DEF Later, Ticks, portMAX_DELAY
        <5>3. LeftOf(t)' = IF Later(n) < tick THEN Later(n) + TickMod - tick ELSE Later(n) - tick
          BY <3>1, <5>1 DEF LeftOf
        <5> QED BY <4>2, <5>1, <5>2, <5>3, TimeAssumption DEF Ticks, portMAX_DELAY
      <4> QED BY <4>1, <4>2
    <3>3. left' = [left EXCEPT ![t] = n] /\ left[t] = 0
      BY <3>1, <3>2 DEF LeftOf
    <3> QED BY <3>3 DEF Wheel!WheelNext, Wheel!Wait, Wheel!portMAX_DELAY, portMAX_DELAY
  <2>5. CASE UNCHANGED delayedVars
    BY <2>5 DEF delayedVars, LeftOf
  <2> QED BY <2>1, <2>2, <2>3, <2>4, <2>5 DEF DelayedNext
<1> QED
  BY <1>1, <1>2, DelayedTypeCorrect, DelayedListsSorted, PTL
     DEF DelayedSpec, WaitsImplemented, Wheel!WheelSpec

-----------------------------------------------------------------------------
(* The comparisons of tasks.c: where they are right although the counter     *)
(* wraps, and where they are not.                                            *)

\* Before the counter wraps, xTaskCheckForTimeOut knows when the time has
\* expired and what of it is left.
THEOREM TimeOutExact ==
    ASSUME NEW entry \in Ticks, NEW ticks \in Ticks,
           NEW elapsed \in 0 .. TickMod - 1 - entry
    PROVE  /\ Expired(entry + elapsed, FALSE, entry, ticks) <=> elapsed >= ticks
           /\ elapsed < ticks => Remaining(entry + elapsed, entry, ticks) = ticks - elapsed
BY TimeAssumption DEF Ticks, Expired, Remaining, Stored

\* Once the counter has wrapped and until it comes to the tick of the entry
\* again, the time does not expire, however much has passed: the difference is
\* negative.  What is left is right as long as no more has passed than was asked
\* for, and from then on nearly a whole turn of the counter: the call waits again.
THEOREM TimeOutMissed ==
    ASSUME NEW entry \in Ticks, NEW ticks \in Ticks,
           NEW elapsed \in TickMod - entry .. TickMod - 1
    PROVE  LET now == entry + elapsed - TickMod
           IN  /\ ~Expired(now, TRUE, entry, ticks)
               /\ Remaining(now, entry, ticks) =
                      IF elapsed <= ticks THEN ticks - elapsed ELSE TickMod - (elapsed - ticks)
BY TimeAssumption DEF Ticks, Expired, Remaining, Stored

\* vTaskDelayUntil tells a wake time that is still to come from one that has
\* been missed, however the counter has wrapped between the last wake time and
\* now, and between it and the next one, as long as less than a turn has passed.
THEOREM DelayUntilExact ==
    ASSUME NEW previous \in Ticks, NEW increment \in 1 .. TickMod - 1,
           NEW elapsed \in 0 .. TickMod - 1
    PROVE  DelayUntilWaits(previous, Stored(previous + increment), Stored(previous + elapsed))
               <=> elapsed < increment
BY TimeAssumption DEF Ticks, DelayUntilWaits, Stored
=============================================================================

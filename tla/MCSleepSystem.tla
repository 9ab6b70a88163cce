--------------------------- MODULE MCSleepSystem ---------------------------
(***************************************************************************)
(* SleepSystem running the programs of SleepPrograms.                      *)
(***************************************************************************)
EXTENDS SleepInvariant, SleepPrograms

MCLines == {EventBit, TimerBit}

\* The test's own assertion (testEvents.c:117): when main runs on after wfi,
\* the event is pending.  An interrupt alone never carries main past wfi.
AwakeOnlyByEvent ==
    Decoding /\ idPc = "main_check" => EventBit \in eventRegs["PENDING"]

\* The test ends, time after time.
TestCompletes == []<>(idPc = "main_check")
=============================================================================

--------------------------- MODULE SleepInvariant ---------------------------
(***************************************************************************)
(* The inductive invariant behind the safety properties of SleepSystem,    *)
(* for every program.                                                      *)
(***************************************************************************)
EXTENDS SleepSystem, CoreInvariant

\* The busy flag is a cycle old.  When it is low the core had nothing to do in
\* the last cycle, and has started nothing but perhaps its wake-up since.
IdleInv ==
    ~coreBusyQ => /\ ctrl \in {"RESET", "BOOT_SET", "SLEEP", "FIRST_FETCH"}
                  /\ lsu = "IDLE" /\ "lsu" \notin exUnits /\ ~ifBusy

\* Nobody can have asked for sleep before the core has fetched.
BootInv ==
    ctrl \in {"RESET", "BOOT_SET"} =>
        /\ sleepState = "RUN" /\ ~sleepEnable
        /\ pathStage = "IDLE" /\ "lsu" \notin exUnits

\* A latched request brings the core out of its sleep state at once: with the
\* sleep unit in SLEEP the core is already on its way to the handler.
WakeInv ==
    irqCtrl = "IRQ_PENDING" /\ sleepState = "SLEEP" =>
        ctrl \in {"FIRST_FETCH", "DECODE", "IRQ_FLUSH", "IRQ_TAKEN_ID", "IRQ_TAKEN_IF"}

\* The conjunction: what every reachable state of core, event unit, bus path
\* and clock gate satisfies.
SleepInv ==
    /\ SysTypeOK
    /\ CoreInv
    /\ IdleInv
    /\ BootInv
    /\ WakeInv
    /\ AnswerExpected
=============================================================================

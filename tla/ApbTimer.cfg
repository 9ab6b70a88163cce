SPECIFICATION FairTimerSpec
CONSTANTS
    Modulus = 8
    TimerValues = {0, 3, 5}
    CtrlValues = {0, 1, 9}
    CmpValues = {0, 3, 7}
    MaxElapsed = 70
INVARIANTS
    TimerTypeOK
    NoOverrun
    PeriodIsExact
PROPERTIES
    OneCyclePulse
    PulsesImplemented
    KeepsFiring

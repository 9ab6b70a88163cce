SPECIFICATION TimerSpec
CONSTANTS
    Modulus = 8
    TimerValues = {0}
    CtrlValues = {5}
    CmpValues = {4}
    MaxElapsed = 24
INVARIANTS
    DocumentedPeriod

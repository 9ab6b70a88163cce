SPECIFICATION FairHistorySpec
CONSTANTS
    Lines <- MCLines
    TimerLine <- TimerBit
    MaxPulses = 3
    Program <- TestInterrupt
    Boot <- LoopStart
    Handler <- IsrStart
    Ops <- StoreOps
    NoOp <- NoStore
    HandlerCode <- IsrAddr
INVARIANTS
    NoInstructionDropped
    TakenOnlyEnabled
    DisableIsFinal
PROPERTIES
    EventWakes
    LoopGoesOn

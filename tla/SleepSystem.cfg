SPECIFICATION HistorySpec
CONSTANTS
    Lines <- MCLines
    TimerLine <- TimerBit
    MaxPulses = 3
    Program <- TestEvents
    Boot <- MainStart
    Handler <- IsrStart
    Ops <- StoreOps
    NoOp <- NoStore
    HandlerCode <- IsrAddr
INVARIANTS
    SysTypeOK
    SleepInv
    ClockGateSafe
    AnswerExpected
    NoStaleInterrupt
    FlushedAsleep
    WokenForInterrupt
    AwakeOnlyByEvent
    NoLostPulse
    ProgramOrder
    NoNesting
PROPERTIES
    KeepsClockContract

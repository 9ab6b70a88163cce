SPECIFICATION SysSpec
CONSTANTS
    Lines <- MCLines
    TimerLine <- TimerBit
    MaxPulses = 3
    Program <- DirectWfiTest
    Boot <- MainStart
    Handler <- IsrStart
    Ops <- StoreOps
    NoOp <- NoStore
INVARIANTS
    AwakeOnlyByEvent

SPECIFICATION FairSysSpec
CONSTANTS
    Lines <- MCLines
    TimerLine <- TimerBit
    MaxPulses = 2
    Program <- SignallingTest
    Boot <- MainStart
    Handler <- IsrStart
    Ops <- StoreOps
    NoOp <- NoStore
PROPERTIES
    InterruptTaken
    TestCompletes
    FlushEnds

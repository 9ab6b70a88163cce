SPECIFICATION FairSysSpec
CONSTANTS
    Lines <- MCLines
    TimerLine <- TimerBit
    MaxPulses = 2
    Program <- MultiplyTest
    Boot <- MainStart
    Handler <- IsrStart
    Ops <- StoreOps
    NoOp <- NoStore
PROPERTIES
    FlushEnds

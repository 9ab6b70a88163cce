SPECIFICATION HistorySpec
CHECK_DEADLOCK FALSE
CONSTANTS
    Tasks <- MCTasks
    IdleTask = "idle"
    xListEnd = "end"
    MaxPriorities = 3
    TickMod = 5
    OverflowMod = 4
    NoMessage = "empty"
    Messages = {"m1", "m2"}
    Plans <- TimeoutPlans
    StackSize = 4
    TcbSize = 1
    HeapSize = 24
    MaxPended = 2
    MaxLock = 2
    MaxNotified = 2
PROPERTY WaitIsBounded

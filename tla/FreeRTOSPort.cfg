SPECIFICATION PortSpec
CHECK_DEADLOCK FALSE
CONSTANTS
    PortTasks = {a, b}
    FirstTask = a
    MaxFrames = 2
INVARIANT ResumesWhereItLeft

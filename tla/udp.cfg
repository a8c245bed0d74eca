SPECIFICATION FairSpec
CONSTANTS
    c1 = c1
    c2 = c2
    c3 = c3
    a1 = a1
    a2 = a2
    w1 = w1
    w2 = w2
    None = None
    Conns = {c1, c2, c3}
    Workers = {w1, w2}
    RemoteAddr <- SharedAddr
INVARIANTS
    IndInv
    StopLeavesNoWork
    LossHasCause
PROPERTIES
    StopCompletes
    ArrivalsAreHandled
    TasksEnd
    ImplementsContract
    RunsConnectionTasks
CHECK_DEADLOCK FALSE

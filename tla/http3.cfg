SPECIFICATION FairSpec
CONSTANTS
    r1 = r1
    r2 = r2
    r3 = r3
    None = None
    Reqs = {r1, r2, r3}
    Raw = {r3}
    BigHead = {r2}
    Bodies <- SomeBodies
INVARIANTS
    IndInv
    FinishedIsWhole
    EndHasCause
PROPERTIES
    AllHandled
    SessionEnds
    ImplementsTask
CHECK_DEADLOCK FALSE

SPECIFICATION Spec
CONSTANTS
    Proc <- MCProc
    Init1 = 1
    NOFILE = 2
    File <- MCFile
    Ino = {i, j}
    Block <- MCBlock
    PipeId = {q}
    NDIRECT = 1
    BSIZE = 2
    CHUNK = 2
    Bufs <- MCBufs
    Mode <- MCMode
    Scenario <- MCScenario
    None = None
INVARIANTS RefsExact BlocksOwned ContentsKept
SYMMETRY Symmetric
CHECK_DEADLOCK FALSE

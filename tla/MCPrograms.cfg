SPECIFICATION FairSpec
CONSTANTS
    Proc <- MCProc
    PipeId <- MCPipeId
    CAP = 2
    MaxNumber = 13
    MAXARGS = 4
    Commands <- MCCommands
    Texts <- MCTexts
    Limits = {3, 5, 8}
    None = None
INVARIANTS ResultRight LinesParsed
PROPERTY ProgramsFinish
CHECK_DEADLOCK FALSE

SPECIFICATION FairSpec
CONSTANTS
    Execs = {e1}
    Workspace = {a, b}
    Outputs = {c, d}
    Log = log
INVARIANTS
    LogsBracketTheCall
    AnswerIsComplete
    LogTellsAll
PROPERTY
    CallsEnd
CHECK_DEADLOCK FALSE

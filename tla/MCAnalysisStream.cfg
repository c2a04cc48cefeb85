SPECIFICATION StreamSpec
CONSTANTS
    Threads = {t1, t2}
    Streams <- MCStreams
    MaxQuestions = 2
    None = none
INVARIANT
    TimelineIsTrue
PROPERTIES
    ForeignOnlyWhileSwitching
    StreamingEnds
CHECK_DEADLOCK FALSE

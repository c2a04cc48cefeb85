SPECIFICATION Spec
CONSTANTS
    Workers = {w1, w2}
    Ids = {d1, d2}
    Callers = {w2}
    MaxVersion = 2
    None = none
    Limits <- MCLimits
    DefaultLimit = 1
    EngineMax = 2
    Maxima = {1, 3}
    Contents <- MCContents
    Important <- MCImportant
    Keys = {"order_id"}
    MaxTables = 2
    MaxColumns = 1
    Questions <- MCQuestions
SYMMETRY Symmetry
INVARIANTS
    TypeOK
    DatasourcesAreUsable
    ExecutedWasChecked
    AnswersMatchArtifacts
    EnvRunsAreReady
    KnownIsReused
    ContextHangsTogether
PROPERTY
    ContractSpec

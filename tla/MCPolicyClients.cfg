SPECIFICATION Spec
CONSTANTS
    Evaluators = {e1, e2}
    Paths <- MCPaths
    Keys = {"k"}
    Types = {"sqlite", "mysql", "postgresql"}
    Ports = {1, 2}
    Tables = {"a", "b"}
    Views = {"b"}
    Limits = {0, 1, 2}
    DefaultLimit = 1
    MaxLimit = 1
    MaxRows = 2
SYMMETRY Symmetry
INVARIANTS
    BlockedStaysBlocked
    AnswersAreOnRecord
    WholeUnlessDisturbed
    KnownIsTaken
    SchemaIsOfItsTime

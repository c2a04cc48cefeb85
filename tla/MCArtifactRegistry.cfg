SPECIFICATION Spec
CONSTANTS
    Workers = {w1, w2}
    Ids = {a1, a2}
    Contents = {c1, c2}
    Nothing = nothing
    Made = made
    Torn = torn
    Claims = {k1}
SYMMETRY Symmetry
INVARIANTS
    RowHasContent
    RecordsAreWhole
PROPERTIES
    LogSpec
    OrphansComeFromFailures

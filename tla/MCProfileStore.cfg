SPECIFICATION Spec
CONSTANTS
    Workers = {w1, w2}
    Schemas = {s1, s2}
    NoSchema = null
    Supplied = {c1, c2}
    Inferred = {a1}
    Nothing = nothing
SYMMETRY Symmetry
INVARIANTS
    MartsHaveProfiles
    ManualMeansSupplied
PROPERTY
    ManualLostBySight

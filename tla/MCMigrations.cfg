SPECIFICATION Spec
CONSTANTS
    Processes = {p1, p2}
    Slots = {s1, s2}
    Nobody = nobody
SYMMETRY Symmetry
INVARIANTS
    RecordedMeansApplied
    ServedMeansCurrent
PROPERTY
    OnlyCrashesStrand

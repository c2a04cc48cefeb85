SPECIFICATION Spec
CONSTANTS
    Workers = {w1, w2}
    Runs = {r1}
    Keys = {k1}
    Artifacts = {a1}
    NoArtifact = NoArtifact
SYMMETRY WorkerSymmetry
PROPERTY
    TerminalIsFinal

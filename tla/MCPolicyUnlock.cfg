SPECIFICATION PolicySpec
CONSTANT
    Evaluators = {e1}
INVARIANT
    ApprovalUnlocks

SPECIFICATION Spec
CONSTANTS
    Branches = {"main", "fix"}
    Main = "main"
    Customs <- MCCustoms
    Changes = {x1}
    Commands = {c1, c2}
    MaxRuns = 2
INVARIANTS UsableAtEveryStep
SYMMETRY MCSymmetry
CHECK_DEADLOCK FALSE

SPECIFICATION Spec
CONSTANTS
    Reviewers = {r1, r2}
    Approvers = {}
    Autos = {}
    Resetters = {z1}
    Stacks <- MCStacks
    Views <- MCAllViews
    Options <- MCChoices
    MaxRuns = 3
    MaxRewrites = 1
    MaxCrashes = 1
INVARIANTS WorktreeExclusive RunningAttemptIntact
PROPERTIES BeginLeavesOneActive
CHECK_DEADLOCK FALSE

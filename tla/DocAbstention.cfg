SPECIFICATION Spec
CONSTANTS
    Reviewers = {}
    Approvers = {a1}
    Autos = {m1}
    Resetters = {}
    Stacks <- MCStacks
    Views <- MCViews
    Options <- MCOptions
    MaxRuns = 2
    MaxRewrites = 0
    MaxCrashes = 0
PROPERTIES AbstentionKeepsApproval
CHECK_DEADLOCK FALSE

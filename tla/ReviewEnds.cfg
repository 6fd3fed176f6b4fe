SPECIFICATION FairSpec
CONSTANTS
    Reviewers = {r1}
    Approvers = {a1}
    Autos = {m1}
    Resetters = {}
    Stacks <- MCStacks
    Views <- MCViews
    Options <- MCOptions
    MaxRuns = 2
    MaxRewrites = 1
    MaxCrashes = 0
PROPERTIES CommandsEnd
CHECK_DEADLOCK FALSE

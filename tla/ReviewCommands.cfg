SPECIFICATION Spec
CONSTANTS
    Reviewers = {r1}
    Approvers = {a1}
    Autos = {m1}
    Resetters = {z1}
    Stacks <- MCStacks
    Views <- MCViews
    Options <- MCBoundedOptions
    MaxRuns = 2
    MaxRewrites = 2
    MaxCrashes = 1
INVARIANTS TypeOK UpdatesAreExclusive OpensOnce
PROPERTIES ImplementsLedger ApprovalsPersist ApprovalsRespectReviews 
CHECK_DEADLOCK FALSE

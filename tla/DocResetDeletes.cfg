SPECIFICATION Spec
CONSTANTS
    Views <- MCViews
    MaxSessions = 2
    MaxRewrites = 0
    MaxCrashes = 0
INVARIANTS ResetDeletesSessions
CHECK_DEADLOCK FALSE

SPECIFICATION Spec
CONSTANTS
    Views <- MCViews
    MaxSessions = 3
    MaxRewrites = 2
    MaxCrashes = 1
INVARIANTS EntriesHaveFiles MarksAreCurrent 
CHECK_DEADLOCK FALSE

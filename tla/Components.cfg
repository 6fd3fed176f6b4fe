SPECIFICATION ComponentsSpec
SYMMETRY Symmetry
CONSTANTS
    MaxAttempts = 3
    Importers = {p1, p2}
    CloneTrees = {"s1", "s2", "s3"}
    MainSource = "s1"
    Targets = {"t1", "t2"}
    TargetOf <- Belongs
    Texts = {"x1"}
    MaxImports = 2
    Hashers = {p1, p2}
    Stacks = {"s1"}
    Settings = {"a", "b"}
    MaxAge = 0
    MaxTempAge = 0
    MaxEntries = 1
    MaxNow = 2
    Setups = {p1, p2}
    Owners = {"me", "old"}
    FirstOwner = "old"
    Lifetime = 1
    MaxSetups = 2
    MaxTime = 2
    Titles = {"A", "B"}
    ChangeIds = {"i"}
    MaxCommits = 4
    Elements = {"a", "b"}
    MaxDepth = 2
    MaxTrees = 3
    Machines = {m1, m2}
    Bumps = {p1, p2}
    Kinds = {"major", "patch"}
    MaxBumps = 2
    MaxTip = 1
    Providers = {"p", "q"}
    ModelIds <- ModelNames
    DefaultMaxRequests = 3
    MaxRequestFlags = {0, 1}
    MaxCalls = 3
    MaxInputBytes = 1
    MaxContextBytes = 3
    AutoContextLimit = 2
    Sizes = {1, 2, 3}
    CallIds = {"c1", "c2", "c3"}
    MaxItems = 2
    Reviewers = {p1, p2}
    NoReviewer = none
    Dirs = {".", "sub"}
    MaxReviews = 2
    MaxSaves = 2
    MaxHead = 1
INVARIANTS ComponentsTypeOK   LatestIsLoop UnfinishedHidesApproval ResetLeavesNothing EntriesAreTrue ApprovalsAreEarned
PROPERTIES TrashedSourcesLiveOn  ChoicesAreLostOnlyToOverlap AutosquashKeepsMessages RolledBackImportLeavesNothing  SelectionIsNamed 
CHECK_DEADLOCK FALSE

SPECIFICATION Spec
CONSTANTS
    Repos = {"r"}
    Trees = {"main", "fix", "loose", "late"}
    Names <- MCRenameNames
    RepoOf <- MCRenameRepoOf
    BranchOf <- MCRenameBranchOf
    Detached = "none"
    Starts <- MCReviewedStarts
    Concurrent = FALSE
    None = "nothing"
    MaxFaults = 0
    MaxKills = 0
INVARIANTS DocRenameMovesWorktrees

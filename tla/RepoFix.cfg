SPECIFICATION Spec
CONSTANTS
    Repos = {"r", "s"}
    Trees = {"tree", "internal", "other"}
    Names <- MCFixNames
    RepoOf <- MCFixRepoOf
    BranchOf <- MCFixBranchOf
    Detached = "none"
    Starts <- MCFixStarts
    Concurrent = TRUE
    None = "nothing"
    MaxFaults = 1
    MaxKills = 2
INVARIANTS FixLinksWorktrees ReviewCheckoutRecovers

SPECIFICATION Spec
CONSTANTS
    Repos = {"r"}
    Trees = {"main", "fix", "loose", "late"}
    Names <- MCRenameNames
    RepoOf <- MCRenameRepoOf
    BranchOf <- MCRenameBranchOf
    Detached = "none"
    Starts <- MCRenameStarts
    Concurrent = TRUE
    None = "nothing"
    MaxFaults = 2
    MaxKills = 1
INVARIANTS RenameIsAllOrNothing RenamedRepoWorks UndisturbedRenameSucceeds

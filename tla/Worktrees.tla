----------------------------- MODULE Worktrees -----------------------------
(***************************************************************************)
(* The worktrees of one repository: `create`, `remove`, `prune` and        *)
(* `repo remove`, beside each other and beside a user who works with Git.  *)
(*                                                                         *)
(* Every command looks before it acts, and Git has no lock that lasts over *)
(* both: what a command has seen can be outdated when it acts.  Each call  *)
(* of Git that changes something, or decides something, is a step of its   *)
(* own; Timber can be killed between two of them.                          *)
(*                                                                         *)
(* Work is a set of changes.  The tip of a branch is the set of changes    *)
(* that its history contains, so that "merged" is inclusion.               *)
(***************************************************************************)
EXTENDS Naturals, FiniteSets

CONSTANTS
    Branches,   \* names of branches, and so of worktrees
    Main,       \* the default branch of origin
    Customs,    \* places outside the managed layout
    Changes,    \* what users can write
    Commands,   \* processes of Timber
    MaxRuns     \* bound on the commands started

ASSUME WorktreesAssumption ==
    /\ Main \in Branches
    /\ "" \notin Branches
    /\ MaxRuns \in Nat

VARIABLES
    registered, \* the bare repository is there
    tip,        \* local branches and their changes
    upstream,   \* the branch of origin that a local branch tracks, or ""
    origin,     \* the branches of origin
    tracking,   \* refs/remotes/origin
    trees,      \* the checkouts by place
    config,     \* what the repository's configuration says
    made,       \* changes written so far
    pc,         \* the next step of each command
    job,        \* what each command remembers
    runs

repository == <<registered, tip, upstream, origin, tracking, trees>>
vars == <<repository, config, made, pc, job, runs>>
----------------------------------------------------------------------------
Put(f, x, v) == [y \in DOMAIN f \cup {x} |-> IF y = x THEN v ELSE f[y]]
Without(f, x) == [y \in DOMAIN f \ {x} |-> f[y]]
Union(f) == UNION {f[x] : x \in DOMAIN f}

\* managedWorktreePath: <root>/<repo>/<name>/<repo>.
Standard(b) == <<"root", b>>
Places == {Standard(b) : b \in Branches} \cup Customs

\* A checkout: its branch ("" when detached), the name that Timber recorded, the
\* changes not committed, whether it has hooks of its own, whether its directory is
\* gone and only Git's entry is left.
Tree(b) == [branch |-> b, name |-> "", edits |-> {}, hooks |-> FALSE, gone |-> FALSE]

\* core.bare in the shared file and in that of the main worktree, which Git reads
\* only with extensions.worktreeConfig.
IsBare == IF config.extension THEN config.marker ELSE config.shared

\* A repository that is not bare has a main worktree: `git worktree list` shows the
\* directory around it, on the branch of HEAD.
CheckedOut(b) ==
    \/ \E p \in DOMAIN trees : trees[p].branch = b
    \/ ~IsBare /\ b = Main

\* recordedWorktreeName: the branch in the standard layout, else the record.  ""
\* stands for a name derived from the place.
Name(p) ==
    IF p = Standard(trees[p].branch) THEN trees[p].branch
    ELSE IF trees[p].gone THEN "" ELSE trees[p].name

Managed == {p \in DOMAIN trees : trees[p].branch # ""}

\* The tracking reference of a branch, by upstreamReference.
Tracks(b) == b \in DOMAIN tip /\ upstream[b] # "" /\ upstream[b] \in DOMAIN tracking

\* A mutant of Merged: the inclusion the wrong way round.
MergedReversed(b) ==
    /\ Tracks(b)
    /\ upstream[b] = b => b = Main
    /\ tracking[upstream[b]] \subseteq tip[b]

\* A branch that tracks its own namesake says nothing about landing, except for
\* the default branch.
Merged(b) ==
    /\ Tracks(b)
    /\ upstream[b] = b => b = Main
    /\ tip[b] \subseteq tracking[upstream[b]]

Present(p) == p \in DOMAIN trees /\ ~trees[p].gone
Clean(p) == trees[p].edits = {}

\* `git branch -d` asks Git's own question: contained in the upstream, or in HEAD.
FullyMerged(b) ==
    IF Tracks(b) THEN tip[b] \subseteq tracking[upstream[b]]
    ELSE Main \in DOMAIN tip /\ tip[b] \subseteq tip[Main]

\* All work that is still somewhere.
Work == Union(tip) \cup Union(origin) \cup Union(tracking)
        \cup UNION {trees[p].edits : p \in DOMAIN trees}

NoJob == [op |-> "none", branch |-> "", place |-> <<>>, force |-> FALSE,
          exists |-> FALSE, chosen |-> {}, seen |-> {}, before |-> {}]

Init ==
    /\ registered = TRUE
    /\ tip = [b \in {Main} |-> {}]
    /\ upstream = [b \in Branches |-> ""]
    /\ origin = [b \in {Main} |-> {}]
    /\ tracking = [b \in {Main} |-> {}]
    /\ trees = [p \in {} |-> Tree("")]
    /\ config = [shared |-> TRUE, marker |-> FALSE, extension |-> FALSE]
    /\ made = {}
    /\ pc = [c \in Commands |-> "idle"]
    /\ job = [c \in Commands |-> NoJob]
    /\ runs = 0
----------------------------------------------------------------------------
Goto(c, step) == pc' = [pc EXCEPT ![c] = step]
At(c, step) == registered /\ pc[c] = step
Stop(c) == Goto(c, "idle") /\ job' = [job EXCEPT ![c] = NoJob]
Start(c, step, j) ==
    /\ registered /\ pc[c] = "idle" /\ runs < MaxRuns
    /\ runs' = runs + 1
    /\ Goto(c, step)
    /\ job' = [job EXCEPT ![c] = j]
    /\ UNCHANGED <<repository, config, made>>

\* A call of Git fails, and the command returns its error.
Fail(c) == Stop(c) /\ UNCHANGED <<repository, config, made, runs>>

(***************************************************************************)
(* `create`.                                                               *)
(***************************************************************************)
\* createWorktreeCheckout up to rejectDuplicateWorktree: the directory must be
\* absent or empty and the name free.  A name that Timber draws is free as well.
StartCreate(c) ==
    \E b \in Branches : \E p \in {Standard(b)} \cup Customs :
        /\ ~Present(p)
        /\ \A q \in Managed : Name(q) # b
        /\ Start(c, "fetch", [NoJob EXCEPT !.op = "create", !.branch = b, !.place = p])

\* fetchOrigin, of `create` and of `remove`.
Fetch(c) ==
    /\ At(c, "fetch")
    /\ tracking' = [b \in DOMAIN tracking \cup DOMAIN origin |->
                        IF b \in DOMAIN origin THEN origin[b] ELSE tracking[b]]
    /\ Goto(c, IF job[c].op = "create" THEN "look" ELSE "check")
    /\ UNCHANGED <<registered, tip, upstream, origin, trees, config, made, job, runs>>

FetchFails(c) == At(c, "fetch") /\ Fail(c)

\* addWorktreeBranch asks whether the branch exists.
LookBranch(c) ==
    /\ At(c, "look")
    /\ job' = [job EXCEPT ![c].exists = job[c].branch \in DOMAIN tip]
    /\ Goto(c, "add")
    /\ UNCHANGED <<repository, config, made, runs>>

\* `git worktree add [-b]`, which checks its own conditions.
Addable(c) ==
    /\ job[c].place \notin DOMAIN trees
    /\ IF job[c].exists
       THEN job[c].branch \in DOMAIN tip /\ ~CheckedOut(job[c].branch)
       ELSE job[c].branch \notin DOMAIN tip

Added(c, t) ==
    /\ tip' = t
    /\ trees' = Put(trees, job[c].place, Tree(job[c].branch))
    /\ Goto(c, "track")
    /\ UNCHANGED <<registered, upstream, origin, tracking, config, made, job, runs>>

\* A mutant of Add: `git worktree add -B`.
AddReset(c) ==
    /\ At(c, "add") /\ job[c].place \notin DOMAIN trees /\ ~CheckedOut(job[c].branch)
    /\ Added(c, Put(tip, job[c].branch, tracking[Main]))

Add(c) ==
    /\ At(c, "add") /\ Addable(c)
    /\ Added(c, IF job[c].exists THEN tip
                ELSE Put(tip, job[c].branch, tracking[Main]))

AddFails(c) == At(c, "add") /\ ~Addable(c) /\ Fail(c)

\* setBranchUpstream, then recordExplicitWorktreeName for a place of the user's.
Track(c) ==
    /\ At(c, "track") /\ job[c].branch \in DOMAIN tip
    /\ upstream' = [upstream EXCEPT ![job[c].branch] = Main]
    /\ Goto(c, IF job[c].place \in Customs THEN "record" ELSE "enabled")
    /\ UNCHANGED <<registered, tip, origin, tracking, trees, config, made, job, runs>>

TrackFails(c) == At(c, "track") /\ job[c].branch \notin DOMAIN tip /\ Fail(c)

Record(c) ==
    /\ At(c, "record") /\ Present(job[c].place)
    /\ trees' = [trees EXCEPT ![job[c].place].name = job[c].branch]
    /\ Goto(c, "enabled")
    /\ UNCHANGED <<registered, tip, upstream, origin, tracking, config, made, job, runs>>
----------------------------------------------------------------------------
(***************************************************************************)
(* ConfigureWorktreeHooks, the end of `create`.  Before it the command may *)
(* wait for the answers to its prompts.                                    *)
(***************************************************************************)
\* Is core.hooksPath set?  Is the extension on?
ReadEnabled(c) ==
    /\ At(c, "enabled") /\ Present(job[c].place)
    /\ IF trees[job[c].place].hooks THEN Stop(c)
       ELSE Goto(c, IF config.extension THEN "hooks" ELSE "bare") /\ UNCHANGED job
    /\ UNCHANGED <<repository, config, made, runs>>

\* A mutant of ReadBare: the shared marker goes before the other one is written.
ReadBareReversed(c) ==
    /\ At(c, "bare")
    /\ Goto(c, IF IsBare THEN "unmark" ELSE "mark")
    /\ UNCHANGED <<repository, config, made, job, runs>>

\* enableWorktreeConfig: read core.bare, record it for the main worktree, drop it
\* from the shared file, turn the extension on.
ReadBare(c) ==
    /\ At(c, "bare")
    /\ Goto(c, IF IsBare THEN "mark" ELSE "extend")
    /\ UNCHANGED <<repository, config, made, job, runs>>

Configure(c, step, key, value) ==
    /\ config' = [config EXCEPT ![key] = value]
    /\ Goto(c, step)
    /\ UNCHANGED <<repository, made, job, runs>>

Mark(c) == At(c, "mark") /\ Configure(c, "unmark", "marker", TRUE)

Unmark(c) == At(c, "unmark") /\ config.shared /\ Configure(c, "extend", "shared", FALSE)

\* `git config --unset` of a key that is no longer there is an error.
UnmarkFails(c) == At(c, "unmark") /\ ~config.shared /\ Fail(c)

Extend(c) == At(c, "extend") /\ Configure(c, "hooks", "extension", TRUE)

\* A mutant of Hooks: an outdated look at the worktree.
HooksUnchecked(c) ==
    /\ At(c, "hooks")
    /\ trees' = [p \in DOMAIN trees |->
                    IF p = job[c].place THEN [trees[p] EXCEPT !.hooks = TRUE] ELSE trees[p]]
    /\ Stop(c)
    /\ UNCHANGED <<registered, tip, upstream, origin, tracking, config, made, runs>>

\* cloneHooksDirectory and core.hooksPath of the worktree; `create` is done.
Hooks(c) ==
    /\ At(c, "hooks") /\ Present(job[c].place)
    /\ trees' = [trees EXCEPT ![job[c].place].hooks = TRUE]
    /\ Stop(c)
    /\ UNCHANGED <<registered, tip, upstream, origin, tracking, config, made, runs>>

\* Every command of Git that runs in a directory that is gone fails.
PlaceGone(c) ==
    /\ registered /\ pc[c] \in {"record", "enabled", "hooks"} /\ ~Present(job[c].place)
    /\ Fail(c)
----------------------------------------------------------------------------
(***************************************************************************)
(* `remove` and `prune`.                                                   *)
(***************************************************************************)
\* resolveQualifiedWorktree finds the worktree, by name or by the current directory.
StartRemove(c) ==
    \E p \in Managed, force \in BOOLEAN :
        Start(c, IF force THEN "drop" ELSE "fetch",
              [NoJob EXCEPT !.op = "remove", !.branch = trees[p].branch,
                            !.place = p, !.force = force])

\* refuseUnsafeRemoval after its fetch.
Removable(c) == Present(job[c].place) /\ Clean(job[c].place) /\ Merged(job[c].branch)

Check(c) ==
    /\ At(c, "check") /\ Removable(c)
    /\ Goto(c, "drop")
    /\ UNCHANGED <<repository, config, made, job, runs>>

Refuse(c) == At(c, "check") /\ ~Removable(c) /\ Fail(c)

\* collectManagedWorktrees and the selection; a missing directory is an error.
CleanMerged == {p \in Managed : Clean(p) /\ Merged(trees[p].branch)}

Targets(S) == {[place |-> p, branch |-> trees[p].branch] : p \in S}

Prune(c, op, S) ==
    /\ S # {}
    /\ \A p \in Managed : ~trees[p].gone
    /\ Start(c, "next", [NoJob EXCEPT !.op = op, !.force = TRUE,
                                      !.chosen = Targets(S), !.seen = made])

StartPrune(c) == Prune(c, "prune", CleanMerged)

\* prune --prompt: the user chooses from the list, whatever its state.
StartPick(c) == \E S \in SUBSET Managed : Prune(c, "pick", S)

\* removePruneSelection goes on by identity, not by name.
NextTarget(c) ==
    /\ At(c, "next")
    /\ IF job[c].chosen = {} THEN Stop(c)
       ELSE \E t \in job[c].chosen :
              /\ job' = [job EXCEPT ![c].place = t.place, ![c].branch = t.branch,
                                    ![c].chosen = @ \ {t}]
              /\ Goto(c, "drop")
    /\ UNCHANGED <<repository, config, made, runs>>

\* `git worktree remove [--force]`.
Droppable(c) ==
    /\ job[c].place \in DOMAIN trees
    /\ job[c].force \/ trees[job[c].place].gone \/ Clean(job[c].place)

Drop(c) ==
    /\ At(c, "drop") /\ Droppable(c)
    /\ trees' = Without(trees, job[c].place)
    /\ Goto(c, "delete")
    /\ UNCHANGED <<registered, tip, upstream, origin, tracking, config, made, job, runs>>

DropFails(c) == At(c, "drop") /\ ~Droppable(c) /\ Fail(c)

\* deleteRemovedBranch: `git branch -d`, or -D with force.
Deletable(c) == ~CheckedOut(job[c].branch) /\ (job[c].force \/ FullyMerged(job[c].branch))

AfterDelete(c) ==
    IF job[c].op = "remove" THEN Stop(c) ELSE Goto(c, "next") /\ UNCHANGED job

Delete(c) ==
    /\ At(c, "delete")
    /\ job[c].branch \in DOMAIN tip => Deletable(c)
    /\ tip' = Without(tip, job[c].branch)
    /\ upstream' = [upstream EXCEPT ![job[c].branch] = ""]
    /\ AfterDelete(c)
    /\ UNCHANGED <<registered, origin, tracking, trees, config, made, runs>>

DeleteFails(c) ==
    At(c, "delete") /\ job[c].branch \in DOMAIN tip /\ ~Deletable(c) /\ Fail(c)
----------------------------------------------------------------------------
(***************************************************************************)
(* `repo remove`: refuse while there is a worktree, managed or not, then   *)
(* remove the bare directory.                                              *)
(***************************************************************************)
\* A mutant of NoWorktrees: linkedWorktreeCount left out.
NoManagedWorktrees == Managed = {} /\ IsBare

NoWorktrees == DOMAIN trees = {} /\ IsBare
StartErase(c) ==
    /\ NoWorktrees
    /\ Start(c, "erase", [NoJob EXCEPT !.op = "erase", !.before = DOMAIN trees])

Erase(c) ==
    /\ At(c, "erase")
    /\ registered' = FALSE
    /\ tip' = [b \in {} |-> {}] /\ tracking' = [b \in {} |-> {}]
    /\ Stop(c)
    /\ UNCHANGED <<upstream, origin, trees, config, made, runs>>

\* Whatever another command does next fails.
RepositoryGone(c) == ~registered /\ pc[c] # "idle" /\ Fail(c)

\* The process dies.
Kill(c) == pc[c] # "idle" /\ Fail(c)
----------------------------------------------------------------------------
(***************************************************************************)
(* The user and origin.                                                    *)
(***************************************************************************)
Frame == UNCHANGED <<registered, config, pc, job, runs>>

Edit(p) ==
    /\ Present(p)
    /\ \E x \in Changes \ made :
         /\ trees' = [trees EXCEPT ![p].edits = @ \cup {x}]
         /\ made' = made \cup {x}
    /\ Frame /\ UNCHANGED <<tip, upstream, origin, tracking>>

Commit(p) ==
    /\ registered /\ Present(p) /\ trees[p].branch \in DOMAIN tip /\ ~Clean(p)
    /\ tip' = [tip EXCEPT ![trees[p].branch] = @ \cup trees[p].edits]
    /\ trees' = [trees EXCEPT ![p].edits = {}]
    /\ Frame /\ UNCHANGED <<upstream, origin, tracking, made>>

\* `git push -u`, and a merge on origin.
Push(b) ==
    /\ b # Main /\ b \in DOMAIN tip
    /\ origin' = Put(origin, b, tip[b])
    /\ tracking' = Put(tracking, b, tip[b])
    /\ upstream' = [upstream EXCEPT ![b] = b]
    /\ Frame /\ UNCHANGED <<tip, trees, made>>

Land(b) ==
    /\ b \in DOMAIN tip /\ ~(tip[b] \subseteq origin[Main])
    /\ origin' = [origin EXCEPT ![Main] = @ \cup tip[b]]
    /\ Frame /\ UNCHANGED <<tip, upstream, tracking, trees, made>>

\* `git switch`.
SwitchTo(p, b) ==
    /\ registered /\ Present(p) /\ Clean(p)
    /\ b \in DOMAIN tip /\ ~CheckedOut(b)
    /\ trees' = [trees EXCEPT ![p].branch = b]
    /\ Frame /\ UNCHANGED <<tip, upstream, origin, tracking, made>>

\* `rm -r` of a checkout in which nothing is left to lose.
DeleteDirectory(p) ==
    /\ Present(p) /\ Clean(p)
    /\ trees' = [trees EXCEPT ![p].gone = TRUE]
    /\ Frame /\ UNCHANGED <<tip, upstream, origin, tracking, made>>

\* `git worktree add --detach`, also the review checkout of Timber.
AddDetached(p) ==
    /\ registered /\ p \notin DOMAIN trees
    /\ trees' = Put(trees, p, Tree(""))
    /\ Frame /\ UNCHANGED <<tip, upstream, origin, tracking, made>>

Creating(c) ==
    \/ StartCreate(c) \/ Fetch(c) \/ FetchFails(c) \/ LookBranch(c) \/ Add(c) \/ AddFails(c)
    \/ Track(c) \/ TrackFails(c) \/ Record(c)
    \/ ReadEnabled(c) \/ ReadBare(c) \/ Mark(c) \/ Unmark(c) \/ UnmarkFails(c) \/ Extend(c)
    \/ Hooks(c) \/ PlaceGone(c)

Removing(c) ==
    \/ StartRemove(c) \/ Check(c) \/ Refuse(c) \/ StartPrune(c) \/ StartPick(c) \/ NextTarget(c)
    \/ Drop(c) \/ DropFails(c) \/ Delete(c) \/ DeleteFails(c)
    \/ StartErase(c) \/ Erase(c) \/ RepositoryGone(c)

User ==
    \/ \E p \in DOMAIN trees :
         \/ Edit(p) \/ Commit(p) \/ DeleteDirectory(p)
         \/ \E b \in Branches : SwitchTo(p, b)
    \/ \E b \in Branches : Push(b) \/ Land(b)
    \/ \E p \in Customs : AddDetached(p)

Next == User \/ \E c \in Commands : Creating(c) \/ Removing(c) \/ Kill(c)

Spec == Init /\ [][Next]_vars
----------------------------------------------------------------------------
\* The steps of the commands.
Stepping(c) == Creating(c) \/ Removing(c) \/ Kill(c)

\* `git branch -d` of a branch without an upstream asks whether HEAD contains it; for
\* the default branch that is the branch itself.
ComparesWithItself(c) == pc[c] = "delete" /\ job[c].branch = Main /\ ~Tracks(Main)

\* Without --force, neither `remove` nor `create` loses a change, whatever happens
\* between their looks and their acts (refuseUnsafeRemoval, deleteRemovedBranch,
\* addWorktreeBranch), unless the default branch was made anew and has no upstream.
KeepsWork(c) ==
    /\ pc'[c] # pc[c]
    /\ job[c].op \in {"create", "remove"}
    /\ ~job[c].force
    /\ ~ComparesWithItself(c)
    => Work \subseteq Work'

CommandsKeepWork == [][\A c \in Commands : KeepsWork(c)]_vars

\* An unprompted prune, which removes with force, loses only what was written after
\* it had looked (cleanMergedWorktree, removePruneSelection).
LosesOnlyLateWork(c) ==
    pc'[c] # pc[c] /\ job[c].op = "prune" => (Work \ Work') \cap job[c].seen = {}

PruneLosesOnlyLateWork == [][\A c \in Commands : LosesOnlyLateWork(c)]_vars

\* Whatever is killed or comes between the writes of enableWorktreeConfig, the
\* marker of the bare repository is in one of the two files, so that the next
\* `create` can finish the change.
BareMarkerKept == config.shared \/ config.marker

\* A `create` that ends well leaves its worktree in place with hooks of its own, and
\* the repository bare, even if an earlier one was killed half way.
CreateEndsReady ==
    [][\A c \in Commands :
         Hooks(c)
             => /\ job[c].place \in DOMAIN trees' /\ trees'[job[c].place].hooks
                /\ config'.extension /\ config'.marker]_vars

\* `repo remove` orphans only checkouts that came after it had looked.
OrphansOnlyLate(c) ==
    pc[c] = "erase" /\ registered /\ ~registered' => job[c].before \cap DOMAIN trees = {}

EraseOrphansOnlyLate == [][\A c \in Commands : OrphansOnlyLate(c)]_vars

\* "the two writes leave the repository usable at every step" (runtime.go).
UsableAtEveryStep == IsBare
============================================================================

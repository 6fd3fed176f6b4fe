# Timber: models, checks and proofs

Timber manages Git worktrees of bare repositories and tracks the review of the commit stacks of a
feature branch. This directory holds TLA+ models of its own logic, the TLC runs that check them on
small instances, and TLAPS proofs for every value of the constants. Paths are those of the
repository; `PROJECT.json` maps each definition to the lines that it models.

## The system

| Component | State | Operations | Hard about it | Model |
|---|---|---|---|---|
| Review history (`review/state.go`, `run.go`, `service.go`) | one JSON file for each branch: the attempts, oldest first | match a result to a rewritten stack, plan, begin, resume, finish, fail, approve, record a verdict, discard, reset | results follow stacks through rewrites; the order of attempts decides | `ReviewHistory` |
| Locks (`state.go`, `worktree.go`, `auto_split.go`) | a lock file made with `O_EXCL` around each write; an `flock` on the review checkout | `Store.Update`, `lockWorktree`, `autoLock` | no command waits; a dead writer leaves the lock file; tuicr inherits the flock | `ReviewProtocol` |
| Saved sessions (`saved.go`, `carry.go`) | session files and `index.json` of tuicr | read, carry to rewritten commits, delete | two writes for one change; Timber finds by commits, tuicr by name | `SavedSessions` |
| Commit stacks (`git.go`, `message.go`) | none: derived from Git | group commits and fixups, effective message | what Git's autosquash makes of them later | `CommitStacks` |
| Patch cache (`patch_cache.go`, `maintenance.go`) | one file for each fingerprint | look up, add, prune in the background | pruner and writers without a common lock; Git's settings change | `PatchCache` |
| Model review (`auto_context.go`, `autoreview/`, `config/models.go`) | none kept | choose a model, ask, run its calls, take the verdict | the provider decides what comes next | `AutoReview` |
| File review (`files.go`, `file_feedback.go`) | sessions of tuicr outside the history | review, feedback | tuicr does not say which session it wrote | `FileReview` |
| Repositories (`repo_*.go`, `runtime_import.go`) | bare repositories, linked worktrees | add, init, import, fix, rename, remove | many moves, rollback, no lock | `RepoMoves`, `RepoImport`, `Worktrees` |
| Worktrees (`runtime.go`, `runtime_helpers.go`, `repository.go`) | checkouts, branches, worktree configuration, hooks | create, switch, remove, prune, list | check and act far apart | `Worktrees` |
| Worktree names (`worktree_identity.go`) | none: derived | name the worktrees made by hand | names conflict, the loop must end | `WorktreeNames` |
| Configuration (`config.go`, setup prompts, `github_identity.go`) | the settings file, the cached GitHub identity | load, save a choice, look up the owner | read before a prompt, written after | `SetupChoices` |
| Tag bump (`bump_tag.go`, `version_tag.go`) | tags, here and on origin | fetch, compare, tag, push | other machines do the same | `BumpTag` |
| Pull requests, Herdr, listing, todo, command line, completion, TUI | none, or remote services | parse, call, render | mostly calls to other programs | none |

The components meet in a few places. Every review command takes a snapshot of the stacks (Git),
loads the history and acts under one or both locks. `timber review commits` first carries saved
sessions over, cleans up, then opens tuicr in the checkout and records the outcome that the session
tells. `timber review auto` asks the model between its snapshot and its record. `timber review
approve` takes the file lock only. The user rewrites the branch at any time.

What makes each part correct: the history is never overwritten by an outdated copy, and what the
user decided is neither lost nor moved to content that the user did not see; the checkout has one
user; an open review keeps its attempt; commands end; the session index never names a missing file;
a mark in a session means that the user read what the session shows. For the repositories: a rename
or an import that fails leaves the old state or says what it left; no worktree with work in it is
removed unasked; names of worktrees are unique.

## The modules

| Module | Content |
|---|---|
| `ReviewHistory` | The rules, as operators over a history and a view: comparing stacks (`SameStack`, `SharesLineage`, ...), reading (`Matches`, `Latest`, `Previous`, `ActiveAttempts`), planning (`Planned`, `PlannedPrior`, `CarryablePrior`), editing (`Begun`, `Finished`, `Cleared`, ...). No state. |
| `ReviewLedger` | Abstract specification: the state file changes only by whole edits of what it holds. |
| `ReviewProtocol` | The commands as processes, with both locks, tuicr, rewrites and crashes. Refines `ReviewLedger`. |
| `SavedSessions` | The session store: carry, cleanup, reset, tuicr, crash between any two writes. |
| `RepoMoves` | Repositories and worktrees on disk with their links: rename with its rollback, fix, and the commands that change what they meet; failures and kills at every step. |
| `Worktrees` | `create`, `remove`, `prune` and `repo remove` beside each other and beside a user, each call of Git a step; the three writes that turn on worktree configuration. |
| `RepoImport` | `repo import` with its rollback, `repo add` and `repo init` racing for one name. |
| `PatchCache` | Commands that fingerprint stacks while settings change, and the pruner. |
| `CommitStacks` | The grouping of commits and the effective message, with autosquash as Git performs it. |
| `AutoReview` | The choice of the model and the conversation with the provider. |
| `FileReview` | `review files`: the lock, tuicr, the choice of the session. |
| `SetupChoices` | The settings file with concurrent writers, the prompts, the cached identity. |
| `BumpTag` | Bumps on several machines with one origin. |
| `WorktreeNames` | The loop that lengthens names until they differ. |
| `ReviewHistoryProofs`, `ReviewProtocolProofs`, `SavedSessionsProofs`, `RepoMovesProofs`, `WorktreesProofs` | Theorems and lemmas about the module of that name. |
| `RepositoryProofs` | About `RepoImport`, `WorktreeNames` and `PatchCache`. |
| `ComponentsProofs` | About `SetupChoices`, `BumpTag`, `AutoReview`, `MCReviewHistory`, `CommitStacks` and `FileReview`. |
| `CompositionProofs` | About `MCComponents`: the types of its components, for all values of their constants. |
| `MCReviewHistory`, `MCReviewProtocol`, `MCSavedSessions`, `MCRepoMoves`, `MCWorktrees` | Instances for TLC. |
| `MCComponents` | One instance for `MCReviewHistory` and the eight modules from `RepoImport` to `WorktreeNames`. |

### How the models correspond to the code

A *stack* is a record of what the code compares: base, commits, Change-Id, patch fingerprint,
message fingerprint. A *view* is `Snapshot.Stacks`. A *history* is `State.Attempts`, as a partial
function from positions to attempts; a position also stands for the attempt ID, since an ID is never
reused. IDs, time stamps, texts, evidence and the JSON of the session are left out; the policy
version is a Boolean (the current one or not).

`ReviewProtocol` has one process for each running command. `pc` is its next step, `ctx` its local
variables, `phase` and `draft` its place inside `Store.Update`:

| Code | Actions |
|---|---|
| `Store.Update` | `Enter` (create the lock file, load, run the caller's edit), `Write` (replace, unlock), `Abort` (the edit refused), `Busy` (the lock file exists) |
| `Reviewer.Review`, `discardUnusable` | `StartReview`, `SurveyHead`, `SurveyLoad`, `Discard` |
| `boundedPlan`, `plan`, `recover`, `resume` | `PlanHead` (snapshot), `PlanLoad` (history) |
| `begin`, `resumeAttempt`, `launch`, `runAttempt` | `Begin`, `Resume`, `Launch`, `LaunchFails`, `TuicrQuits`, `TuicrFails` |
| `finishAttempt`, `recordFailure` | `Finish`, `Fail` |
| `Service.Approve` | `StartApprove`, `Approve` |
| `Service.Auto`, `runAuto`, `recordAutomatic` | `StartAuto`, `SampleHead`, `SampleLoad`, `Evaluate`, `SkipStack`, `EndAuto`, `Record` |
| `Service.Reset` | `StartReset`, `LockReset`, `Clear` |

The snapshot and the load that follows it are separate steps, so a rewrite or another command can
come between. An edit runs on the copy that was loaded under the lock; the file changes only at
`Write`, and `Crash` can come before or after the replacement. A crash removes the process from
`flock` but not its child from `tuicr`, which is how an inherited descriptor behaves. The result
of a tuicr session and the verdict of the model are free choices.

`SavedSessions` has one command at a time, which the worktree lock justifies for one repository.
A carry writes the file (`CarryFile`), then the index (`CarryIndex`). A deletion takes the rows out
of the index (`DeleteRows`), then unlinks the files one by one (`Unlink`). A session is its range,
newest first as tuicr stores it, and the marks on patch and message. `Review` is tuicr itself, which
opens a session by its name in the index; it is modelled from how `carry.go` prepares for it.

`RepoMoves` keeps, for each repository and worktree, the path at which its directory is (`place`), and
the two links that join a worktree to its repository: `link`, the bare path in its `.git` file, and
`back`, the path in the entry of the bare repository. A path is a sequence of segments, so that
moving a directory moves what is below it: that matters for the review checkout, which lies inside the
bare directory, and for names below other names. One command runs at a time, except that `create` can run
beside it. `StartRename` is `buildRepositoryRenamePlan`, which only reads; `MoveTree`, `MoveBare`,
`RepairMoved` and `CleanUp` are `apply`, the `Undo` actions are `rollback`. `StartFix` to `FinishFix` are
`FixRepos`. An action that ends in `Fails` is a step that fails for an outside reason; `Kill` ends the
process between two steps. `git worktree repair` is external; as Git 2.39 does, it corrects the entries
of the given worktrees and then the `.git` file of every worktree that is where its entry says, also of
those that were not named, and fails on a path that holds no worktree. Left out are leftover empty
directories, the order of the loops (any order is allowed), and `push.default`, which fix also sets.

`Worktrees` keeps what Git keeps: `tip` and `upstream` of the local branches, the branches of `origin` and
what `tracking` knows of them, `trees` by place, and the `config` of the repository. A tip is the set of
changes in its history, so that "merged" is inclusion. A command is a process with `pc` and `job`:

| Code | Actions |
|---|---|
| `createWorktreeCheckout`, `addWorktreeBranch`, `setBranchUpstream`, `recordExplicitWorktreeName` | `StartCreate`, `Fetch`, `LookBranch`, `Add`, `Track`, `Record` |
| `ConfigureWorktreeHooks`, `enableWorktreeConfig` | `ReadEnabled`, `ReadBare`, `Mark`, `Unmark`, `Extend`, `Hooks` |
| `refuseUnsafeRemoval`, `removeWorktree`, `deleteRemovedBranch` | `StartRemove`, `Fetch`, `Check`, `Drop`, `Delete` |
| `prune` with and without `--prompt` | `StartPrune`, `StartPick`, `NextTarget`, then `Drop` and `Delete` with force |
| `repo remove` | `StartErase`, `Erase` |

Each has the actions of its failures (`...Fails`, `Refuse`, `PlaceGone`, `RepositoryGone`), and `Kill` ends any
of them. The other actions are the user with Git: `Edit`, `Commit`, `Push`, `Land` (a merge on origin),
`SwitchTo`, `DeleteDirectory`, `AddDetached`. The name of a worktree that has none of its own is "" here; how it
is made is in `WorktreeNames`.

`RepoImport`: `StartImport` is `buildImportPlan`, which only looks. `CloneSource`, `SetOrigin` and `Report` are the
registration, whose last error leaves the clone behind; `CreateTarget` is one `createWorktree`, `UndoTarget` and
`UndoClone` the rollback, `TrashSources` the one call of the trash command, which can stop half way. `hands` are
the processes that changed the bare repository: no lock keeps `add`, `init` and `import` apart. A failed `init` removes the directory of whoever has made it, and a second import
of the same clone can then put its worktrees where the first one had put its own (`Takes`); the first is no longer `intact`.

`PatchCache`: `OpenCache` reads the settings, `Miss` runs the diff with those of that moment, `Publish` renames the
temporary file. `StartMaintenance`, `Collect`, `Evict` and `EndMaintenance` are `prunePatchCache`; `late` are the keys
published since the scan began. A fingerprint is the settings that it was computed with.

`CommitStacks`: a subject is the sequence of its markers and its title. `View` is the loop over the commits,
`Take` its body, `Captures` the rule of `tryAppendFeedback`. `Squashed` is external: it does what `git rebase
--autosquash` does with the markers: `HostOf` says where a marked commit goes, `Result` what the host becomes.

`AutoReview`: `Select` is the command up to the client, `BeginTalk` the first request, `ReviewTurn` a response,
`ReadCall` one call of a tool. A response is a sequence of items that the provider chooses freely, IDs
included. `FileReview`: one process for each `timber review files`; its `step` goes from the lock to tuicr to
the reading of the result, and to `orphan` when Timber dies under tuicr, which keeps the lock.

`SetupChoices`: `CreateFile` and `Encode` are the first creation of the file, `ReadSettings` the load, `Save` the
replacement of the file. `late` records what others changed after the process had read. `BumpTag`: `FetchTags`,
`Compare`, `List`, `CreateTag`, `PushTag` are the Git commands of a bump; a tag object is its commit and the number
of the bump that made it, since two machines can create different tags of one name.

`MCComponents` composes the modules whose state no other model reads. `part` names the one that moves; the
others stand still, so the run has the sum of their states and not the product, and every property of one part
is a property of the run. The processes of all parts are called `p1` and `p2`, and the machines `m1` and `m2`,
so that their permutations are a symmetry of the whole. Parts that do interact are composed for real: the commands, their
rules, both locks and tuicr in `ReviewProtocol`, all commands on worktrees in `Worktrees`, all commands that move
directories in `RepoMoves`, settings and identity in `SetupChoices`.

### Bounds and fairness

Every counter has a named bound: `MaxRuns` commands started, `MaxRewrites` rewrites of the branch,
`MaxCrashes` processes killed, `MaxSessions` session files, `MaxAttempts` attempts. Commands stop
when the bounds are used up, so the runs set `CHECK_DEADLOCK FALSE`.

The stacks of `MCReviewProtocol` are chosen so that each rule has a case: a stack without a
Change-Id, one with, the fixup that extends it, a rebase that keeps patch and message (and loses the
lineage of the first stack), a reword. Two runs of commands and two rewrites (away and back) are enough for each
race in the code, as a race needs one command that decides and one that acts in between; a third run
gives a review after a crash. Symmetry is not used, since processes of one kind are single or differ
in what they hold.

In `RepoMoves` the bounds are `MaxFaults` failing steps (two are needed for a rollback that fails) and
`MaxKills` killed processes. `MCRepoMoves` has worktrees in the standard layout, outside it, and inside the
bare directory, and names of which one is below the other. All commands can be repeated without bound.

`Worktrees` has two commands in all, two branches, one change that somebody writes, the managed layout and one place
outside it: enough for each pair of commands to overlap at any step, for a kill, and for work that comes late. A
third command would add a repair after two kills, which `ConfigInv` covers by proof.

In `Components` there are two imports, bumps, setups and file reviews, for the same reason: every race in these parts is between one
process that has looked and one that acts. Branches have four commits, which is the shortest branch on which
two stacks and two markers can interleave; the listing has three worktrees on paths of two elements, the
smallest case where a longer name meets the own name of a third. `MaxAge` = 0 and `MaxEntries` = 1 make an entry expire,
and the cache overflow, within two units of time. An assessment has three requests and three calls, and budgets
that are reached by count and by size. `MaxAttempts` is 3 for the histories: the newest, one that it hides and one
that is older than both.

Only `ReviewEnds` needs fairness: weak fairness of the steps of each running command. The operating
system justifies it for Timber, since no step blocks: a lock that is taken is an error. For
`TuicrQuits` it says that the user closes tuicr, and for `Evaluate` that the provider answers or the
request times out (`auto.go` bounds it). The environment has no fairness; nothing waits for it.

## The runs

| Run | Shows |
|---|---|
| `ReviewCommands` | One process of each command, two rewrites, a crash; reviews of all stacks or from a bound. `TypeOK`, `UpdatesAreExclusive`, `ImplementsLedger` (refinement), `ApprovalsPersist` (an approval leaves the history only by a reset that selects it), `OpensOnce` (a review opens no stack twice), `ApprovalsRespectReviews` (no approval over feedback or an open review of the stack), `RebaseKeepsUserReview`. |
| `ReviewWorktree` | Two reviews and a reset, a rewrite or a reword, a crash; reviews of all stacks or of a selected one. `WorktreeExclusive`, `RunningAttemptIntact` (the attempt of a live tuicr stays and stays open), `BeginLeavesOneActive`. |
| `ReviewEnds` | `CommandsEnd`: every command that starts ends. |
| `SavedSessions` | Two rewrites, a crash, three sessions. `EntriesHaveFiles` (the promise in `saved.go`), `MarksAreCurrent` (no mark moves to content the user has not marked), `RewriteReopensReviews` (a rewrite that keeps the patch of its stacks reopens their reviews: the carry reaches every stack, the cleanup spares what it carried, tuicr opens what Timber found; the first needs a view in which no two stacks have the same patch, the last that no command has died in the middle of a carry, since the half-made target then blocks the next one). |
| `RepoRename` | A repository with moved and custom worktrees, two failures, one kill, `create` beside the rename. `RenameIsAllOrNothing` (an error without a failed rollback step leaves one name and all links), `RenamedRepoWorks` (success keeps every worktree linked and sends the shell to the right directory), `UndisturbedRenameSucceeds` (the checks of the plan cover what `apply` can meet, as long as no review checkout exists). |
| `RepoFix` | Two legacy repositories, one with its review checkout: any sequence of fix, rename, add, remove, create and review, one failure, two kills. `FixLinksWorktrees` (a successful fix leaves unlinked at most what a broken-off rename has moved away), `ReviewCheckoutRecovers` (a moved review checkout can be repaired by the next review, whatever moved it). |
| `Worktrees` | Two commands, a kill anywhere, a user beside them. `CommandsKeepWork` (without `--force`, `remove` and `create` lose no change; `git branch -d` of a default branch without an upstream compares the branch with itself, which is left out), `PruneLosesOnlyLateWork` (an unprompted prune, which removes with force, loses only what came after it had looked; that it can lose this is how the code is), `CreateEndsReady`, `BareMarkerKept` (however the writes of two creates interleave), `EraseOrphansOnlyLate` (`repo remove` orphans only checkouts that came after it had looked). |
| `Components` | By part, besides the types of all (`ComponentsTypeOK`, which says as well that the stacks cover the branch): |
| *history* | `LatestIsLoop`: the closed form of `State.latest` is the loop of the code. `UnfinishedHidesApproval`: a newer unfinished review hides an older approval. `ResetLeavesNothing`: after a full reset no rule finds anything about the stacks. All histories of three attempts on four versions of one stack, those of older builds included. |
| *import* | `TrashedSourcesLiveOn`: the old worktrees go to the trash only when each has its successor and the new repository has what the import had seen committed (unless another process has changed the repository). `RolledBackImportLeavesNothing`: a rollback without an error of its own leaves no trace. Neither speaks of an import whose directories another one has taken (`intact`). |
| *cache* | `EntriesAreTrue`: an entry says what Git says with the settings of its key, unless they changed while its writer ran. `PruneLeavesTheLimit`: a maintenance that ends leaves no more than the limit of what was there when it began. |
| *setup* | `ChoicesAreLostOnlyToOverlap`: a saved choice is undone only by a process that had read the file before. `LeftAccountsExpire`: tools stop to run for the repositories of an account that the user has left, at the latest a lifetime after. |
| *stacks* | `AutosquashKeepsMessages`: when all feedback has found its stack, autosquash changes neither the number of stacks nor their messages, so results survive it. |
| *names* | `ListingsEndWithDistinctNames`: the loop ends within the depth of the paths, with a name for each worktree that no other has. |
| *bump* | `PublishedTagsGrow`: origin keeps every tag; a version that reaches it is above all of its series that the process had fetched, and its commit contains what was on origin's branch then. |
| *auto* | `ApprovalsAreEarned`: an approval is one message of a response without calls, and every call before it was answered once, within the budgets. `SelectionIsNamed`: the model that is asked was named by the user, or is the only one. |
| *files* | `ReportsItsOwnSession`: a review that reads a result reports the session that its own tuicr wrote, if it wrote one, and the feedback that it reports is listed by `review feedback`. |

### Where the code and its documentation disagree

Each of these runs ends in a counterexample to a sentence of the repository.

| Run | Sentence | What the code does |
|---|---|---|
| `DocAbstention` | "`auto_reviewed` marks a stack that `timber review auto` assessed without approval." (`SKILL.md`) | An abstention is recorded without looking at the history again (`recordAutomatic`), so it can hide an approval that the user gave while the model was reading. |
| `DocResetDeletes` | "Saved sessions for the cleared stacks are deleted" (`cli/review/reset/reset.go`) | `sessionCaptures` compares commits in order, tuicr stores them newest first, so the session of a stack of two commits or more stays. |
| `DocRenameReviewed` | "Rename with `timber repo rename <old> <new>` ...; standard-layout worktrees move with the repo." (`README.md`) | Once a repository has been reviewed, its review checkout moves inside the bare directory while the plan expects it at its old path; the repair fails and every rename is rolled back. |
| `DocConfigSteps` | The writes of `core.bare` "leave the repository usable at every step" (`runtime.go:1104`). | Git reads the marker in `config.worktree` only with the extension, which is turned on last: a `create` that is killed, or fails, between the removal of the shared marker and the extension leaves a repository that Git takes for one that is not bare. The next `create` repairs it (`CreateEndsReady`). |

Met while modelling, and visible in the same models, but without a run of their own:

* "Approval never transfers to rewritten commits or added fixups." (`cli/review/root/root.go`): a user
  approval follows patch and message to rewritten commits (`Attempt.matches`), as
  `RebaseKeepsUserReview` says. README and code agree on this; the help is older.
* "A rebase keeps a review because neither changes." (`README.md`) and "The model result stands until the
  stack content changes" (`skills/timber-review/SKILL.md`): an approval of the model stands for its
  exact commits only, as a comment in `state.go` intends.
* "Unregister a bare repository once its worktrees are gone" (`README.md`): the review checkout counts as
  a linked worktree, and no command removes it, so a repository that has been reviewed stays.
* "Register a bare repository", "List registered repositories" (`README.md`): `repo add` accepts a
  name below that of a registered repository, since the check for an existing name looks at one path only,
  and the listing does not look below a repository.

* "so tuicr and the agent start from the same empty state" (`reset.go:44`): `resetsAttempt` leaves an attempt that has only
  the patch in common with a cleared stack; `carryablePrior` then moves its session, marks included, onto that stack.
* "`timber repo fix` moves them into the worktree root and repairs linked worktrees" (`README.md`): a legacy repository
  with a name below that of another one is moved to where the listing does not look, and stays unrepaired.
* "The default branch is fetched, so the check does not apply to `@<repo>`" (`README.md`): the comparison is made
  whenever the branch of HEAD has an upstream, as it has after an import (`Compare`, `HasUpstream`).
* A bump that loses the race for a tag leaves its own in the clone, and from then on every `git fetch --tags` fails
  until the user deletes it (`FetchTagsFails`, `DeleteTag`); a bump without `--no-push` in a repository without a
  remote leaves its tag as well.
* Two first creates of a repository race: `git config --unset` of a key that the other one has removed is an error,
  after the worktree was added (`UnmarkFails`). A worktree fresh from `create` is clean and merged, so a prune
  beside it removes it. One worktree directory that was deleted by hand makes every prune fail. `create` for an
  existing branch replaces its upstream (`Track`).
* "`remove` also deletes the branch" (`SKILL.md:136`), as if prune did not: prune deletes branches too, with `-D`.
* "list stays read-only" (`runtime.go`), while the lookup of origin's default branch can reconfigure and fetch origin.
* `git init --bare` accepts a repository that exists, so an `init` beside an `import` or `add` of the same name overwrites
  its default branch or removes it as a failed init (`InitBare`, `Prepare`, `PrepareFails`). The rollback of an import trashes
  whatever is in the place of a worktree. An import that fails at its report, or an `add` that fails after its clone, leaves a
  repository that blocks the next attempt.
* The patch cache reads the settings once for each command, and the diffs run with those of their moment: a change
  in between stores an entry under the wrong key (`moved`).
* "never an entry without a file" (`saved.go`) holds for the commands of one repository (`EntriesHaveFiles`). The store is shared:
  a command of another repository, or tuicr, that has read the index before a deletion and writes it after brings a deleted row
  back, whose file is gone; such a row matches every stack in the next deletion. There is no model of this yet.
* "`timber config --no-auto-...`" can be undone by the answer to a prompt that was open meanwhile, since the answer is saved into
  the copy that was read before; and a prompt can stay open beyond the lifetime of the identity.
* Timber knows `reword!`, which Git's autosquash does not; a third nested marker over two equal subjects opens a stack of its own.
* `review files` in which tuicr saves nothing reports an older session of the same directory and kind as its result.
* A model under a provider whose name contains "/" cannot be selected: `Resolve` cuts at the first slash.

A killed rename is left as it is: the worktrees that it has moved are prunable for Git, rename refuses
until the user repairs them with Git, and fix, which only looks for worktrees that stayed in place or moved
inside a legacy directory, says nothing. `FixLinksWorktrees` makes that exception explicit (`torn`).

## The proofs

Checked by TLAPS for any sets of processes, stacks, views and options, from the named assumptions of the modules
only. Bounds are natural numbers and the values for "no process" are no processes; the others say what Git and the rest of
the code guarantee:

* a view is a sequence of stacks that have commits, and a commit is in one stack of it (`ViewsAssumption`, `CommitsAssumption`);
* equal commits mean equal patch and message (`FingerprintsAssumption`, `ContentAssumption`), as long as Git's settings stay,
  which is the subject of `PatchCache`;
* no segment of a repository name is `.git` or the legacy directory, and no branch is called `.git` (`NamesAssumption`: the first half
  is what `validateRepoName` and the names in use come to, the second is Git's); Git checks a branch out once (`BranchAssumption`); at first a
  repository is where its name says, and a worktree lies in no bare directory but its own (`StartsAssumption`);
* a models file is finite (`ModelsAssumption`), the provider's input limit is below that of the context, and a call without an ID
  is refused (`AutoReviewAssumption`).

**`ReviewHistoryProofs`**: `NewerReviewHidesApproval` and `ResetsLeaveNothing`, for every history. They rest on
`BoundedMax`/`BoundedMin` (a bounded set of naturals has a maximum, any set of them a minimum), `LatestPicks`
and `PlannedPriorPicks`, which say what the readers return. The module also proves that each edit keeps a history well typed.

**`ReviewProtocolProofs`**, in the order of the argument:

* `ExclusiveUpdates` (`UpdatesAreExclusive`). The invariant `FileLockInv` adds that an update in progress is at one of the
  update steps (`Control`).
* `ExclusiveWorktree` (`WorktreeExclusive`). `WorktreeInv` adds which steps hold the flock: a review, an auto and a locked reset
  hold it from start to end, and a tuicr that is open without its Timber excludes every holder.
* `TypeCorrectness` (`TypeOK`), from `Memory` (what processes remember), `HistoryInv`, `DataInv`, `DraftInv` (each edit takes fresh
  positions) and `BoundsInv`. So every attempt in the state file passes `validate`, and no ID is used twice.
* `ProtocolImplementsLedger` (`ImplementsLedger`). The draft of a process in phase `write` is an edit of the *current* history. It needs
  the exclusion above: were two processes inside an update, the first `Write` would make the draft of the second
  an edit of a history that is gone.
* `RecordedApprovalsPersist`, `NewApprovalsRespectReviews`, `BeginClosesThePrior`, `UserReviewsFollowPatches`
  (`ApprovalsPersist`, `ApprovalsRespectReviews`, `BeginLeavesOneActive`, `RebaseKeepsUserReview`). These are about the step that writes. `WriterInv`
  says which edit the draft is, for each command (`DraftOf`), and that whoever is in phase `write` computed it from the history that
  is in the file; the theorems follow from what each edit does to a history.
* `ReviewsOpenOnce`, `RunningAttemptsStay` (`OpensOnce`, `RunningAttemptIntact`). `SessionInv`: no two open attempts have the same
  key, none is of a stack that the loop of a running review has visited, and the attempt that it has opened is there and open.
  It needs both locks: only the owner of the flock opens, reopens or removes an attempt, and a command without it only adds approvals.

**`SavedSessionsProofs`**: `RowsNameFiles`, `MarksFollowContent`, `ReviewsReopenAfterRewrites` (`EntriesHaveFiles`, `MarksAreCurrent`,
`RewriteReopensReviews`). `StoreInv` says that marks are on what the session shows and that rows name files; `NamesInv` that without a
crash every row has the name of what its file shows, but for the one in move; `CarryInv` that the carry has reached
every stack that it has passed; `CleanupInv` that what a cleanup deletes shares no commits with the view.

**`RepoMovesProofs`**, for any repositories, worktrees and names, any number of failing steps and kills, and any sequence of commands:
`RenamesWholly`, `RenamesWork`, `FixLinks`, `CheckoutRecovers` (`RenameIsAllOrNothing`, `RenamedRepoWorks`, `FixLinksWorktrees`,
`ReviewCheckoutRecovers`). None of the four is inductive, since each speaks of the end of a command. `MovesInv` (`MovesInvariant`) speaks of all steps between:

* `DiskInv`: a worktree is inside its own bare directory or outside of all of them; no two repositories have one path; the `.git` file of a
  worktree names a path that a bare directory can have, and no entry names the place of another worktree. `EntryInv`: the entry of a
  worktree is where the worktree is, but for what a rename moves at this moment or has left torn, and for what has moved inside its bare directory.
* `RenameInv`, while a rename runs: each worktree of the plan is at its old or its new place, as `todo` and `moved` say (`OnItsWay`), and the two
  have nothing in common with the places of the others; what `create` makes beside the rename is linked to where the bare directory is.
* `FixInv`, while a fix runs: the repositories that it has passed are linked.

A path is a sequence of segments and a move carries everything below it. What the proofs need of paths is in the first part of the module: bare paths and
managed paths tell their names, so no bare directory is inside another one, and two moves in a row are one (`RebaseAgain`).

The four theorems ask that no directory lies in a worktree (`[]WorktreesApart`), since rename and fix move and repair what they list, and what lies in a worktree goes
with it unlisted. The condition can fail: branch `a` of a repository `a/b` is checked out at `a/b/a/b`, which is inside `a/b/a`, the worktree of branch `b`
of a repository `a`; a rename of `a` carries it along, and the next fix does not link it. `SeparateLayoutMoves` replaces the
condition by one on names and branches alone, `SeparateLayout` (no managed place is above another one or above a repository),
and needs `LayoutInv`: every worktree is at a managed place, at that of its review checkout, or where it was beside them all, also half way through a rename.
All instances of `MCRepoMoves` satisfy `SeparateLayout`, which TLC evaluates in each run. Before the proofs TLC checked
`MovesInv` on `RepoRename`, on `RepoFix`, and on a repository with a review checkout under two failures and two kills.

`RenamesSucceed` (`UndisturbedRenameSucceeds`): what the checks of the plan cover is all that `apply` can meet. `QuietInv`: until something outside disturbs
the rename, the new bare path and the new place of each worktree that is still to move are free, and it never goes back. `create` runs beside it and looks at nothing of
it; it takes none of these places because places tell the name of their repository, and no repository has the new name yet. Without `SeparateLayout`
a `create` can put a worktree below such a place, or a new name can lie inside a worktree that moves; with a worktree in the
bare directory the repair always refuses (`DocRenameReviewed`), hence `[]RenamesUnreviewed`. `UnreviewedRenamesSucceed`
replaces that by `Unreviewed`, on the first layouts and the branches alone, which the instance of `RepoRename` satisfies. TLC checked `QuietInv` on `RepoRename` first.

**`WorktreesProofs`**, for any number of commands beside users:

* `MarkerKept`, `CreateReady` (`BareMarkerKept`, `CreateEndsReady`). `BareMarkerKept` is not inductive: it says nothing of a command
  that stands before the removal of the shared marker. `ConfigInv` adds that the marker of the main worktree is there while a
  command is at `unmark` or `extend`, and that the extension implies it.
* `CommandsLoseNothing`, `PruneLosesNothingItSaw`, `EraseSawNoCheckout` (`CommandsKeepWork`, `PruneLosesOnlyLateWork`, `EraseOrphansOnlyLate`). `WorkInv`:
  what a fetch knows of origin is on origin (`RefsInv`), and what a command has picked for removal was on origin when it looked
  (`TargetsInv`), which stays true since origin never loses a change.

**`RepositoryProofs`**:

* `ImportsTrashLast`, `RollbacksUndoAll` (`TrashedSourcesLiveOn`, `RolledBackImportLeavesNothing`). `ImportInv`: what an `intact` import has noted as made is its
  own; what it had seen in the sources is in the repository once that is cloned, while nobody else has had it in hands.
* `NamesAreDistinct` (`ListingsEndWithDistinctNames`). `NamesInv`: the name and the rest of a path together are the path, so names that
  still conflict after as many rounds as the path has elements are names of one path.
* `TrueEntries` (`EntriesAreTrue`) and `PruneEndsWithinLimits` (`PruneLeavesTheLimit`). `CacheInv`: if no change came since a
  command has read the settings, they are the ones that hold, and the value it is about to publish was made with them. `ScanInv`: what was
  there at the beginning and the scan has passed is gone, or is kept with its stamp and has not expired.

**`ComponentsProofs`**:

* `AccountsExpire`, `ChoicesSurvive` (`LeftAccountsExpire`, `ChoicesAreLostOnlyToOverlap`). `SetupInv`: what the cache says of an account was true before the user left it; what
  a process has read and the file no longer says is noted as `late`.
* `TagsGrow` (`PublishedTagsGrow`). `BumpInv`: what a bump has fetched is in its clone and stays there, and the version that it
  makes is above all of it; `HighestPicks` says that the highest of a finite set of versions exists and is unique.
* `ReaderIsTheLoop`, `UnfinishedAlwaysHides`, `ResetsAlwaysEmpty` (`LatestIsLoop`, `UnfinishedHidesApproval`, `ResetLeavesNothing`). The loop of `State.latest` is a recursive function on
  the number of attempts read. Induction is out of reach, but a least number at which loop and reader
  differ is not: `BoundedMin` gives it, and `ReadStep` refutes it (`LatestIsTheLoop`, for any sequence of attempts).
* `ApprovalsAreAllEarned`, `ModelsAreNamed` (`ApprovalsAreEarned`, `SelectionIsNamed`). `AutoInv`: every call in the conversation has one answer, which comes
  later, or waits for it (`Talked`). A response is read item by item; `ConsumedReads` says what is known of it in the end,
  again by the least item at which it would be wrong.
* `AutosquashIsQuiet` (`AutosquashKeepsMessages`). Timber looks for the one earlier commit below the marker, Git for the oldest commit with the
  title; that they agree is `Nested`, shown commit by commit (`TakenNested`): feedback that the last stack takes goes to the commit that
  begins it, for feedback on feedback because what it names goes there. A stack without its commit stays one (`TakenLoose`), which `Settled`
  excludes. `NewestIsResult` then compares the newest amend! of a stack with the one Git applies, and `PlainMessages` reads the squashed branch.
* `OwnSessionReported` (`ReportsItsOwnSession`). Whoever is between the lock and the reading of the result holds the lock (`Locked`), and the
  session its tuicr wrote is newer than all others (`LatestOwn`). The second needs the first: only the exclusion keeps another
  tuicr, also one without its Timber, from writing in between.

**`CompositionProofs`**: `ComponentsTypesCorrect` (`ComponentsTypeOK`), for all values of the constants and not only those of the instance.
A step of the composition is a step of one component and leaves the others alone, so each has its own proof. Most of a type is
in the invariants above. What the bounds need besides:

* The stacks of a branch lie end to end and cover it, also when feedback has not found its stack (`StacksFollow`: a commit extends the last
  stack or opens one after it), and autosquash makes no branch longer (`HostsAreFewer`).
* No part of a version is above the number of bumps that will create no tag any more (`SizeInv`, with `Done`). A version has one part that is one more
  than that of a version found, which a bump makes only once, and when it has made it, it is done (`TagCounts`). Bumps on several
  machines that find the same version make the same one, not a greater one.
* Each session of loose files has a time of its own (`StoreInv`); what the cache and the pruner know is not newer than the clock (`AgesInv`, `MetInv`);
  the cached identity neither (`ClockInv`). The clocks of `PatchCache` and `SetupChoices` begin at 1, which the assumptions
  `CacheAssumption` and `SetupAssumption` allow for (`MaxNow > 0`, `MaxTime > 0`, and there is a setting).

Four properties were true on the instances first checked and false of the code beyond them; the attempt to prove them showed it.
A mark need not reach the session that tuicr opens after a crash (`RewriteReopensReviews`); `git branch -d` of the default branch can
compare it with itself (`CommandsKeepWork`); an import can lose its directories to another one (`TrashedSourcesLiveOn`,
`RolledBackImportLeavesNothing`, for which the run now has two imports that can fail). They are now stated with these exceptions.

Every invariant and action property that a run checks is also a theorem. Only model-checked is the liveness property `CommandsEnd`, since
TLAPS reaches neither fairness nor ENABLED.

## Not modelled

Formatting, logging and JSON; the parsing of comments; failing snapshots and file-system errors in
the review commands, which end a command as a refused update does; the dry run of auto, which writes
nothing; several branches, whose state files are independent; two writers of one session index.

The expansion of keys and headers in the models file, and its paths; random worktree names and the syntax of
qualified names; the copy of editor settings and the trust of mise after `create`; the clean-up of a failed `init` beyond the
removal of its directory; the draft of a release; selecting a file session by its name. The zsh generator, the TUI, the listing,
the todo counter, the Herdr calls and the pull requests keep no state of their own: they print, or ask another program once.
`components` in `PROJECT.json` gives a reason for each part that has no model.

## Plan

`SavedSessions` with two repositories and tuicr as concurrent writers of one index.

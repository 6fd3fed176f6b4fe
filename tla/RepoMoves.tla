----------------------------- MODULE RepoMoves -----------------------------
(***************************************************************************)
(* The registered repositories on disk and the two commands that move      *)
(* them: `repo rename` (repo_rename_plan.go) and `repo fix`, which moves   *)
(* the repositories of the legacy directory into the worktree root         *)
(* (FixRepos).  `repo add`, `repo remove`, `create`, `remove` and the       *)
(* review checkout (review/worktree.go) supply what they meet.             *)
(*                                                                         *)
(* A repository is a bare Git directory <root>/<name>/.git.  A worktree is *)
(* joined to it by two links: its .git file names the bare directory       *)
(* (link), and an entry inside the bare directory names the place of the   *)
(* worktree (back).  A rename moves the worktrees, then the bare           *)
(* directory, then repairs the links with `git worktree repair`; when a    *)
(* step fails it goes back.  Any step can fail, the process can be killed  *)
(* between two steps, and another process can create a worktree meanwhile. *)
(***************************************************************************)
EXTENDS Naturals, Sequences, FiniteSets, SequencesExt

CONSTANTS
    Repos,      \* bare repositories
    Trees,      \* worktrees
    Names,      \* repository names, sequences of segments
    RepoOf,     \* the repository of each worktree
    BranchOf,   \* the branch of each worktree, or Detached
    Detached,
    Starts,     \* the first layouts: functions from Repos \cup Trees to paths
    Concurrent, \* whether `create` may run beside another command
    None,
    MaxFaults,  \* bound on the steps that fail for an outside reason
    MaxKills    \* bound on the deaths of a Timber process

Dirs == Repos \cup Trees

\* The place of a directory that does not exist.  Other paths are sequences
\* of segments under the worktree root.
Nowhere == <<>>

BarePath(name) == Append(name, ".git")

\* <data home>/timber/repos/<name>.git, from before the worktree root held
\* the repositories.
LegacyPath(name) == <<"timber/repos">> \o BarePath(name)

ManagedPath(name, branch) == name \o <<branch, Last(name)>>

\* The review checkout is inside the bare directory (review/worktree.go).
ReviewPath(bare) == bare \o <<"timber-review", "worktree">>

\* The paths that a bare directory can have.
Homes == {BarePath(name) : name \in Names} \cup {LegacyPath(name) : name \in Names}

ASSUME LayoutAssumption ==
    /\ RepoOf \in [Trees -> Repos]
    /\ Repos \cap Trees = {} /\ None \notin Dirs
    /\ Concurrent \in BOOLEAN
    /\ MaxFaults \in Nat /\ MaxKills \in Nat

\* No segment of a name is .git (validateRepoName refuses it as the end of a
\* name, and nobody uses it inside one), and no branch is called so (Git
\* refuses it).
ASSUME NamesAssumption ==
    /\ Names \subseteq Seq(STRING) \ {<<>>}
    /\ \A name \in Names : \A k \in 1 .. Len(name) : name[k] \notin {".git", "timber/repos"}
    /\ BranchOf \in [Trees -> STRING \ {".git"}]

\* Git checks a branch out in one worktree only.
ASSUME BranchAssumption ==
    \A t, u \in Trees :
        RepoOf[t] = RepoOf[u] /\ BranchOf[t] = BranchOf[u] => t = u \/ BranchOf[t] = Detached

\* At first a repository is where its name says, in the worktree root or in
\* the legacy directory, and a worktree lies in no other bare directory than
\* its own.
ASSUME StartsAssumption ==
    \A start \in Starts :
        /\ start \in [Dirs -> Seq(STRING)]
        /\ \A r \in Repos : start[r] \in Homes \cup {Nowhere}
        /\ \A r, s \in Repos : start[r] = start[s] => r = s \/ start[r] = Nowhere
        /\ \A t \in Trees : start[t] # Nowhere =>
              /\ start[RepoOf[t]] # Nowhere
              /\ \A bare \in Homes : IsPrefix(bare, start[t]) => bare = start[RepoOf[t]]

\* The places that `create` and a rename give to worktrees.
ManagedPaths ==
    {ManagedPath(name, BranchOf[t]) : name \in Names, t \in {u \in Trees : BranchOf[u] # Detached}}

Apart(p, q) == ~IsPrefix(p, q) /\ ~IsPrefix(q, p)

\* A layout in which no worktree can come to hold another directory: no place
\* of the standard layout is above another one or above a repository, and
\* each worktree begins at such a place, as the review checkout, or beside
\* them all.  It is no assumption of the module; theorems name it.
SeparateLayout ==
    /\ \A path \in ManagedPaths : \A q \in Homes \cup ManagedPaths : IsPrefix(path, q) => path = q
    /\ \A start \in Starts : \A t \in Trees :
          \/ start[t] \in ManagedPaths \cup {Nowhere, ReviewPath(start[RepoOf[t]])}
          \/ \A q \in Homes \cup ManagedPaths : Apart(start[t], q)
    /\ \A start \in Starts : \A t, u \in Trees :
          IsPrefix(start[t], start[u]) => t = u \/ start[t] = Nowhere

\* No repository has a review checkout at first, and none gets one, since all
\* detached worktrees are elsewhere.  It is no assumption of the module either.
Unreviewed ==
    \A start \in Starts : \A t \in Trees :
        /\ \A bare \in Homes : ~IsPrefix(bare, start[t])
        /\ BranchOf[t] = Detached => start[t] # Nowhere

VARIABLES
    place,   \* where each directory is
    link,    \* the bare path that the .git file of a worktree names
    back,    \* the path that the repository's entry for a worktree names
    command, \* the running command, or what the last one did
    torn,    \* worktrees that a rename left elsewhere than their entry says
    faults, kills

vars == <<place, link, back, command, torn, faults, kills>>
disk == <<place, link, back>>

NoCommand ==
    [kind |-> "none", step |-> "done", result |-> "none", repo |-> None,
     from |-> <<>>, to |-> <<>>, plan |-> <<>>, todo |-> {}, moved |-> <<>>,
     undone |-> TRUE, disturbed |-> FALSE, sound |-> {}, here |-> None,
     target |-> Nowhere, queue |-> {}]
----------------------------------------------------------------------------
(***************************************************************************)
(* What is on disk.                                                        *)
(***************************************************************************)
Within(p, x) == x # Nowhere /\ IsPrefix(p, x)

\* Something is at p: a directory at p or below, or a worktree's .git file.
Exists(p) ==
    \/ \E d \in Dirs : Within(p, place[d])
    \/ \E t \in Trees : place[t] # Nowhere /\ p = BarePath(place[t])

\* x after the directory p is moved to q.
Rebase(p, q, x) == IF Within(p, x) THEN q \o SubSeq(x, Len(p) + 1, Len(x)) ELSE x

\* os.Rename moves what is below p too; it fails when p is missing, when q is
\* not free and when q is inside p.
CanMove(p, q) == Exists(p) /\ ~Exists(q) /\ ~Within(p, q)
Moved(p, q) == [d \in Dirs |-> Rebase(p, q, place[d])]

NameOf(r) == Front(place[r])

\* listRegisteredRepos finds the repository: it lies where its name says, and
\* no directory above it has a .git entry, under which the walk does not look.
Listed(r) ==
    /\ \E name \in Names : place[r] = BarePath(name)
    /\ \A k \in 1 .. Len(NameOf(r)) - 1 : ~Exists(BarePath(SubSeq(NameOf(r), 1, k)))

\* `git worktree list` shows the entries of the repository; one whose path
\* holds no worktree is prunable.
Entries(r) == {t \in Trees : RepoOf[t] = r /\ back[t] # Nowhere}
Prunable(t) == \A u \in Trees : place[u] # back[t]

\* Git opens the worktree at p and finds the repository (validateLinkedWorktree).
Opens(r, p) == \E t \in Trees : place[t] = p /\ RepoOf[t] = r /\ link[t] = place[r]

\* Both links of the worktree are right.
Sound(t) == place[t] # Nowhere /\ back[t] = place[t] /\ link[t] = place[RepoOf[t]]

(***************************************************************************)
(* `git worktree repair <paths>` in the bare repository: it corrects the   *)
(* entry of each worktree at one of the paths, then the .git file of each  *)
(* worktree that is where its entry says.  With a path that holds no       *)
(* worktree it reports an error, and stops early when even the parent of   *)
(* the path is missing.                                                    *)
(***************************************************************************)
At(r, paths) == {t \in Trees : RepoOf[t] = r /\ place[t] \in paths}
InPlace(r, B) == {t \in Entries(r) : t \in B \/ (place[t] # Nowhere /\ back[t] = place[t])}

Relink(r, B, L) ==
    /\ back' = [t \in Trees |-> IF t \in B THEN place[t] ELSE back[t]]
    /\ link' = [t \in Trees |-> IF t \in L THEN place[r] ELSE link[t]]

AllThere(r, paths) == \A p \in paths : \E t \in At(r, paths) : place[t] = p

Repaired(r, paths) ==
    IF paths = {} THEN UNCHANGED <<back, link>>
    ELSE /\ AllThere(r, paths)
         /\ Relink(r, At(r, paths), InPlace(r, At(r, paths)))

PartlyRepaired(r, paths) ==
    \E B \in SUBSET At(r, paths) : \E L \in SUBSET InPlace(r, B) : Relink(r, B, L)
----------------------------------------------------------------------------
(***************************************************************************)
(* Steps of commands.                                                      *)
(***************************************************************************)
Idle == command.step = "done"

Goto(step) == command' = [command EXCEPT !.step = step]

Finish(result) == command' = [command EXCEPT !.step = "done", !.result = result]

\* A step fails for a reason outside the model: a full disk, a missing permission.
Fault == faults < MaxFaults /\ faults' = faults + 1

NoFault == faults' = faults

Init ==
    /\ place \in Starts
    /\ back = [t \in Trees |-> place[t]]
    /\ link = [t \in Trees |-> IF place[t] = Nowhere THEN Nowhere ELSE place[RepoOf[t]]]
    /\ command = NoCommand
    /\ torn = {}
    /\ faults = 0 /\ kills = 0

----------------------------------------------------------------------------
(***************************************************************************)
(* repo rename: buildRepositoryRenamePlan, then apply.                     *)
(***************************************************************************)
RenamedPath(r, new, t) ==
    IF BranchOf[t] # Detached /\ back[t] = ManagedPath(NameOf(r), BranchOf[t])
    THEN ManagedPath(new, BranchOf[t])
    ELSE back[t]

\* Mutant: only worktrees on a branch are collected.
OnBranches(r) == {t \in Entries(r) : BranchOf[t] # Detached}

\* collectWorktrees: the worktrees whose links the rename must keep.
Collected(r) == Entries(r)

\* apply goes through the list in the order in which Git reports it, any
\* order here.
Moving(plan) == {t \in DOMAIN plan : plan[t].from # plan[t].to}

\* findCurrentTargetDirectory: the new path of the directory that the shell
\* is in, when the rename moves it.
CurrentTarget(plan, here) ==
    LET under == {t \in Moving(plan) : here # None /\ Within(plan[t].from, place[here])}
    IN  IF under = {} THEN Nowhere
        ELSE LET t == CHOOSE t \in under : TRUE
             IN  Rebase(plan[t].from, plan[t].to, place[here])

StartRename(r, new, here) ==
    /\ Idle
    /\ Listed(r)
    /\ new # NameOf(r)
    /\ ~Exists(BarePath(new))
    /\ \A t \in Collected(r) : ~Prunable(t) /\ Opens(r, back[t])
    /\ LET plan == [t \in Collected(r) |-> [from |-> back[t], to |-> RenamedPath(r, new, t)]]
       IN  /\ \A t \in Moving(plan) : ~Exists(plan[t].to)
           /\ command' = [NoCommand EXCEPT
                            !.kind = "rename", !.step = "trees", !.repo = r,
                            !.from = NameOf(r), !.to = new,
                            !.plan = plan, !.todo = Moving(plan),
                            !.sound = {t \in Entries(r) : Sound(t)},
                            !.here = here, !.target = CurrentTarget(plan, here)]
    /\ UNCHANGED <<disk, torn, faults, kills>>

Renaming(step) == command.kind = "rename" /\ command.step = step

\* The worktrees to move are moved before the bare directory.
MoveTree(t) ==
    /\ Renaming("trees") /\ t \in command.todo
    /\ LET from == command.plan[t].from
           to   == command.plan[t].to
       IN  IF CanMove(from, to)
           THEN /\ place' = Moved(from, to)
                /\ command' = [command EXCEPT !.todo = @ \ {t}, !.moved = Append(@, t)]
           ELSE Goto("undo trees") /\ UNCHANGED place
    /\ NoFault /\ UNCHANGED <<link, back, torn, kills>>

MoveBare ==
    /\ Renaming("trees") /\ command.todo = {}
    /\ LET from == BarePath(command.from)
           to   == BarePath(command.to)
       IN  IF CanMove(from, to)
           THEN place' = Moved(from, to) /\ Goto("repair")
           ELSE Goto("undo trees") /\ UNCHANGED place
    /\ NoFault /\ UNCHANGED <<link, back, torn, kills>>

Disturbed(step) == command' = [command EXCEPT !.step = step, !.disturbed = TRUE]

\* A directory cannot be made or moved.
MoveFails ==
    /\ Renaming("trees")
    /\ Disturbed("undo trees")
    /\ Fault /\ UNCHANGED <<disk, torn, kills>>

OriginalPaths(plan) == {plan[t].from : t \in DOMAIN plan}

RenamedPaths(plan) == {plan[t].to : t \in DOMAIN plan}

\* repairAndVerify at the new places.
RepairMoved ==
    /\ Renaming("repair")
    /\ Repaired(command.repo, RenamedPaths(command.plan))
    /\ Goto("cleanup")
    /\ NoFault /\ UNCHANGED <<place, torn, kills>>

\* The repair meets a path without a worktree.
RepairRefused ==
    /\ Renaming("repair")
    /\ ~AllThere(command.repo, RenamedPaths(command.plan))
    /\ PartlyRepaired(command.repo, RenamedPaths(command.plan))
    /\ Goto("undo bare")
    /\ NoFault /\ UNCHANGED <<place, torn, kills>>

\* The repair, or the check after it, fails.
RepairFails ==
    /\ Renaming("repair")
    /\ PartlyRepaired(command.repo, RenamedPaths(command.plan))
    /\ Disturbed("undo bare")
    /\ Fault /\ UNCHANGED <<place, torn, kills>>

\* Empty parents are removed; without success the rename stays, with an error.
CleanUp ==
    /\ Renaming("cleanup")
    /\ \/ Finish("ok") /\ NoFault
       \/ command' = [command EXCEPT !.step = "done", !.result = "error", !.disturbed = TRUE] /\ Fault
    /\ UNCHANGED <<disk, torn, kills>>
----------------------------------------------------------------------------
(***************************************************************************)
(* The rollback.  A failure to restore the bare directory ends it; one to  *)
(* restore a worktree does not.                                            *)
(***************************************************************************)
Unrestored(step, moved) ==
    command' = [command EXCEPT !.step = step, !.moved = moved, !.undone = FALSE, !.disturbed = TRUE,
                               !.result = IF step = "done" THEN "error" ELSE @]

\* The rename ends with worktrees that are not where their entry says.
Tear == torn' = torn \cup {t \in DOMAIN command.plan : place'[t] # back'[t]}

UndoBare ==
    /\ Renaming("undo bare")
    /\ CanMove(BarePath(command.to), BarePath(command.from))
    /\ place' = Moved(BarePath(command.to), BarePath(command.from))
    /\ Goto("undo trees")
    /\ NoFault /\ UNCHANGED <<link, back, torn, kills>>

UndoBareFails ==
    /\ Renaming("undo bare")
    /\ Unrestored("done", command.moved)
    /\ IF CanMove(BarePath(command.to), BarePath(command.from)) THEN Fault ELSE NoFault
    /\ UNCHANGED <<disk, kills>> /\ Tear

\* The worktrees go back in the opposite order.
UndoTree ==
    /\ Renaming("undo trees") /\ command.moved # <<>>
    /\ LET t == Last(command.moved)
       IN  /\ CanMove(command.plan[t].to, command.plan[t].from)
           /\ place' = Moved(command.plan[t].to, command.plan[t].from)
    /\ command' = [command EXCEPT !.moved = Front(@)]
    /\ NoFault /\ UNCHANGED <<link, back, torn, kills>>

UndoTreeFails ==
    /\ Renaming("undo trees") /\ command.moved # <<>>
    /\ Unrestored("undo trees", Front(command.moved))
    /\ LET t == Last(command.moved)
       IN  IF CanMove(command.plan[t].to, command.plan[t].from) THEN Fault ELSE NoFault
    /\ UNCHANGED <<disk, torn, kills>>

\* Mutant: the rollback moves the directories and leaves the links.
UndoWithoutRepair ==
    /\ Renaming("undo trees") /\ command.moved = <<>>
    /\ Finish("error")
    /\ NoFault /\ UNCHANGED <<disk, torn, kills>>

UndoRepair ==
    /\ Renaming("undo trees") /\ command.moved = <<>>
    /\ Repaired(command.repo, OriginalPaths(command.plan))
    /\ Finish("error")
    /\ NoFault /\ UNCHANGED <<place, torn, kills>>

UndoRepairFails ==
    /\ Renaming("undo trees") /\ command.moved = <<>>
    /\ PartlyRepaired(command.repo, OriginalPaths(command.plan))
    /\ Unrestored("done", <<>>)
    /\ IF AllThere(command.repo, OriginalPaths(command.plan)) THEN Fault ELSE NoFault
    /\ UNCHANGED <<place, kills>> /\ Tear

Rename ==
    \/ \E r \in Repos, new \in Names, here \in Trees \cup {None} : StartRename(r, new, here)
    \/ \E t \in Trees : MoveTree(t)
    \/ MoveBare \/ MoveFails
    \/ RepairMoved \/ RepairRefused \/ RepairFails
    \/ CleanUp
    \/ UndoBare \/ UndoBareFails
    \/ UndoTree \/ UndoTreeFails
    \/ UndoRepair \/ UndoRepairFails
----------------------------------------------------------------------------
(***************************************************************************)
(* repo fix: every legacy repository is moved, then every listed           *)
(* repository gets its stale worktrees repaired.  Both loops go in the     *)
(* order of the names, any order here.                                     *)
(***************************************************************************)
Legacy(r) == \E name \in Names : place[r] = LegacyPath(name)

StartFix ==
    /\ Idle
    /\ command' = [NoCommand EXCEPT !.kind = "fix", !.step = "move", !.queue = {r \in Repos : Legacy(r)}]
    /\ UNCHANGED <<disk, torn, faults, kills>>

Fixing(step) == command.kind = "fix" /\ command.step = step

MoveLegacy(r) ==
    /\ Fixing("move") /\ r \in command.queue
    /\ \E name \in Names :
        /\ place[r] = LegacyPath(name)
        /\ IF CanMove(place[r], BarePath(name))
           THEN place' = Moved(place[r], BarePath(name)) /\ command' = [command EXCEPT !.queue = @ \ {r}]
           ELSE Finish("error") /\ UNCHANGED place
    /\ NoFault /\ UNCHANGED <<link, back, torn, kills>>

\* The move fails, or the removal of the empty parents after it.
MoveLegacyFails(r) ==
    /\ Fixing("move") /\ r \in command.queue
    /\ \E name \in Names :
        /\ place[r] = LegacyPath(name)
        /\ CanMove(place[r], BarePath(name))
        /\ place' \in {place, Moved(place[r], BarePath(name))}
    /\ Finish("error")
    /\ Fault /\ UNCHANGED <<link, back, torn, kills>>

ListRepos ==
    /\ Fixing("move") /\ command.queue = {}
    /\ command' = [command EXCEPT !.step = "repair", !.queue = {r \in Repos : Listed(r)}]
    /\ UNCHANGED <<disk, torn, faults, kills>>

\* movedInternalWorktree: an entry names a place inside the legacy bare
\* directory, and the worktree that is at the same place of the bare
\* directory now still names the legacy one.
MovedInternal(r) ==
    LET old == LegacyPath(NameOf(r))
    IN  {p \in {Rebase(old, place[r], back[t]) : t \in {u \in Entries(r) : Prunable(u) /\ Within(old, back[u])}} :
            \E t \in Entries(r) : /\ place[t] = p /\ link[t] = old
                                  /\ Rebase(old, place[r], back[t]) = p}

\* worktreeGitDirIsStale for the entries that are not prunable.
StaleInPlace(r) ==
    {back[t] : t \in {u \in Entries(r) : \E v \in Trees : place[v] = back[u] /\ ~Within(place[r], link[v])}}

\* Mutant: only worktrees that stayed in place are repaired.
StaleOutside(r) == StaleInPlace(r)

\* collectStaleWorktrees
Stale(r) == StaleInPlace(r) \cup MovedInternal(r)

FixRepo(r) ==
    /\ Fixing("repair") /\ r \in command.queue
    /\ Repaired(r, Stale(r))
    /\ command' = [command EXCEPT !.queue = @ \ {r}]
    /\ NoFault /\ UNCHANGED <<place, torn, kills>>

FixRepoFails(r) ==
    /\ Fixing("repair") /\ r \in command.queue
    /\ PartlyRepaired(r, Stale(r))
    /\ Finish("error")
    /\ IF AllThere(r, Stale(r)) THEN Fault ELSE NoFault
    /\ UNCHANGED <<place, torn, kills>>

FinishFix ==
    /\ Fixing("repair") /\ command.queue = {}
    /\ Finish("ok")
    /\ UNCHANGED <<disk, torn, faults, kills>>

Fix ==
    \/ StartFix
    \/ \E r \in Repos : MoveLegacy(r) \/ MoveLegacyFails(r)
    \/ ListRepos
    \/ \E r \in Repos : FixRepo(r) \/ FixRepoFails(r)
    \/ FinishFix
----------------------------------------------------------------------------
(***************************************************************************)
(* Other commands, and the death of a process.                             *)
(***************************************************************************)
\* repo add: the name must be free, nothing else is asked of it.
AddRepo(r, name) ==
    /\ Idle /\ place[r] = Nowhere
    /\ ~Exists(BarePath(name))
    /\ place' = [place EXCEPT ![r] = BarePath(name)]
    /\ command' = [NoCommand EXCEPT !.kind = "add", !.repo = r]
    /\ UNCHANGED <<link, back, torn, faults, kills>>

\* repo remove: refused while Git has an entry for any worktree.
RemoveRepo(r) ==
    /\ Idle /\ Listed(r)
    /\ place' = IF Entries(r) = {} THEN [place EXCEPT ![r] = Nowhere] ELSE place
    /\ command' = [NoCommand EXCEPT !.kind = "remove", !.repo = r,
                                   !.result = IF Entries(r) = {} THEN "ok" ELSE "error"]
    /\ UNCHANGED <<link, back, torn, faults, kills>>

\* A worktree is added to the repository at the path; Git refuses one that
\* another entry of the repository names.
Attach(t, path) ==
    /\ place[t] = Nowhere /\ back[t] = Nowhere
    /\ ~Exists(path)
    /\ \A u \in Trees : RepoOf[u] = RepoOf[t] => back[u] # path
    /\ place' = [place EXCEPT ![t] = path]
    /\ back' = [back EXCEPT ![t] = path]
    /\ link' = [link EXCEPT ![t] = place[RepoOf[t]]]
    /\ UNCHANGED <<torn, faults, kills>>

\* create: a managed worktree on a branch.
CreateWorktree(t) ==
    /\ Idle \/ Concurrent
    /\ BranchOf[t] # Detached /\ Listed(RepoOf[t])
    /\ Attach(t, ManagedPath(NameOf(RepoOf[t]), BranchOf[t]))
    /\ command' = IF Idle THEN NoCommand ELSE command

\* remove: a worktree that Git can open.
RemoveWorktree(t) ==
    /\ Idle
    /\ BranchOf[t] # Detached /\ Listed(RepoOf[t]) /\ Sound(t)
    /\ place' = [place EXCEPT ![t] = Nowhere]
    /\ back' = [back EXCEPT ![t] = Nowhere]
    /\ link' = [link EXCEPT ![t] = Nowhere]
    /\ command' = NoCommand
    /\ UNCHANGED <<torn, faults, kills>>

\* A review starts in a worktree on a branch, of any repository.
Reviewable(r) ==
    \E t \in Trees : BranchOf[t] # Detached /\ place[t] # Nowhere /\ RepoOf[t] = r /\ link[t] = place[r]

IsReview(t) == BranchOf[t] = Detached /\ place[t] # Nowhere /\ place[t] = ReviewPath(place[RepoOf[t]])

\* Mutant: only a checkout from the legacy directory is repaired.
MovableFromLegacy(t) ==
    /\ IsReview(t) /\ Prunable(t)
    /\ \E name \in Names : link[t] = LegacyPath(name) /\ back[t] = ReviewPath(link[t])

\* repairMovedReviewCheckout: both links name the same former place, which
\* holds nothing now.
Movable(t) == IsReview(t) /\ Prunable(t) /\ link[t] # place[RepoOf[t]] /\ back[t] = ReviewPath(link[t])

\* review: the detached checkout inside the bare directory is made, or
\* repaired when it has moved with it (ensureReviewCheckout).
PrepareReview(t) ==
    /\ Idle
    /\ BranchOf[t] = Detached /\ Reviewable(RepoOf[t])
    /\ command' = NoCommand
    /\ \/ Attach(t, ReviewPath(place[RepoOf[t]]))
       \/ /\ Movable(t)
          /\ Repaired(RepoOf[t], {place[t]})
          /\ torn' = torn \ {t}
          /\ UNCHANGED <<place, faults, kills>>

Kill ==
    /\ ~Idle /\ kills < MaxKills
    /\ kills' = kills + 1
    /\ command' = NoCommand
    /\ UNCHANGED <<disk, faults>> /\ Tear

Next ==
    \/ Rename
    \/ Fix
    \/ \E r \in Repos : RemoveRepo(r) \/ \E name \in Names : AddRepo(r, name)
    \/ \E t \in Trees : CreateWorktree(t) \/ RemoveWorktree(t) \/ PrepareReview(t)
    \/ Kill

Spec == Init /\ [][Next]_vars
----------------------------------------------------------------------------
(***************************************************************************)
(* Properties.                                                             *)
(***************************************************************************)
Finished(kind, result) == Idle /\ command.kind = kind /\ command.result = result

\* The repository of the rename has the name, and its planned worktrees are
\* at the paths, linked both ways.
Stands(name, paths) ==
    /\ place[command.repo] = BarePath(name)
    /\ \A t \in DOMAIN command.plan : place[t] = paths[t] /\ Sound(t)

From == [t \in DOMAIN command.plan |-> command.plan[t].from]
To == [t \in DOMAIN command.plan |-> command.plan[t].to]

\* A rename that reports an error and no failed rollback step left the
\* repository wholly under its old name or, when only the removal of empty
\* parents failed, wholly under its new one: every worktree of the plan is in
\* its place and linked both ways (apply and rollback).
RenameIsAllOrNothing ==
    Finished("rename", "error") /\ command.undone =>
        Stands(command.from, From) \/ Stands(command.to, To)

\* After a rename that succeeds, every worktree that was linked when it
\* began, on a branch or detached, moved or not, is linked to the repository
\* under its new name, and the directory that the shell is sent to is the one
\* that the user was in (apply, reportRenamedCurrentPath).
RenamedRepoWorks ==
    Finished("rename", "ok") =>
        /\ place[command.repo] = BarePath(command.to)
        /\ \A t \in command.sound : Sound(t)
        /\ command.target # Nowhere => command.target = place[command.here]

\* A rename that has passed the checks of its plan does not stop halfway by
\* itself: without an outside failure it succeeds (buildRepositoryRenamePlan
\* has looked for everything that apply can meet).
UndisturbedRenameSucceeds ==
    Idle /\ command.kind = "rename" /\ ~command.disturbed => command.result = "ok"

\* A fix that succeeds has linked every worktree of every repository that it
\* lists, whatever fix or rename was cut off before and whatever was created
\* meanwhile; only those that a rename moved and could neither link nor move
\* back may stay as they are (repairStaleWorktrees, movedInternalWorktree).
FixLinksWorktrees ==
    Finished("fix", "ok") =>
        \A t \in Trees : place[t] # Nowhere /\ Listed(RepoOf[t]) /\ t \notin torn => Sound(t)

\* A review checkout that Git calls prunable, since it moved with its bare
\* directory, can be repaired by the next review, whatever moved it and
\* wherever that was cut off (repairMovedReviewCheckout).
ReviewCheckoutRecovers ==
    Idle => \A t \in Trees : IsReview(t) /\ Prunable(t) => Movable(t)

\* README.md:54: "standard-layout worktrees move with the repo".
DocRenameMovesWorktrees == UndisturbedRenameSucceeds
============================================================================

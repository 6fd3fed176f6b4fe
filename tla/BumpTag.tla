------------------------------ MODULE BumpTag ------------------------------
(***************************************************************************)
(* `timber bump`: fetch origin, compare the branch with its upstream, find *)
(* the highest version among the local tags, tag, and push.  Several       *)
(* machines have a clone of one origin, and several bumps may run in one   *)
(* clone; each step is one Git command.                                    *)
(*                                                                         *)
(* Origin's default branch is a line of numbered commits; a branch of a    *)
(* clone counts as the newest of them that it contains.                    *)
(***************************************************************************)
EXTENDS Integers, FiniteSets

CONSTANTS
    Machines,       \* machines with a clone of the repository
    Bumps,          \* processes
    Kinds,          \* "major", "minor", "patch"
    MaxBumps,       \* bound on the bumps started
    MaxTip          \* bound on the commits that reach origin

ASSUME BumpAssumption ==
    Kinds \subseteq {"major", "minor", "patch"} /\ {MaxBumps, MaxTip} \subseteq Nat

VARIABLES
    origin,     \* its tip and its tags: a version for each tag object
    clone,      \* the clone of each machine
    bump,       \* what each process does
    bumps

bumpVars == <<origin, clone, bump, bumps>>
----------------------------------------------------------------------------
(***************************************************************************)
(* Versions: <<major, minor, patch>>.                                      *)
(***************************************************************************)
TagVersions == (0..MaxBumps) \X (0..MaxBumps) \X (0..MaxBumps)

\* Compare, newerThan.
Newer(v, w) ==
    \/ v[1] > w[1]
    \/ v[1] = w[1] /\ v[2] > w[2]
    \/ v[1] = w[1] /\ v[2] = w[2] /\ v[3] > w[3]

\* Highest.
Highest(all) == CHOOSE v \in all : \A w \in all \ {v} : Newer(v, w)

\* Tag: the parts below the one that grows start again.
NextVersion(v, kind) ==
    CASE kind = "major" -> <<v[1] + 1, 0, 0>>
      [] kind = "minor" -> <<v[1], v[2] + 1, 0>>
      [] kind = "patch" -> <<v[1], v[2], v[3] + 1>>

\* `git tag --list`: every tag, or those of one series, as with --pattern 'v1.*'.
Every == -1
Selected(all, series) == {v \in all : series = Every \/ v[1] = series}
----------------------------------------------------------------------------
\* target: the worktree of a feature branch, or "@repo".
\* fetched, known: origin's tip and versions when the process fetched them.
NoBump == [step |-> "idle", machine |-> "", target |-> "worktree",
           fetched |-> 0, known |-> {}, series |-> Every, latest |-> <<0, 0, 0>>,
           version |-> <<0, 0, 0>>, nth |-> 0]

\* An import, and a worktree for it, give the default branch an upstream; `add` does not.
BumpInit ==
    /\ origin = [tip |-> 0, tags |-> [v \in {} |-> 0]]
    /\ \E tracks \in BOOLEAN :
         clone = [m \in Machines |-> [head |-> 0, main |-> 0, tracks |-> tracks, tracked |-> 0,
                                      tags |-> [v \in {} |-> 0]]]
    /\ bump = [b \in Bumps |-> NoBump]
    /\ bumps = 0

BumpAt(b, step) == bump[b].step = step
Ours(b) == clone[bump[b].machine]
EndBump(b) == bump' = [bump EXCEPT ![b] = NoBump]

\* resolveBumpTarget.
StartBump(b) ==
    /\ BumpAt(b, "idle") /\ bumps < MaxBumps
    /\ bumps' = bumps + 1
    /\ \E m \in Machines, target \in {"worktree", "default"} :
         bump' = [bump EXCEPT ![b] = [NoBump EXCEPT !.step = "fetch", !.machine = m,
                                                    !.target = target, !.nth = bumps + 1]]
    /\ UNCHANGED <<origin, clone>>

\* Git never replaces a tag: it takes what is new, and fails if a name is taken.
Clobbers(m) ==
    \E v \in DOMAIN origin.tags \cap DOMAIN clone[m].tags : clone[m].tags[v] # origin.tags[v]

\* A mutant of Fetched: only the branches.
FetchedBranches(m) == [clone EXCEPT ![m].tracked = origin.tip]

Fetched(m) ==
    [clone EXCEPT ![m].tracked = origin.tip,
                  ![m].tags = [v \in DOMAIN @ \cup DOMAIN origin.tags |->
                                 IF v \in DOMAIN @ THEN @[v] ELSE origin.tags[v]]]

\* refreshBeforeBump: `git fetch --tags origin`.
FetchTags(b) ==
    /\ BumpAt(b, "fetch") /\ ~Clobbers(bump[b].machine)
    /\ clone' = Fetched(bump[b].machine)
    /\ bump' = [bump EXCEPT ![b].step = "compare", ![b].fetched = origin.tip,
                            ![b].known = DOMAIN origin.tags]
    /\ UNCHANGED <<origin, bumps>>

FetchTagsFails(b) ==
    /\ BumpAt(b, "fetch") /\ Clobbers(bump[b].machine)
    /\ clone' = Fetched(bump[b].machine)
    /\ EndBump(b)
    /\ UNCHANGED <<origin, bumps>>

\* upstreamReference of HEAD: the feature branch tracks origin's default branch.
HasUpstream(b) == bump[b].target = "worktree" \/ Ours(b).tracks
HeadOf(b) == IF bump[b].target = "worktree" THEN Ours(b).head ELSE Ours(b).main

\* commitsBehind.
Behind(b) == HasUpstream(b) /\ HeadOf(b) < Ours(b).tracked

Compare(b) ==
    /\ BumpAt(b, "compare") /\ ~Behind(b)
    /\ bump' = [bump EXCEPT ![b].step = "list"]
    /\ UNCHANGED <<origin, clone, bumps>>

Refuse(b) ==
    /\ BumpAt(b, "compare") /\ Behind(b)
    /\ EndBump(b)
    /\ UNCHANGED <<origin, clone, bumps>>

\* latestVersionTag: v0.0.0 without a tag, an error if a pattern finds none.
List(b) ==
    /\ BumpAt(b, "list")
    /\ \E series \in {Every, 0} :
         LET found == Selected(DOMAIN Ours(b).tags, series)
         IN  IF found = {} /\ series # Every
             THEN EndBump(b)
             ELSE bump' = [bump EXCEPT ![b].step = "tag", ![b].series = series,
                             ![b].latest = IF found = {} THEN <<0, 0, 0>> ELSE Highest(found)]
    /\ UNCHANGED <<origin, clone, bumps>>

\* defaultBranchRef names origin's branch; either name is resolved by `git tag`.
Commit(b) == IF bump[b].target = "worktree" THEN Ours(b).head ELSE Ours(b).tracked

\* createVersionTag, which fails if the name is taken.
CreateTag(b) ==
    /\ BumpAt(b, "tag")
    /\ \E kind \in Kinds, push \in BOOLEAN :
         LET v == NextVersion(bump[b].latest, kind)
         IN  IF v \in DOMAIN Ours(b).tags
             THEN EndBump(b) /\ UNCHANGED clone
             ELSE /\ clone' = [clone EXCEPT ![bump[b].machine].tags =
                                 [w \in DOMAIN @ \cup {v} |->
                                    IF w = v THEN [commit |-> Commit(b), nth |-> bump[b].nth]
                                    ELSE @[w]]]
                  /\ IF push
                     THEN bump' = [bump EXCEPT ![b].step = "push", ![b].version = v]
                     ELSE EndBump(b)
    /\ UNCHANGED <<origin, bumps>>

Taken(v) == v \in DOMAIN origin.tags

\* pushVersionTag.
PushTag(b) ==
    /\ BumpAt(b, "push") /\ ~Taken(bump[b].version)
    /\ LET v == bump[b].version
       IN  origin' = [origin EXCEPT !.tags = [w \in DOMAIN @ \cup {v} |->
                                                IF w = v THEN Ours(b).tags[v] ELSE @[w]]]
    /\ EndBump(b)
    /\ UNCHANGED <<clone, bumps>>

\* The push is refused, a network is down, or Timber dies:
\* a tag that was created stays.
StopBump(b) ==
    /\ ~BumpAt(b, "idle")
    /\ EndBump(b)
    /\ UNCHANGED <<origin, clone, bumps>>
----------------------------------------------------------------------------
\* Somebody pushes to origin's default branch.
Advance ==
    /\ origin.tip < MaxTip
    /\ origin' = [origin EXCEPT !.tip = @ + 1]
    /\ UNCHANGED <<clone, bump, bumps>>

\* The user pulls in a worktree of the feature branch or of the default branch.
Pull(m, branch) ==
    /\ clone' = [clone EXCEPT ![m].tracked = origin.tip, ![m][branch] = origin.tip]
    /\ UNCHANGED <<origin, bump, bumps>>

\* After a lost race, or a push that failed, the user deletes the tag.
DeleteTag(m) ==
    /\ \A b \in Bumps : BumpAt(b, "idle") \/ bump[b].machine # m
    /\ \E v \in DOMAIN clone[m].tags :
         /\ v \in DOMAIN origin.tags => origin.tags[v] # clone[m].tags[v]
         /\ clone' = [clone EXCEPT ![m].tags = [w \in DOMAIN @ \ {v} |-> @[w]]]
    /\ UNCHANGED <<origin, bump, bumps>>

BumpNext ==
    \/ \E b \in Bumps :
         \/ StartBump(b) \/ FetchTags(b) \/ FetchTagsFails(b) \/ Compare(b) \/ Refuse(b)
         \/ List(b) \/ CreateTag(b) \/ PushTag(b) \/ StopBump(b)
    \/ Advance
    \/ \E m \in Machines : Pull(m, "head") \/ Pull(m, "main") \/ DeleteTag(m)

BumpSpec == BumpInit /\ [][BumpNext]_bumpVars
----------------------------------------------------------------------------
Tags(tags) ==
    /\ DOMAIN tags \subseteq TagVersions
    /\ \A v \in DOMAIN tags : tags[v] \in [commit : 0..MaxTip, nth : 1..MaxBumps]

BumpTypeOK ==
    /\ origin.tip \in 0..MaxTip /\ Tags(origin.tags)
    /\ \A m \in Machines : Tags(clone[m].tags) /\ clone[m].tracked \in 0..MaxTip

\* Whatever the machines do at once, origin keeps every tag; a version that reaches it
\* is newer than all of its series that were there when the process fetched, so that a
\* bump does not repeat or precede one; and its commit has all that was on origin's
\* branch then, also if branches moved since (refreshBeforeBump, createBumpedTag).
PublishedTagsGrow ==
    [][/\ \A v \in DOMAIN origin.tags : v \in DOMAIN origin'.tags /\ origin'.tags[v] = origin.tags[v]
       /\ \A b \in Bumps :
            DOMAIN origin'.tags # DOMAIN origin.tags /\ bump'[b] # bump[b]
                => /\ \A v \in Selected(bump[b].known, bump[b].series) : Newer(bump[b].version, v)
                   /\ origin'.tags[bump[b].version].commit >= bump[b].fetched]_bumpVars
============================================================================

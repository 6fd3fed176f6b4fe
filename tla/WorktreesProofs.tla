-------------------------- MODULE WorktreesProofs --------------------------
(***************************************************************************)
(* Worktrees, for any number of commands at once, killed between any two   *)
(* of their steps, beside a user: what the three writes of                 *)
(* enableWorktreeConfig keep, and what work no command loses.              *)
(***************************************************************************)
EXTENDS Worktrees, TLAPS

Steps == {"idle", "fetch", "look", "add", "track", "record", "enabled", "bare", "mark", "unmark",
          "extend", "hooks", "check", "drop", "next", "delete", "erase"}

\* The marker for the main worktree is there before the shared one goes, and both
\* before Git reads it.
ConfigInv ==
    /\ pc \in [Commands -> Steps]
    /\ config \in [shared : BOOLEAN, marker : BOOLEAN, extension : BOOLEAN]
    /\ BareMarkerKept
    /\ config.extension => config.marker
    /\ \A c \in Commands : /\ pc[c] \in {"unmark", "extend"} => config.marker
                           /\ pc[c] = "hooks" => config.extension

TreesInv == \A p \in DOMAIN trees : DOMAIN trees[p] = DOMAIN Tree("")

-----------------------------------------------------------------------------
\* A command goes on without a write to the configuration.
LEMMA QuietStep ==
    ASSUME ConfigInv, NEW c \in Commands, NEW step \in Steps, Goto(c, step),
           config' = config,
           step \in {"unmark", "extend"} => config.marker,
           step = "hooks" => config.extension
    PROVE  ConfigInv'
BY DEF ConfigInv, Goto, BareMarkerKept

LEMMA CreatingKeepsConfig ==
    ASSUME ConfigInv, NEW c \in Commands, Creating(c)
    PROVE  ConfigInv'
<1> USE DEF Steps
<1>1. CASE StartCreate(c) \/ Fetch(c) \/ FetchFails(c) \/ LookBranch(c)
  BY <1>1, QuietStep DEF StartCreate, Start, Fetch, FetchFails, LookBranch, Fail, Stop
<1>2. CASE Add(c) \/ AddFails(c) \/ Track(c) \/ TrackFails(c) \/ Record(c)
  BY <1>2, QuietStep DEF Add, Added, AddFails, Track, TrackFails, Record, Fail, Stop
<1>3. CASE ReadEnabled(c)
  BY <1>3, QuietStep DEF ReadEnabled, Stop
<1>4. CASE ReadBare(c)
  <2>1. ~IsBare => config.marker
    BY DEF IsBare, ConfigInv, BareMarkerKept
  <2> QED
    BY <1>4, <2>1, QuietStep DEF ReadBare
<1>5. CASE Mark(c)
  <2>1. config' = [config EXCEPT !.marker = TRUE] /\ pc' = [pc EXCEPT ![c] = "unmark"]
    BY <1>5 DEF Mark, Configure, Goto
  <2> QED
    BY <2>1 DEF ConfigInv, BareMarkerKept
<1>6. CASE Unmark(c)
  <2>1. /\ config' = [config EXCEPT !.shared = FALSE] /\ pc' = [pc EXCEPT ![c] = "extend"]
        /\ pc[c] = "unmark"
    BY <1>6 DEF Unmark, Configure, Goto, At
  <2> QED
    BY <2>1 DEF ConfigInv, BareMarkerKept
<1>7. CASE Extend(c)
  <2>1. /\ config' = [config EXCEPT !.extension = TRUE] /\ pc' = [pc EXCEPT ![c] = "hooks"]
        /\ pc[c] = "extend"
    BY <1>7 DEF Extend, Configure, Goto, At
  <2> QED
    BY <2>1 DEF ConfigInv, BareMarkerKept
<1>8. CASE UnmarkFails(c) \/ Hooks(c) \/ PlaceGone(c)
  BY <1>8, QuietStep DEF UnmarkFails, Hooks, PlaceGone, Fail, Stop
<1> QED
  BY <1>1, <1>2, <1>3, <1>4, <1>5, <1>6, <1>7, <1>8 DEF Creating

LEMMA RemovingKeepsConfig ==
    ASSUME ConfigInv, NEW c \in Commands, Removing(c) \/ Kill(c)
    PROVE  ConfigInv'
<1> USE DEF Steps
<1>1. CASE StartRemove(c) \/ Check(c) \/ Refuse(c)
  BY <1>1, QuietStep DEF StartRemove, Start, Check, Refuse, Fail, Stop
<1>2. CASE StartPrune(c) \/ StartPick(c) \/ NextTarget(c)
  BY <1>2, QuietStep DEF StartPrune, StartPick, Prune, Start, NextTarget, Stop
<1>3. CASE Drop(c) \/ DropFails(c)
  BY <1>3, QuietStep DEF Drop, DropFails, Fail, Stop
<1>4. CASE Delete(c) \/ DeleteFails(c)
  BY <1>4, QuietStep DEF Delete, DeleteFails, AfterDelete, Fail, Stop
<1>5. CASE StartErase(c) \/ Erase(c) \/ RepositoryGone(c) \/ Kill(c)
  BY <1>5, QuietStep DEF StartErase, Start, Erase, RepositoryGone, Kill, Fail, Stop
<1> QED
  BY <1>1, <1>2, <1>3, <1>4, <1>5 DEF Removing

LEMMA ConfigInvStep == ConfigInv /\ [Next]_vars => ConfigInv'
<1> SUFFICES ASSUME ConfigInv, [Next]_vars PROVE ConfigInv'
  OBVIOUS
<1>1. CASE User \/ UNCHANGED vars
  <2>1. CASE Frame \/ UNCHANGED vars
    BY <2>1 DEF Frame, vars, ConfigInv, BareMarkerKept
  <2>2. ASSUME User PROVE Frame
    BY <2>2 DEF User, Edit, Commit, DeleteDirectory, SwitchTo, Push, Land, AddDetached
  <2> QED
    BY <1>1, <2>1, <2>2
<1> QED
  BY <1>1, CreatingKeepsConfig, RemovingKeepsConfig DEF Next

THEOREM ConfigInvariant == Spec => []ConfigInv
<1>1. ASSUME Init PROVE ConfigInv
  <2>1. pc \in [Commands -> Steps] /\ \A c \in Commands : pc[c] = "idle"
    BY <1>1 DEF Init, Steps
  <2>2. config = [shared |-> TRUE, marker |-> FALSE, extension |-> FALSE]
    BY <1>1 DEF Init
  <2>3. /\ config \in [shared : BOOLEAN, marker : BOOLEAN, extension : BOOLEAN]
        /\ config.shared /\ ~config.extension
    BY <2>2
  <2> QED
    BY <2>1, <2>3 DEF ConfigInv, BareMarkerKept
<1> QED
  BY <1>1, ConfigInvStep, PTL DEF Spec

\* The marker of a bare repository is never in neither file.
THEOREM MarkerKept == Spec => []BareMarkerKept
<1>1. ConfigInv => BareMarkerKept
  BY DEF ConfigInv
<1> QED
  BY <1>1, ConfigInvariant, PTL
-----------------------------------------------------------------------------
\* The fields of a checkout.
LEMMA TreesInvStep == TreesInv /\ [Next]_vars => TreesInv'
<1> SUFFICES ASSUME TreesInv, [Next]_vars PROVE TreesInv'
  OBVIOUS
<1> USE DEF TreesInv
<1>1. ASSUME NEW p, NEW b, trees' = Put(trees, p, Tree(b)) PROVE TreesInv'
  BY <1>1 DEF Put, Tree
<1>2. ASSUME NEW p, trees' = Without(trees, p) PROVE TreesInv'
  BY <1>2 DEF Without
<1>3. ASSUME NEW p \in DOMAIN trees, NEW t,
             trees' = [trees EXCEPT ![p] = t], DOMAIN t = DOMAIN trees[p]
      PROVE  TreesInv'
  BY <1>3
<1>4. CASE User
  <2>1. ASSUME NEW p \in DOMAIN trees, Edit(p) \/ Commit(p) \/ DeleteDirectory(p)
        PROVE  TreesInv'
    BY <2>1, <1>3 DEF Edit, Commit, DeleteDirectory
  <2>2. ASSUME NEW p \in DOMAIN trees, NEW b \in Branches, SwitchTo(p, b) PROVE TreesInv'
    BY <2>2, <1>3 DEF SwitchTo
  <2>3. ASSUME NEW b \in Branches, Push(b) \/ Land(b) PROVE TreesInv'
    BY <2>3 DEF Push, Land
  <2>4. ASSUME NEW p \in Customs, AddDetached(p) PROVE TreesInv'
    BY <2>4, <1>1 DEF AddDetached
  <2> QED
    BY <1>4, <2>1, <2>2, <2>3, <2>4 DEF User
<1>5. ASSUME NEW c \in Commands, Creating(c) PROVE TreesInv'
  <2>1. CASE Add(c)
    BY <2>1, <1>1 DEF Add, Added
  <2>2. CASE Record(c) \/ Hooks(c)
    BY <2>2, <1>3 DEF Record, Hooks, Present
  <2>3. CASE UNCHANGED trees
    BY <2>3
  <2>4. Add(c) \/ Record(c) \/ Hooks(c) \/ UNCHANGED trees
    BY <1>5 DEF Creating, StartCreate, Start, Fetch, FetchFails, LookBranch, AddFails, Track,
                TrackFails, ReadEnabled, ReadBare, Mark, Unmark, UnmarkFails, Extend, Configure,
                PlaceGone, Fail, repository
  <2> QED
    BY <2>1, <2>2, <2>3, <2>4
<1>6. ASSUME NEW c \in Commands, Removing(c) \/ Kill(c) PROVE TreesInv'
  <2>1. CASE Drop(c)
    BY <2>1, <1>2 DEF Drop
  <2>2. CASE UNCHANGED trees
    BY <2>2
  <2>3. Drop(c) \/ UNCHANGED trees
    BY <1>6 DEF Removing, StartRemove, Start, Check, Refuse, StartPrune, StartPick, Prune,
                NextTarget, DropFails, Delete, DeleteFails, StartErase, Erase, RepositoryGone,
                Kill, Fail, repository
  <2> QED
    BY <2>1, <2>2, <2>3
<1>7. CASE UNCHANGED vars
  BY <1>7 DEF vars, repository
<1> QED
  BY <1>4, <1>5, <1>6, <1>7 DEF Next

LEMMA HooksReady ==
    ASSUME ConfigInv, TreesInv, NEW c \in Commands, Hooks(c)
    PROVE  /\ job[c].place \in DOMAIN trees' /\ trees'[job[c].place].hooks
           /\ config'.extension /\ config'.marker
<1> DEFINE p == job[c].place
<1>1. p \in DOMAIN trees /\ trees' = [trees EXCEPT ![p].hooks = TRUE]
  BY DEF Hooks, Present
<1>2. "hooks" \in DOMAIN trees[p]
  BY <1>1 DEF TreesInv, Tree
<1>3. p \in DOMAIN trees' /\ trees'[p].hooks
  BY <1>1, <1>2
<1>4. config' = config /\ pc[c] = "hooks"
  BY DEF Hooks, At
<1> QED
  BY <1>3, <1>4 DEF ConfigInv

\* A `create` that ends well leaves a worktree with hooks of its own in a repository
\* whose bare marker Git reads, whatever was killed before.
THEOREM CreateReady == Spec => CreateEndsReady
<1>1. Init => TreesInv
  BY DEF Init, TreesInv
<1>2. ConfigInv /\ TreesInv /\ [Next]_vars
        => [\A c \in Commands :
              Hooks(c) => /\ job[c].place \in DOMAIN trees' /\ trees'[job[c].place].hooks
                          /\ config'.extension /\ config'.marker]_vars
  BY HooksReady
<1> QED
  BY <1>1, <1>2, ConfigInvariant, TreesInvStep, PTL DEF Spec, CreateEndsReady

-----------------------------------------------------------------------------
(***************************************************************************)
(* What the steps do to the repository.                                    *)
(***************************************************************************)
\* A step of a command moves that command only.
LEMMA StepMovesOne ==
    ASSUME NEW c \in Commands, Stepping(c)
    PROVE  /\ made' = made /\ \E step : pc' = [pc EXCEPT ![c] = step]
           /\ UNCHANGED origin
<1> USE DEF Goto, Stop, Fail, Start, repository
<1>1. CASE StartCreate(c) \/ Fetch(c) \/ FetchFails(c) \/ LookBranch(c) \/ Add(c) \/ AddFails(c)
  BY <1>1 DEF StartCreate, Fetch, FetchFails, LookBranch, Add, Added, AddFails
<1>2. CASE Track(c) \/ TrackFails(c) \/ Record(c) \/ ReadEnabled(c) \/ ReadBare(c) \/ PlaceGone(c)
  BY <1>2 DEF Track, TrackFails, Record, ReadEnabled, ReadBare, PlaceGone
<1>3. CASE Mark(c) \/ Unmark(c) \/ UnmarkFails(c) \/ Extend(c) \/ Hooks(c)
  BY <1>3 DEF Mark, Unmark, UnmarkFails, Extend, Hooks, Configure
<1>4. CASE StartRemove(c) \/ Check(c) \/ Refuse(c) \/ StartPrune(c) \/ StartPick(c) \/ NextTarget(c)
  BY <1>4 DEF StartRemove, Check, Refuse, StartPrune, StartPick, Prune, NextTarget
<1>5. CASE Drop(c) \/ DropFails(c) \/ Delete(c) \/ DeleteFails(c)
  BY <1>5 DEF Drop, DropFails, Delete, DeleteFails, AfterDelete
<1>6. CASE StartErase(c) \/ Erase(c) \/ RepositoryGone(c) \/ Kill(c)
  BY <1>6 DEF StartErase, Erase, RepositoryGone, Kill
<1> QED
  BY <1>1, <1>2, <1>3, <1>4, <1>5, <1>6 DEF Stepping, Creating, Removing

\* The steps of a command that change the repository.
Changing(c) ==
    Fetch(c) \/ Add(c) \/ Track(c) \/ Record(c) \/ Hooks(c) \/ Drop(c) \/ Delete(c) \/ Erase(c)

LEMMA OtherStepsLeaveRepository ==
    ASSUME NEW c \in Commands, Stepping(c), ~Changing(c)
    PROVE  UNCHANGED repository
<1> USE DEF Stop, Fail, Start
<1>1. CASE StartCreate(c) \/ FetchFails(c) \/ LookBranch(c) \/ AddFails(c)
  BY <1>1 DEF StartCreate, FetchFails, LookBranch, AddFails
<1>2. CASE TrackFails(c) \/ ReadEnabled(c) \/ ReadBare(c) \/ PlaceGone(c)
  BY <1>2 DEF TrackFails, ReadEnabled, ReadBare, PlaceGone
<1>3. CASE Mark(c) \/ Unmark(c) \/ UnmarkFails(c) \/ Extend(c)
  BY <1>3 DEF Mark, Unmark, UnmarkFails, Extend, Configure
<1>4. CASE StartRemove(c) \/ Check(c) \/ Refuse(c) \/ StartPrune(c) \/ StartPick(c) \/ NextTarget(c)
  BY <1>4 DEF StartRemove, Check, Refuse, StartPrune, StartPick, Prune, NextTarget
<1>5. CASE DropFails(c) \/ DeleteFails(c)
  BY <1>5 DEF DropFails, DeleteFails
<1>6. CASE StartErase(c) \/ RepositoryGone(c) \/ Kill(c)
  BY <1>6 DEF StartErase, RepositoryGone, Kill
<1> QED
  BY <1>1, <1>2, <1>3, <1>4, <1>5, <1>6 DEF Stepping, Creating, Removing, Changing

\* A fetch brings what origin has.
RefsInv ==
    /\ Main \in DOMAIN origin
    /\ registered => Main \in DOMAIN tracking
    /\ \A b \in DOMAIN tracking : b \in DOMAIN origin /\ tracking[b] \subseteq origin[b]

\* A missing directory holds nothing; a branch is in one checkout; the branch of a
\* checkout exists.
OneTreeEach ==
    /\ \A p \in DOMAIN trees : trees[p].gone => trees[p].edits = {}
    /\ \A p, q \in DOMAIN trees : trees[p].branch = trees[q].branch /\ trees[p].branch # "" => p = q
    /\ registered => \A p \in DOMAIN trees : trees[p].branch \in DOMAIN tip \cup {""}

LEMMA RefsStep == RefsInv /\ [Next]_vars => RefsInv'
<1> SUFFICES ASSUME RefsInv, [Next]_vars PROVE RefsInv'
  OBVIOUS
<1>1. CASE UNCHANGED <<registered, origin, tracking>>
  BY <1>1 DEF RefsInv
<1>2. CASE User
  <2>1. ASSUME NEW p \in DOMAIN trees,
               Edit(p) \/ Commit(p) \/ DeleteDirectory(p) \/ \E b \in Branches : SwitchTo(p, b)
        PROVE  RefsInv'
    BY <2>1, <1>1 DEF Edit, Commit, DeleteDirectory, SwitchTo, Frame
  <2>2. ASSUME NEW p \in Customs, AddDetached(p) PROVE RefsInv'
    BY <2>2, <1>1 DEF AddDetached, Frame
  <2>3. ASSUME NEW b \in Branches, Push(b) PROVE RefsInv'
    BY <2>3 DEF Push, Put, Frame, RefsInv
  <2>4. ASSUME NEW b \in Branches, Land(b) PROVE RefsInv'
    <3>1. /\ origin' = [origin EXCEPT ![Main] = @ \cup tip[b]]
          /\ tracking' = tracking /\ registered' = registered
      BY <2>4 DEF Land, Frame
    <3>2. DOMAIN origin' = DOMAIN origin /\ \A d \in DOMAIN origin : origin[d] \subseteq origin'[d]
      BY <3>1 DEF RefsInv
    <3> QED
      BY <3>1, <3>2 DEF RefsInv
  <2> QED
    BY <1>2, <2>1, <2>2, <2>3, <2>4 DEF User
<1>3. ASSUME NEW c \in Commands, Stepping(c) PROVE RefsInv'
  <2>1. CASE Fetch(c)
    <3>1. /\ DOMAIN tracking' = DOMAIN tracking \cup DOMAIN origin
          /\ \A b \in DOMAIN tracking' : tracking'[b] = IF b \in DOMAIN origin THEN origin[b] ELSE tracking[b]
          /\ origin' = origin /\ registered' = registered
      BY <2>1 DEF Fetch
    <3> QED
      BY <3>1 DEF RefsInv
  <2>2. CASE Erase(c)
    BY <2>2 DEF Erase, RefsInv
  <2>3. CASE Add(c) \/ Track(c) \/ Record(c) \/ Hooks(c) \/ Drop(c) \/ Delete(c)
    BY <2>3, <1>1 DEF Add, Added, Track, Record, Hooks, Drop, Delete
  <2>4. CASE ~Changing(c)
    BY <1>1, <1>3, <2>4, OtherStepsLeaveRepository DEF repository
  <2> QED
    BY <2>1, <2>2, <2>3, <2>4 DEF Changing
<1> QED
  BY <1>1, <1>2, <1>3 DEF Next, Stepping, vars, repository

LEMMA UpstreamStep ==
    ASSUME \A b \in DOMAIN upstream : upstream[b] \in {"", b, Main}, [Next]_vars
    PROVE  \A b \in DOMAIN upstream' : upstream'[b] \in {"", b, Main}
<1>1. CASE User
  BY <1>1 DEF User, Edit, Commit, DeleteDirectory, SwitchTo, AddDetached, Push, Land
<1>2. ASSUME NEW c \in Commands, Stepping(c)
      PROVE  \A b \in DOMAIN upstream' : upstream'[b] \in {"", b, Main}
  <2>1. CASE Changing(c)
    BY <2>1 DEF Changing, Fetch, Add, Added, Track, Record, Hooks, Drop, Delete, Erase
  <2>2. CASE ~Changing(c)
    BY <1>2, <2>2, OtherStepsLeaveRepository DEF repository
  <2> QED
    BY <2>1, <2>2
<1> QED
  BY <1>1, <1>2 DEF Next, Stepping, vars, repository

\* A step that writes one field of a checkout leaves the others.
LEMMA OneField ==
    ASSUME TreesInv, NEW p \in DOMAIN trees, NEW x
    PROVE  LET t == trees[p]
           IN  /\ LET u == [t EXCEPT !.edits = x]
                  IN  u.branch = t.branch /\ u.gone = t.gone /\ u.edits = x
               /\ LET u == [t EXCEPT !.gone = x]
                  IN  u.branch = t.branch /\ u.gone = x /\ u.edits = t.edits
               /\ LET u == [t EXCEPT !.branch = x]
                  IN  u.branch = x /\ u.gone = t.gone /\ u.edits = t.edits
               /\ LET u == [t EXCEPT !.name = x]
                  IN  u.branch = t.branch /\ u.gone = t.gone /\ u.edits = t.edits
               /\ LET u == [t EXCEPT !.hooks = x]
                  IN  u.branch = t.branch /\ u.gone = t.gone /\ u.edits = t.edits
BY DEF TreesInv, Tree

\* The checkouts before and after a step: one of them changes or appears.
OneChanges(p, t) ==
    /\ DOMAIN trees' = DOMAIN trees \cup {p}
    /\ trees'[p] = t
    /\ \A q \in DOMAIN trees : q # p => trees'[q] = trees[q]

LEMMA OneTreeKept ==
    ASSUME OneTreeEach, NEW p, NEW t, OneChanges(p, t), registered' = registered,
           t.gone => t.edits = {},
           registered => DOMAIN tip \subseteq DOMAIN tip' /\ t.branch \in DOMAIN tip' \cup {""},
           t.branch # "" => \A q \in DOMAIN trees : q # p => trees[q].branch # t.branch
    PROVE  OneTreeEach'
<1>1. \A q \in DOMAIN trees' : q = p \/ (q \in DOMAIN trees /\ trees'[q] = trees[q])
  BY DEF OneChanges
<1>2. trees'[p] = t
  BY DEF OneChanges
<1>3. \A q \in DOMAIN trees' : trees'[q].gone => trees'[q].edits = {}
  BY <1>1, <1>2 DEF OneTreeEach
<1>4. \A q, r \in DOMAIN trees' : trees'[q].branch = trees'[r].branch /\ trees'[q].branch # "" => q = r
  BY <1>1, <1>2 DEF OneTreeEach
<1>5. registered' => \A q \in DOMAIN trees' : trees'[q].branch \in DOMAIN tip' \cup {""}
  BY <1>1, <1>2 DEF OneTreeEach
<1> QED
  BY <1>3, <1>4, <1>5 DEF OneTreeEach

LEMMA OneTreeStep == TreesInv /\ OneTreeEach /\ [Next]_vars => OneTreeEach'
<1> SUFFICES ASSUME TreesInv, OneTreeEach, [Next]_vars PROVE OneTreeEach'
  OBVIOUS
<1>1. CASE UNCHANGED <<registered, tip, trees>>
  BY <1>1 DEF OneTreeEach
<1>2. ASSUME NEW p \in DOMAIN trees, Edit(p) \/ Commit(p) PROVE OneTreeEach'
  <2>1. PICK x : trees' = [trees EXCEPT ![p].edits = x] /\ (x = {} \/ ~trees[p].gone)
    BY <1>2 DEF Edit, Commit, Present
  <2> DEFINE t == [trees[p] EXCEPT !.edits = x]
  <2>2. t.branch = trees[p].branch /\ t.gone = trees[p].gone /\ t.edits = x
    BY OneField
  <2>3. OneChanges(p, t)
    BY <2>1 DEF OneChanges
  <2>4. DOMAIN tip' = DOMAIN tip /\ registered' = registered
    BY <1>2 DEF Edit, Commit, Frame
  <2> HIDE DEF t
  <2> QED
    BY <2>1, <2>2, <2>3, <2>4, OneTreeKept DEF OneTreeEach
<1>3. ASSUME NEW p \in DOMAIN trees, DeleteDirectory(p) PROVE OneTreeEach'
  <2>1. trees' = [trees EXCEPT ![p].gone = TRUE] /\ trees[p].edits = {}
    BY <1>3 DEF DeleteDirectory, Clean
  <2> DEFINE t == [trees[p] EXCEPT !.gone = TRUE]
  <2>2. t.branch = trees[p].branch /\ t.gone = TRUE /\ t.edits = trees[p].edits
    BY OneField
  <2>3. OneChanges(p, t)
    BY <2>1 DEF OneChanges
  <2>4. tip' = tip /\ registered' = registered
    BY <1>3 DEF DeleteDirectory, Frame
  <2> HIDE DEF t
  <2> QED
    BY <2>1, <2>2, <2>3, <2>4, OneTreeKept DEF OneTreeEach
<1>4. ASSUME NEW p \in DOMAIN trees, NEW b \in Branches, SwitchTo(p, b) PROVE OneTreeEach'
  <2>1. /\ trees' = [trees EXCEPT ![p].branch = b] /\ trees[p].edits = {}
        /\ b \in DOMAIN tip /\ \A q \in DOMAIN trees : trees[q].branch # b
        /\ tip' = tip /\ registered' = registered
    BY <1>4 DEF SwitchTo, Clean, CheckedOut, Frame
  <2> DEFINE t == [trees[p] EXCEPT !.branch = b]
  <2>2. t.branch = b /\ t.gone = trees[p].gone /\ t.edits = trees[p].edits
    BY OneField
  <2>3. OneChanges(p, t)
    BY <2>1 DEF OneChanges
  <2> HIDE DEF t
  <2> QED
    BY <2>1, <2>2, <2>3, OneTreeKept
<1>5. ASSUME NEW p \in Customs, AddDetached(p) PROVE OneTreeEach'
  <2> DEFINE t == Tree("")
  <2>1. trees' = Put(trees, p, t) /\ tip' = tip /\ registered' = registered
    BY <1>5 DEF AddDetached, Frame
  <2>2. OneChanges(p, t)
    BY <2>1 DEF OneChanges, Put
  <2>3. t.branch = "" /\ ~t.gone
    BY DEF Tree
  <2> HIDE DEF t
  <2> QED
    BY <2>1, <2>2, <2>3, OneTreeKept
<1>6. ASSUME NEW b \in Branches, Push(b) \/ Land(b) PROVE OneTreeEach'
  BY <1>1, <1>6 DEF Push, Land, Frame
<1>7. ASSUME NEW c \in Commands, Stepping(c) PROVE OneTreeEach'
  <2>1. CASE Fetch(c) \/ Track(c)
    BY <2>1, <1>1 DEF Fetch, Track
  <2>2. CASE Add(c)
    <3> DEFINE p == job[c].place
               b == job[c].branch
               t == Tree(b)
    <3>1. /\ registered /\ p \notin DOMAIN trees
          /\ \/ b \in DOMAIN tip /\ (\A q \in DOMAIN trees : trees[q].branch # b) /\ tip' = tip
             \/ b \notin DOMAIN tip /\ tip' = Put(tip, b, tracking[Main])
          /\ trees' = Put(trees, p, t) /\ registered' = registered
      BY <2>2 DEF Add, Added, Addable, At, CheckedOut
    <3>2. OneChanges(p, t) /\ t.branch = b /\ ~t.gone
      BY <3>1 DEF OneChanges, Put, Tree
    <3> HIDE DEF p, b, t
    <3>3. b \in DOMAIN tip' /\ DOMAIN tip \subseteq DOMAIN tip'
      BY <3>1 DEF Put
    <3>4. b # "" => \A q \in DOMAIN trees : trees[q].branch # b
      BY <3>1 DEF OneTreeEach
    <3> QED
      BY <3>1, <3>2, <3>3, <3>4, OneTreeKept
  <2>3. CASE Record(c) \/ Hooks(c)
    <3>0. PICK p \in DOMAIN trees :
            \E x : trees' = [trees EXCEPT ![p].name = x] \/ trees' = [trees EXCEPT ![p].hooks = x]
      BY <2>3 DEF Record, Hooks, Present
    <3>1. PICK x : trees' = [trees EXCEPT ![p].name = x] \/ trees' = [trees EXCEPT ![p].hooks = x]
      BY <3>0
    <3>2. PICK t : /\ OneChanges(p, t) /\ t.branch = trees[p].branch
                   /\ t.gone = trees[p].gone /\ t.edits = trees[p].edits
      <4>1. CASE trees' = [trees EXCEPT ![p].name = x]
        <5> DEFINE t == [trees[p] EXCEPT !.name = x]
        <5>1. OneChanges(p, t)
          BY <4>1 DEF OneChanges
        <5>2. t.branch = trees[p].branch /\ t.gone = trees[p].gone /\ t.edits = trees[p].edits
          BY OneField
        <5> QED
          BY <5>1, <5>2
      <4>2. CASE trees' = [trees EXCEPT ![p].hooks = x]
        <5> DEFINE t == [trees[p] EXCEPT !.hooks = x]
        <5>1. OneChanges(p, t)
          BY <4>2 DEF OneChanges
        <5>2. t.branch = trees[p].branch /\ t.gone = trees[p].gone /\ t.edits = trees[p].edits
          BY OneField
        <5> QED
          BY <5>1, <5>2
      <4> QED
        BY <3>1, <4>1, <4>2
    <3>3. tip' = tip /\ registered' = registered
      BY <2>3 DEF Record, Hooks
    <3> QED
      BY <3>2, <3>3, OneTreeKept DEF OneTreeEach
  <2>4. CASE Drop(c)
    <3>1. trees' = Without(trees, job[c].place) /\ tip' = tip /\ registered' = registered
      BY <2>4 DEF Drop
    <3> QED
      BY <3>1 DEF OneTreeEach, Without
  <2>5. CASE Delete(c)
    <3> DEFINE b == job[c].branch
    <3>1. /\ trees' = trees /\ tip' = Without(tip, b) /\ registered' = registered
          /\ b \in DOMAIN tip => \A q \in DOMAIN trees : trees[q].branch # b
      BY <2>5 DEF Delete, Deletable, CheckedOut
    <3> HIDE DEF b
    <3>2. DOMAIN tip' = DOMAIN tip \ {b}
      BY <3>1 DEF Without
    <3> QED
      BY <3>1, <3>2 DEF OneTreeEach
  <2>6. CASE Erase(c)
    BY <2>6 DEF Erase, OneTreeEach
  <2>7. CASE ~Changing(c)
    BY <1>1, <1>7, <2>7, OtherStepsLeaveRepository DEF repository
  <2> QED
    BY <2>1, <2>2, <2>3, <2>4, <2>5, <2>6, <2>7 DEF Changing
<1> QED
  BY <1>1, <1>2, <1>3, <1>4, <1>5, <1>6, <1>7 DEF Next, User, Stepping, vars, repository

\* What a step writes in one field of a checkout.
LEMMA OneWritten ==
    ASSUME TreesInv, NEW p \in DOMAIN trees, NEW x,
           \/ trees' = [trees EXCEPT ![p].name = x]
           \/ trees' = [trees EXCEPT ![p].hooks = x]
           \/ trees' = [trees EXCEPT ![p].gone = x]
    PROVE  \E t : OneChanges(p, t) /\ t.branch = trees[p].branch /\ t.edits = trees[p].edits
<1>1. CASE trees' = [trees EXCEPT ![p].name = x]
  <2> DEFINE t == [trees[p] EXCEPT !.name = x]
  <2>1. OneChanges(p, t)
    BY <1>1 DEF OneChanges
  <2>2. t.branch = trees[p].branch /\ t.edits = trees[p].edits
    BY OneField
  <2> QED
    BY <2>1, <2>2
<1>2. CASE trees' = [trees EXCEPT ![p].hooks = x]
  <2> DEFINE t == [trees[p] EXCEPT !.hooks = x]
  <2>1. OneChanges(p, t)
    BY <1>2 DEF OneChanges
  <2>2. t.branch = trees[p].branch /\ t.edits = trees[p].edits
    BY OneField
  <2> QED
    BY <2>1, <2>2
<1>3. CASE trees' = [trees EXCEPT ![p].gone = x]
  <2> DEFINE t == [trees[p] EXCEPT !.gone = x]
  <2>1. OneChanges(p, t)
    BY <1>3 DEF OneChanges
  <2>2. t.branch = trees[p].branch /\ t.edits = trees[p].edits
    BY OneField
  <2> QED
    BY <2>1, <2>2
<1> QED
  BY <1>1, <1>2, <1>3

-----------------------------------------------------------------------------
(***************************************************************************)
(* A target of a prune: what was written before the prune looked is on     *)
(* origin.                                                                 *)
(***************************************************************************)
SafeFor(p, b, S) ==
    /\ \A q \in DOMAIN trees : q = p \/ trees[q].branch = b => trees[q].edits \cap S = {}
    /\ b \in DOMAIN tip => tip[b] \cap S \subseteq origin[Main]

LEMMA SafeKept ==
    ASSUME NEW p, NEW b, NEW S, SafeFor(p, b, S), NEW q, NEW t, OneChanges(q, t),
           q = p \/ t.branch = b => t.edits \cap S = {},
           b \in DOMAIN tip' => tip'[b] \cap S \subseteq origin'[Main]
    PROVE  SafeFor(p, b, S)'
BY DEF SafeFor, OneChanges

LEMMA SafeStep ==
    ASSUME TreesInv, RefsInv, [Next]_vars,
           NEW p, NEW b, NEW S, S \subseteq made, SafeFor(p, b, S)
    PROVE  SafeFor(p, b, S)'
<1>1. CASE UNCHANGED <<tip, trees, origin>>
  BY <1>1 DEF SafeFor
<1>2. ASSUME NEW q \in DOMAIN trees, Edit(q) PROVE SafeFor(p, b, S)'
  <2>1. PICK x \in Changes \ made : trees' = [trees EXCEPT ![q].edits = @ \cup {x}]
    BY <1>2 DEF Edit
  <2> DEFINE e == trees[q].edits \cup {x}
             t == [trees[q] EXCEPT !.edits = e]
  <2>2. t.branch = trees[q].branch /\ t.edits = e
    BY OneField
  <2>3. OneChanges(q, t)
    BY <2>1 DEF OneChanges
  <2>4. q = p \/ t.branch = b => e \cap S = {}
    BY <2>2 DEF SafeFor
  <2>5. tip' = tip /\ origin' = origin
    BY <1>2 DEF Edit
  <2>6. b \in DOMAIN tip' => tip'[b] \cap S \subseteq origin'[Main]
    BY <2>5 DEF SafeFor
  <2>7. q = p \/ t.branch = b => t.edits \cap S = {}
    BY <2>2, <2>4
  <2> HIDE DEF t
  <2> QED
    BY <2>3, <2>6, <2>7, SafeKept
<1>3. ASSUME NEW q \in DOMAIN trees, Commit(q) PROVE SafeFor(p, b, S)'
  <2> DEFINE t == [trees[q] EXCEPT !.edits = {}]
             d == trees[q].branch
  <2>1. trees' = [trees EXCEPT ![q].edits = {}] /\ origin' = origin
        /\ tip' = [tip EXCEPT ![d] = @ \cup trees[q].edits]
    BY <1>3 DEF Commit
  <2>2. t.branch = d /\ t.edits = {}
    BY OneField
  <2>3. OneChanges(q, t)
    BY <2>1 DEF OneChanges
  <2>4. d = b => trees[q].edits \cap S = {}
    BY DEF SafeFor
  <2>5. b \in DOMAIN tip' => tip'[b] \cap S \subseteq origin'[Main]
    BY <2>1, <2>4 DEF SafeFor
  <2> HIDE DEF t, d
  <2> QED
    BY <2>2, <2>3, <2>5, SafeKept
<1>4. ASSUME NEW q \in DOMAIN trees,
             DeleteDirectory(q) PROVE SafeFor(p, b, S)'
  <2>1. PICK t : OneChanges(q, t) /\ t.branch = trees[q].branch /\ t.edits = trees[q].edits
    BY <1>4, OneWritten DEF DeleteDirectory
  <2>2. tip' = tip /\ origin' = origin
    BY <1>4 DEF DeleteDirectory
  <2>3. /\ q = p \/ t.branch = b => t.edits \cap S = {}
        /\ b \in DOMAIN tip' => tip'[b] \cap S \subseteq origin'[Main]
    BY <2>1, <2>2 DEF SafeFor
  <2> QED
    BY <2>1, <2>3, SafeKept
<1>5. ASSUME NEW q \in DOMAIN trees, NEW d \in Branches, SwitchTo(q, d) PROVE SafeFor(p, b, S)'
  <2> DEFINE t == [trees[q] EXCEPT !.branch = d]
  <2>1. trees' = [trees EXCEPT ![q].branch = d] /\ trees[q].edits = {} /\ tip' = tip /\ origin' = origin
    BY <1>5 DEF SwitchTo, Clean
  <2>2. t.edits = {}
    BY <2>1, OneField
  <2>3. OneChanges(q, t)
    BY <2>1 DEF OneChanges
  <2>4. b \in DOMAIN tip' => tip'[b] \cap S \subseteq origin'[Main]
    BY <2>1 DEF SafeFor
  <2> HIDE DEF t
  <2> QED
    BY <2>2, <2>3, <2>4, SafeKept
<1>6. ASSUME NEW q \in Customs, AddDetached(q) PROVE SafeFor(p, b, S)'
  <2> DEFINE t == Tree("")
  <2>1. trees' = Put(trees, q, t) /\ tip' = tip /\ origin' = origin
    BY <1>6 DEF AddDetached
  <2>2. OneChanges(q, t) /\ t.edits = {}
    BY <2>1 DEF OneChanges, Put, Tree
  <2>3. b \in DOMAIN tip' => tip'[b] \cap S \subseteq origin'[Main]
    BY <2>1 DEF SafeFor
  <2> HIDE DEF t
  <2> QED
    BY <2>2, <2>3, SafeKept
<1>7. ASSUME NEW d \in Branches, Push(d) PROVE SafeFor(p, b, S)'
  BY <1>7 DEF Push, Put, SafeFor, RefsInv
<1>8. ASSUME NEW d \in Branches, Land(d) PROVE SafeFor(p, b, S)'
  <2>1. /\ origin' = [origin EXCEPT ![Main] = @ \cup tip[d]]
        /\ tip' = tip /\ trees' = trees /\ Main \in DOMAIN origin
    BY <1>8 DEF Land, RefsInv
  <2>2. origin[Main] \subseteq origin'[Main]
    BY <2>1
  <2> QED
    BY <2>1, <2>2 DEF SafeFor
<1>9. ASSUME NEW c \in Commands, Stepping(c) PROVE SafeFor(p, b, S)'
  <2>0. origin' = origin
    BY <1>9, StepMovesOne
  <2>1. CASE Fetch(c) \/ Track(c)
    BY <2>1, <1>1 DEF Fetch, Track
  <2>2. CASE Add(c)
    <3> DEFINE q == job[c].place
               d == job[c].branch
               t == Tree(d)
    <3>1. /\ registered /\ trees' = Put(trees, q, t)
          /\ tip' = tip \/ tip' = Put(tip, d, tracking[Main])
      BY <2>2 DEF Add, Added, At
    <3>2. OneChanges(q, t) /\ t.edits = {}
      BY <3>1 DEF OneChanges, Put, Tree
    <3>3. tracking[Main] \subseteq origin[Main]
      BY <3>1 DEF RefsInv
    <3> HIDE DEF q, d, t
    <3>4. b \in DOMAIN tip' => tip'[b] \cap S \subseteq origin'[Main]
      BY <2>0, <3>1, <3>3 DEF Put, SafeFor
    <3> QED
      BY <3>2, <3>4, SafeKept
  <2>3. CASE Record(c) \/ Hooks(c)
    <3>0. PICK q \in DOMAIN trees :
            \E x : trees' = [trees EXCEPT ![q].name = x] \/ trees' = [trees EXCEPT ![q].hooks = x]
      BY <2>3 DEF Record, Hooks, Present
    <3>1. PICK t : OneChanges(q, t) /\ t.branch = trees[q].branch /\ t.edits = trees[q].edits
      BY <3>0, OneWritten
    <3>2. tip' = tip
      BY <2>3 DEF Record, Hooks
    <3>3. /\ q = p \/ t.branch = b => t.edits \cap S = {}
          /\ b \in DOMAIN tip' => tip'[b] \cap S \subseteq origin'[Main]
      BY <2>0, <3>1, <3>2 DEF SafeFor
    <3> QED
      BY <3>1, <3>3, SafeKept
  <2>4. CASE Drop(c)
    BY <2>0, <2>4 DEF Drop, Without, SafeFor
  <2>5. CASE Delete(c)
    BY <2>0, <2>5 DEF Delete, Without, SafeFor
  <2>6. CASE Erase(c)
    BY <2>0, <2>6 DEF Erase, SafeFor
  <2>7. CASE ~Changing(c)
    BY <1>1, <1>9, <2>7, OtherStepsLeaveRepository DEF repository
  <2> QED
    BY <2>1, <2>2, <2>3, <2>4, <2>5, <2>6, <2>7 DEF Changing
<1>10. CASE UNCHANGED vars
  BY <1>1, <1>10 DEF vars, repository
<1> QED
  BY <1>2, <1>3, <1>4, <1>5, <1>6, <1>7, <1>8, <1>9, <1>10 DEF Next, User, Stepping

LEMMA MadeGrows == [Next]_vars => made \subseteq made'
<1>1. ASSUME User PROVE made \subseteq made'
  BY <1>1 DEF User, Edit, Commit, DeleteDirectory, SwitchTo, AddDetached, Push, Land
<1>2. ASSUME NEW c \in Commands, Stepping(c) PROVE made \subseteq made'
  BY <1>2, StepMovesOne
<1> QED
  BY <1>1, <1>2 DEF Next, Stepping, vars

-----------------------------------------------------------------------------
(***************************************************************************)
(* What a command remembers.                                               *)
(***************************************************************************)
JobFine(c) ==
    /\ DOMAIN job[c] = DOMAIN NoJob
    /\ pc[c] = "erase" => job[c].op = "erase" /\ job[c].before = {}
    /\ pc[c] \in {"look", "add"} => job[c].op = "create"
    /\ job[c].op = "create" => /\ job[c].branch \in Branches
                               /\ pc[c] \notin {"check", "next", "drop", "delete"}
    /\ job[c].op = "prune" => pc[c] \in {"next", "drop", "delete"}

JobsInv == DOMAIN job = Commands /\ \A c \in Commands : JobFine(c)

\* A command that goes on with the same memory, or ends.
LEMMA SameJob ==
    ASSUME ConfigInv, JobsInv, NEW c \in Commands, NEW step, Goto(c, step), job' = job,
           step # "erase",
           step \in {"look", "add"} => job[c].op = "create",
           step \in {"check", "next", "drop", "delete"} => job[c].op # "create",
           job[c].op = "prune" => step \in {"next", "drop", "delete"}
    PROVE  JobsInv'
BY DEF JobsInv, JobFine, Goto, ConfigInv

\* A command that goes on with a new memory.
Remembers(c, step, j) == Goto(c, step) /\ job' = [job EXCEPT ![c] = j]

LEMMA NewJob ==
    ASSUME ConfigInv, JobsInv, NEW c \in Commands, NEW step, NEW j, Remembers(c, step, j),
           DOMAIN j = DOMAIN NoJob,
           step = "erase" => j.op = "erase" /\ j.before = {},
           step \in {"look", "add"} => j.op = "create",
           j.op = "create" => j.branch \in Branches /\ step \notin {"check", "next", "drop", "delete"},
           j.op = "prune" => step \in {"next", "drop", "delete"}
    PROVE  JobsInv'
BY DEF JobsInv, JobFine, Remembers, Goto, ConfigInv

LEMMA StopJob ==
    ASSUME ConfigInv, JobsInv, NEW c \in Commands, Stop(c)
    PROVE  JobsInv'
<1>1. NoJob.op = "none"
  BY DEF NoJob
<1> QED
  BY <1>1, NewJob DEF Stop, Remembers

LEMMA JobsStep == ConfigInv /\ JobsInv /\ [Next]_vars => JobsInv'
<1> SUFFICES ASSUME ConfigInv, JobsInv, [Next]_vars PROVE JobsInv'
  OBVIOUS
<1>1. CASE UNCHANGED <<pc, job>>
  BY <1>1 DEF JobsInv, JobFine
<1>2. ASSUME NEW c \in Commands, Stepping(c) PROVE JobsInv'
  <2>1. JobFine(c) /\ pc[c] \in Steps
    BY DEF JobsInv, ConfigInv
  <2>2. CASE StartCreate(c)
    <3>1. PICK b \in Branches : \E p \in {Standard(b)} \cup Customs :
            Start(c, "fetch", [NoJob EXCEPT !.op = "create", !.branch = b, !.place = p])
      BY <2>2 DEF StartCreate
    <3>2. PICK p : Start(c, "fetch", [NoJob EXCEPT !.op = "create", !.branch = b, !.place = p])
      BY <3>1
    <3> DEFINE j == [NoJob EXCEPT !.op = "create", !.branch = b, !.place = p]
    <3>3. DOMAIN j = DOMAIN NoJob /\ j.op = "create" /\ j.branch = b
      BY DEF NoJob
    <3>4. Remembers(c, "fetch", j)
      BY <3>2 DEF Start, Remembers
    <3> HIDE DEF j
    <3> QED
      BY <3>3, <3>4, NewJob
  <2>3. CASE Fetch(c)
    BY <2>1, <2>3, SameJob DEF Fetch, At, JobFine
  <2>4. CASE LookBranch(c)
    <3> DEFINE j == [job[c] EXCEPT !.exists = job[c].branch \in DOMAIN tip]
    <3>1. pc[c] = "look" /\ Remembers(c, "add", j)
      BY <2>4 DEF LookBranch, At, Remembers, JobsInv
    <3>2. DOMAIN j = DOMAIN NoJob /\ j.op = job[c].op /\ j.branch = job[c].branch
      BY <2>1 DEF JobFine, NoJob
    <3>3. j.op = "create" /\ j.branch \in Branches
      BY <2>1, <3>1, <3>2 DEF JobFine
    <3> HIDE DEF j
    <3> QED
      BY <3>1, <3>2, <3>3, NewJob
  <2>5. CASE Add(c) \/ Track(c) \/ Record(c)
    BY <2>1, <2>5, SameJob DEF Add, Added, Track, Record, At, JobFine
  <2>6. CASE ReadEnabled(c)
    <3>1. CASE Stop(c)
      BY <3>1, StopJob
    <3>2. CASE ~Stop(c)
      <4>1. pc[c] = "enabled" /\ job' = job /\ (Goto(c, "hooks") \/ Goto(c, "bare"))
        BY <2>6, <3>2 DEF ReadEnabled, At
      <4> QED
        BY <2>1, <4>1, SameJob DEF JobFine
    <3> QED
      BY <3>1, <3>2
  <2>7. CASE ReadBare(c) \/ Mark(c) \/ Unmark(c) \/ Extend(c)
    BY <2>1, <2>7, SameJob DEF ReadBare, Mark, Unmark, Extend, Configure, At, JobFine
  <2>8. CASE FetchFails(c) \/ AddFails(c) \/ TrackFails(c) \/ UnmarkFails(c) \/ PlaceGone(c)
    BY <2>8, StopJob DEF FetchFails, AddFails, TrackFails, UnmarkFails, PlaceGone, Fail
  <2>9. CASE Refuse(c) \/ DropFails(c) \/ DeleteFails(c) \/ RepositoryGone(c) \/ Kill(c)
    BY <2>9, StopJob DEF Refuse, DropFails, DeleteFails, RepositoryGone, Kill, Fail
  <2>10. CASE Hooks(c) \/ Erase(c)
    BY <2>10, StopJob DEF Hooks, Erase
  <2>11. CASE StartRemove(c)
    <3>1. PICK p \in Managed : \E force \in BOOLEAN :
            Start(c, IF force THEN "drop" ELSE "fetch",
                  [NoJob EXCEPT !.op = "remove", !.branch = trees[p].branch,
                                !.place = p, !.force = force])
      BY <2>11 DEF StartRemove
    <3>2. PICK force \in BOOLEAN :
            Start(c, IF force THEN "drop" ELSE "fetch",
                  [NoJob EXCEPT !.op = "remove", !.branch = trees[p].branch,
                                !.place = p, !.force = force])
      BY <3>1
    <3> DEFINE j == [NoJob EXCEPT !.op = "remove", !.branch = trees[p].branch,
                                  !.place = p, !.force = force]
    <3>3. DOMAIN j = DOMAIN NoJob /\ j.op = "remove"
      BY DEF NoJob
    <3>4. Remembers(c, "drop", j) \/ Remembers(c, "fetch", j)
      BY <3>2 DEF Start, Remembers
    <3> HIDE DEF j
    <3> QED
      BY <3>3, <3>4, NewJob
  <2>12. CASE Check(c) \/ Drop(c)
    BY <2>1, <2>12, SameJob DEF Check, Drop, At, JobFine
  <2>13. CASE StartPrune(c) \/ StartPick(c)
    <3>1. PICK op \in {"prune", "pick"} : \E S : Prune(c, op, S)
      BY <2>13 DEF StartPrune, StartPick
    <3>2. PICK S : Prune(c, op, S)
      BY <3>1
    <3> DEFINE j == [NoJob EXCEPT !.op = op, !.force = TRUE, !.chosen = Targets(S), !.seen = made]
    <3>3. DOMAIN j = DOMAIN NoJob /\ j.op = op
      BY DEF NoJob
    <3>4. Remembers(c, "next", j)
      BY <3>2 DEF Prune, Start, Remembers
    <3> HIDE DEF j
    <3> QED
      BY <3>3, <3>4, NewJob
  <2>14. CASE NextTarget(c)
    <3>1. CASE Stop(c)
      BY <3>1, StopJob
    <3>2. CASE ~Stop(c)
      <4>1. PICK t \in job[c].chosen :
              /\ job' = [job EXCEPT ![c].place = t.place, ![c].branch = t.branch,
                                    ![c].chosen = @ \ {t}]
              /\ Goto(c, "drop")
        BY <2>14, <3>2 DEF NextTarget
      <4> DEFINE j == [job[c] EXCEPT !.place = t.place, !.branch = t.branch,
                                     !.chosen = @ \ {t}]
      <4>2. Remembers(c, "drop", j)
        BY <4>1 DEF JobsInv, Remembers
      <4>3. DOMAIN j = DOMAIN NoJob /\ j.op = job[c].op
        BY <2>1 DEF JobFine, NoJob
      <4>4. j.op # "create"
        BY <2>1, <2>14, <4>3 DEF JobFine, NextTarget, At
      <4> HIDE DEF j
      <4> QED
        BY <4>2, <4>3, <4>4, NewJob
    <3> QED
      BY <3>1, <3>2
  <2>15. CASE Delete(c)
    <3>1. pc[c] = "delete" /\ (Stop(c) \/ (Goto(c, "next") /\ job' = job))
      BY <2>15 DEF Delete, AfterDelete, At
    <3>2. CASE Stop(c)
      BY <3>2, StopJob
    <3>3. CASE Goto(c, "next") /\ job' = job
      BY <2>1, <3>1, <3>3, SameJob DEF JobFine
    <3> QED
      BY <3>1, <3>2, <3>3
  <2>16. CASE StartErase(c)
    <3> DEFINE j == [NoJob EXCEPT !.op = "erase", !.before = DOMAIN trees]
    <3>1. Remembers(c, "erase", j) /\ DOMAIN trees = {}
      BY <2>16 DEF StartErase, NoWorktrees, Start, Remembers
    <3>2. DOMAIN j = DOMAIN NoJob /\ j.op = "erase" /\ j.before = {}
      BY <3>1 DEF NoJob
    <3> HIDE DEF j
    <3> QED
      BY <3>1, <3>2, NewJob
  <2> QED
    BY <1>2, <2>2, <2>3, <2>4, <2>5, <2>6, <2>7, <2>8, <2>9, <2>10, <2>11, <2>12, <2>13, <2>14,
       <2>15, <2>16 DEF Stepping, Creating, Removing
<1>3. ASSUME User PROVE UNCHANGED <<pc, job>>
  BY <1>3 DEF User, Edit, Commit, DeleteDirectory, SwitchTo, AddDetached, Push, Land, Frame
<1> QED
  BY <1>1, <1>2, <1>3 DEF Next, Stepping, vars

-----------------------------------------------------------------------------
(***************************************************************************)
(* Branches.                                                               *)
(***************************************************************************)
BranchesInv ==
    /\ DOMAIN upstream = Branches
    /\ DOMAIN tip \subseteq Branches
    /\ \A b \in DOMAIN upstream : upstream[b] \in {"", b, Main}

LEMMA BranchesStep == BranchesInv /\ JobsInv /\ [Next]_vars => BranchesInv'
<1> SUFFICES ASSUME BranchesInv, JobsInv, [Next]_vars
             PROVE  DOMAIN upstream' = Branches /\ DOMAIN tip' \subseteq Branches
  BY UpstreamStep DEF BranchesInv
<1> USE DEF BranchesInv
<1>1. CASE User
  BY <1>1 DEF User, Edit, Commit, DeleteDirectory, SwitchTo, AddDetached, Push, Land
<1>2. ASSUME NEW c \in Commands, Stepping(c)
      PROVE  DOMAIN upstream' = Branches /\ DOMAIN tip' \subseteq Branches
  <2>1. CASE Add(c)
    <3>1. job[c].branch \in Branches
      BY <2>1 DEF JobsInv, JobFine, Add, At
    <3> QED
      BY <2>1, <3>1 DEF Add, Added, Put
  <2>2. CASE Fetch(c) \/ Track(c) \/ Record(c) \/ Hooks(c) \/ Drop(c) \/ Delete(c) \/ Erase(c)
    BY <2>2 DEF Fetch, Track, Record, Hooks, Drop, Delete, Erase, Without
  <2>3. CASE ~Changing(c)
    BY <1>2, <2>3, OtherStepsLeaveRepository DEF repository
  <2> QED
    BY <2>1, <2>2, <2>3 DEF Changing
<1> QED
  BY <1>1, <1>2 DEF Next, Stepping, vars, repository

-----------------------------------------------------------------------------
(***************************************************************************)
(* What a prune has chosen.                                                *)
(***************************************************************************)
TargetsSafe(c) ==
    job[c].op = "prune"
        => /\ job[c].seen \subseteq made
           /\ \A t \in job[c].chosen : SafeFor(t.place, t.branch, job[c].seen)
           /\ pc[c] \in {"drop", "delete"} => SafeFor(job[c].place, job[c].branch, job[c].seen)

TargetsInv == \A c \in Commands : TargetsSafe(c)

\* What a prune sees clean and merged is on origin.
LEMMA CleanMergedIsSafe ==
    ASSUME OneTreeEach, RefsInv, BranchesInv, NEW p \in CleanMerged, NEW S
    PROVE  SafeFor(p, trees[p].branch, S)
<1> DEFINE b == trees[p].branch
<1>1. p \in DOMAIN trees /\ b # "" /\ trees[p].edits = {} /\ Merged(b)
  BY DEF CleanMerged, Managed, Clean
<1>2. \A q \in DOMAIN trees : trees[q].branch = b => q = p
  BY <1>1 DEF OneTreeEach
<1>3. b \in DOMAIN tip /\ upstream[b] = Main /\ Main \in DOMAIN tracking
  BY <1>1 DEF Merged, Tracks, BranchesInv
<1>4. tip[b] \subseteq tracking[Main] /\ tracking[Main] \subseteq origin[Main]
  BY <1>1, <1>3 DEF Merged, RefsInv
<1> QED
  BY <1>1, <1>2, <1>4 DEF SafeFor

\* A command that keeps its targets, or has none, and may go on to its branch.
LEMMA TargetsKept ==
    ASSUME TreesInv, RefsInv, [Next]_vars, NEW c \in Commands, TargetsSafe(c),
           job'[c] = job[c],
           pc'[c] \in {"drop", "delete"} => pc[c] \in {"drop", "delete"} \/ job[c].op # "prune"
    PROVE  TargetsSafe(c)'
<1> SUFFICES ASSUME job[c].op = "prune" PROVE TargetsSafe(c)'
  BY DEF TargetsSafe
<1>0. PICK S : S = job[c].seen
  OBVIOUS
<1>1. S \subseteq made /\ S \subseteq made'
  BY <1>0, MadeGrows DEF TargetsSafe
<1>2. ASSUME NEW t \in job[c].chosen PROVE SafeFor(t.place, t.branch, S)'
  <2>1. PICK p : p = t.place
    OBVIOUS
  <2>2. PICK b : b = t.branch
    OBVIOUS
  <2>3. SafeFor(p, b, S)
    BY <1>0, <2>1, <2>2 DEF TargetsSafe
  <2>4. SafeFor(p, b, S)'
    BY <1>1, <2>3, SafeStep
  <2> QED
    BY <2>1, <2>2, <2>4
<1>3. ASSUME pc'[c] \in {"drop", "delete"} PROVE SafeFor(job[c].place, job[c].branch, S)'
  <2>1. PICK p : p = job[c].place
    OBVIOUS
  <2>2. PICK b : b = job[c].branch
    OBVIOUS
  <2>3. SafeFor(p, b, S)
    BY <1>0, <1>3, <2>1, <2>2 DEF TargetsSafe
  <2>4. SafeFor(p, b, S)'
    BY <1>1, <2>3, SafeStep
  <2> QED
    BY <2>1, <2>2, <2>4
<1> QED
  BY <1>0, <1>1, <1>2, <1>3 DEF TargetsSafe

LEMMA StepRemembersOne ==
    ASSUME JobsInv, NEW c \in Commands, Stepping(c), NEW d \in Commands, d # c
    PROVE  job'[d] = job[d]
<1> USE DEF Stop, Fail, Start, JobsInv
<1>1. CASE StartCreate(c) \/ Fetch(c) \/ FetchFails(c) \/ LookBranch(c) \/ Add(c) \/ AddFails(c)
  BY <1>1 DEF StartCreate, Fetch, FetchFails, LookBranch, Add, Added, AddFails
<1>2. CASE Track(c) \/ TrackFails(c) \/ Record(c) \/ ReadEnabled(c) \/ ReadBare(c) \/ PlaceGone(c)
  BY <1>2 DEF Track, TrackFails, Record, ReadEnabled, ReadBare, PlaceGone
<1>3. CASE Mark(c) \/ Unmark(c) \/ UnmarkFails(c) \/ Extend(c) \/ Hooks(c)
  BY <1>3 DEF Mark, Unmark, UnmarkFails, Extend, Hooks, Configure
<1>4. CASE StartRemove(c) \/ Check(c) \/ Refuse(c) \/ StartPrune(c) \/ StartPick(c) \/ NextTarget(c)
  BY <1>4 DEF StartRemove, Check, Refuse, StartPrune, StartPick, Prune, NextTarget
<1>5. CASE Drop(c) \/ DropFails(c) \/ Delete(c) \/ DeleteFails(c)
  BY <1>5 DEF Drop, DropFails, Delete, DeleteFails, AfterDelete
<1>6. CASE StartErase(c) \/ Erase(c) \/ RepositoryGone(c) \/ Kill(c)
  BY <1>6 DEF StartErase, Erase, RepositoryGone, Kill
<1> QED
  BY <1>1, <1>2, <1>3, <1>4, <1>5, <1>6 DEF Stepping, Creating, Removing

\* A command that is not pruning does not prune unless it starts to.
LEMMA OthersDoNotPrune ==
    ASSUME JobsInv, NEW c \in Commands, Stepping(c), job[c].op # "prune", ~StartPrune(c)
    PROVE  job'[c].op # "prune"
<1>0. NoJob.op = "none" /\ JobFine(c)
  BY DEF NoJob, JobsInv
<1>1. CASE Stop(c)
  BY <1>0, <1>1 DEF Stop, JobsInv
<1>2. CASE StartCreate(c)
  <2>1. PICK b \in Branches : \E p \in {Standard(b)} \cup Customs :
          job' = [job EXCEPT ![c] = [NoJob EXCEPT !.op = "create", !.branch = b, !.place = p]]
    BY <1>2 DEF StartCreate, Start
  <2> QED
    BY <2>1 DEF NoJob, JobsInv
<1>3. CASE StartRemove(c)
  <2>1. PICK p \in Managed : \E force \in BOOLEAN :
          job' = [job EXCEPT ![c] = [NoJob EXCEPT !.op = "remove", !.branch = trees[p].branch,
                                                  !.place = p, !.force = force]]
    BY <1>3 DEF StartRemove, Start
  <2> QED
    BY <2>1 DEF NoJob, JobsInv
<1>4. CASE StartPick(c)
  <2>1. PICK S \in SUBSET Managed :
          job' = [job EXCEPT ![c] = [NoJob EXCEPT !.op = "pick", !.force = TRUE,
                                                  !.chosen = Targets(S), !.seen = made]]
    BY <1>4 DEF StartPick, Prune, Start
  <2> QED
    BY <2>1 DEF NoJob, JobsInv
<1>5. CASE StartErase(c)
  BY <1>5 DEF StartErase, Start, NoJob, JobsInv
<1>6. CASE LookBranch(c)
  <2>1. job'[c] = [job[c] EXCEPT !.exists = job[c].branch \in DOMAIN tip]
    BY <1>6 DEF LookBranch, JobsInv
  <2> QED
    BY <1>0, <2>1 DEF JobFine, NoJob
<1>7. CASE NextTarget(c) /\ ~Stop(c)
  <2>1. PICK t \in job[c].chosen :
          job' = [job EXCEPT ![c].place = t.place, ![c].branch = t.branch, ![c].chosen = @ \ {t}]
    BY <1>7 DEF NextTarget
  <2>2. job'[c] = [job[c] EXCEPT !.place = t.place, !.branch = t.branch, !.chosen = @ \ {t}]
    BY <2>1 DEF JobsInv
  <2> QED
    BY <1>0, <2>2 DEF JobFine, NoJob
<1>8. CASE UNCHANGED job
  BY <1>8
<1>9. \/ Stop(c) \/ StartCreate(c) \/ StartRemove(c) \/ StartPick(c) \/ StartErase(c)
      \/ LookBranch(c) \/ (NextTarget(c) /\ ~Stop(c)) \/ UNCHANGED job
  BY DEF Stepping, Creating, Removing, Fetch, FetchFails, Add, Added, AddFails, Track, TrackFails,
         Record, ReadEnabled, ReadBare, Mark, Unmark, UnmarkFails, Extend, Configure, Hooks,
         PlaceGone, Check, Refuse, Drop, DropFails, Delete, DeleteFails, AfterDelete, Erase,
         RepositoryGone, Kill, Fail
<1> QED
  BY <1>1, <1>2, <1>3, <1>4, <1>5, <1>6, <1>7, <1>8, <1>9

LEMMA StartPruneIsSafe ==
    ASSUME JobsInv, ConfigInv, OneTreeEach, RefsInv, BranchesInv,
           NEW c \in Commands, StartPrune(c)
    PROVE  TargetsSafe(c)'
<1> DEFINE j == [NoJob EXCEPT !.op = "prune", !.force = TRUE,
                              !.chosen = Targets(CleanMerged), !.seen = made]
<1>1. /\ job' = [job EXCEPT ![c] = j] /\ pc' = [pc EXCEPT ![c] = "next"]
      /\ UNCHANGED <<tip, trees, origin, made>>
  BY DEF StartPrune, Prune, Start, Goto, repository
<1>2. job'[c] = j /\ pc'[c] = "next"
  BY <1>1 DEF JobsInv, ConfigInv
<1>3. j.seen = made /\ j.chosen = Targets(CleanMerged)
  BY DEF NoJob
<1> HIDE DEF j
<1>4. PICK S : S = made
  OBVIOUS
<1>5. ASSUME NEW t \in j.chosen PROVE SafeFor(t.place, t.branch, S)'
  <2>1. PICK p \in CleanMerged : t = [place |-> p, branch |-> trees[p].branch]
    BY <1>3, <1>5 DEF Targets
  <2>2. t.place = p /\ t.branch = trees[p].branch
    BY <2>1
  <2>3. SafeFor(p, trees[p].branch, S)
    BY CleanMergedIsSafe
  <2>4. SafeFor(t.place, t.branch, S)
    BY <2>2, <2>3
  <2> QED
    BY <1>1, <2>4 DEF SafeFor
<1> QED
  BY <1>1, <1>2, <1>3, <1>4, <1>5 DEF TargetsSafe

LEMMA NextTargetIsSafe ==
    ASSUME JobsInv, ConfigInv, TreesInv, RefsInv, [Next]_vars,
           NEW c \in Commands, TargetsSafe(c), NextTarget(c), ~Stop(c)
    PROVE  TargetsSafe(c)'
<1> SUFFICES ASSUME job'[c].op = "prune" PROVE TargetsSafe(c)'
  BY DEF TargetsSafe
<1>1. PICK t \in job[c].chosen :
        job' = [job EXCEPT ![c].place = t.place, ![c].branch = t.branch, ![c].chosen = @ \ {t}]
  BY DEF NextTarget
<1> DEFINE j == [job[c] EXCEPT !.place = t.place, !.branch = t.branch, !.chosen = @ \ {t}]
<1>2. job'[c] = j
  BY <1>1 DEF JobsInv
<1>3. /\ j.op = job[c].op /\ j.seen = job[c].seen /\ j.chosen = job[c].chosen \ {t}
      /\ j.place = t.place /\ j.branch = t.branch
  BY DEF JobsInv, JobFine, NoJob
<1> HIDE DEF j
<1>4. job[c].op = "prune"
  BY <1>2, <1>3
<1>5. PICK S : S = job[c].seen
  OBVIOUS
<1>6. S \subseteq made /\ S \subseteq made'
  BY <1>4, <1>5, MadeGrows DEF TargetsSafe
<1>7. ASSUME NEW u \in job[c].chosen PROVE SafeFor(u.place, u.branch, S)'
  <2>1. PICK p : p = u.place
    OBVIOUS
  <2>2. PICK b : b = u.branch
    OBVIOUS
  <2>3. SafeFor(p, b, S)
    BY <1>4, <1>5, <2>1, <2>2 DEF TargetsSafe
  <2>4. SafeFor(p, b, S)'
    BY <1>6, <2>3, SafeStep
  <2> QED
    BY <2>1, <2>2, <2>4
<1>8. SafeFor(t.place, t.branch, S)'
  BY <1>7
<1>9. /\ job'[c].seen = S /\ job'[c].chosen \subseteq job[c].chosen
      /\ job'[c].place = t.place /\ job'[c].branch = t.branch
  BY <1>2, <1>3, <1>5
<1> QED
  BY <1>6, <1>7, <1>8, <1>9 DEF TargetsSafe

LEMMA TargetsStep ==
    ASSUME ConfigInv, JobsInv, TreesInv, OneTreeEach, RefsInv, BranchesInv, TargetsInv, [Next]_vars
    PROVE  TargetsInv'
<1> SUFFICES ASSUME NEW d \in Commands PROVE TargetsSafe(d)'
  BY DEF TargetsInv
<1>0. TargetsSafe(d)
  BY DEF TargetsInv
<1>1. CASE UNCHANGED <<pc, job>>
  BY <1>0, <1>1, TargetsKept
<1>2. ASSUME NEW c \in Commands, Stepping(c), c # d PROVE TargetsSafe(d)'
  <2>1. pc'[d] = pc[d]
    BY <1>2, StepMovesOne DEF ConfigInv
  <2>2. job'[d] = job[d]
    BY <1>2, StepRemembersOne
  <2> QED
    BY <1>0, <2>1, <2>2, TargetsKept
<1>3. CASE Stepping(d)
  <2>1. CASE StartPrune(d)
    BY <2>1, StartPruneIsSafe
  <2>2. CASE job[d].op # "prune" /\ ~StartPrune(d)
    BY <1>3, <2>2, OthersDoNotPrune DEF TargetsSafe
  <2>3. CASE job[d].op = "prune" /\ ~StartPrune(d)
    <3>1. pc[d] \in {"next", "drop", "delete"}
      BY <2>3 DEF JobsInv, JobFine
    <3>2. CASE Stop(d)
      BY <3>2 DEF Stop, JobsInv, NoJob, TargetsSafe
    <3>3. CASE NextTarget(d) /\ ~Stop(d)
      BY <1>0, <3>3, NextTargetIsSafe
    <3>4. CASE Drop(d) \/ (Delete(d) /\ ~Stop(d))
      <4>1. job' = job /\ ((pc'[d] = "delete" /\ pc[d] = "drop") \/ pc'[d] = "next")
        BY <3>4 DEF Drop, Delete, AfterDelete, Goto, ConfigInv, At
      <4> QED
        BY <1>0, <4>1, TargetsKept
    <3>5. Stop(d) \/ (NextTarget(d) /\ ~Stop(d)) \/ Drop(d) \/ (Delete(d) /\ ~Stop(d))
      BY <1>3, <2>3, <3>1
      DEF Stepping, Creating, Removing, StartCreate, Fetch, FetchFails, LookBranch, Add, AddFails,
          Track, TrackFails, Record, ReadEnabled, ReadBare, Mark, Unmark, UnmarkFails, Extend,
          Hooks, PlaceGone, StartRemove, Check, Refuse, StartPick, Prune, Start, DropFails,
          DeleteFails, StartErase, Erase, RepositoryGone, Kill, Fail, At
    <3> QED
      BY <3>2, <3>3, <3>4, <3>5
  <2> QED
    BY <2>1, <2>2, <2>3
<1>4. ASSUME User PROVE UNCHANGED <<pc, job>>
  BY <1>4 DEF User, Edit, Commit, DeleteDirectory, SwitchTo, AddDetached, Push, Land, Frame
<1> QED
  BY <1>1, <1>2, <1>3, <1>4 DEF Next, Stepping, vars

-----------------------------------------------------------------------------
(***************************************************************************)
(* What a step can lose.                                                   *)
(***************************************************************************)
LEMMA InWork ==
    ASSUME NEW x
    PROVE  x \in Work <=> \/ \E b \in DOMAIN tip : x \in tip[b]
                          \/ \E b \in DOMAIN origin : x \in origin[b]
                          \/ \E b \in DOMAIN tracking : x \in tracking[b]
                          \/ \E p \in DOMAIN trees : x \in trees[p].edits
BY DEF Work, Union

\* Only three steps of a command can lose something.
LEMMA GentleStepKeepsWork ==
    ASSUME TreesInv, RefsInv, NEW c \in Commands, Stepping(c), ~Drop(c), ~Delete(c), ~Erase(c)
    PROVE  Work \subseteq Work'
<1>0. origin' = origin
  BY StepMovesOne
<1>1. CASE UNCHANGED repository
  BY <1>1 DEF repository, Work, Union
<1>2. CASE Fetch(c)
  <2>1. /\ DOMAIN tracking' = DOMAIN tracking \cup DOMAIN origin
        /\ \A b \in DOMAIN origin : tracking'[b] = origin[b]
        /\ UNCHANGED <<tip, trees>>
    BY <1>2 DEF Fetch
  <2>2. \A b \in DOMAIN tracking : b \in DOMAIN origin /\ tracking[b] \subseteq origin[b]
    BY DEF RefsInv
  <2> QED
    BY <1>0, <2>1, <2>2, InWork DEF Work, Union
<1>3. CASE Add(c)
  <2> DEFINE p == job[c].place
             b == job[c].branch
  <2>1. /\ p \notin DOMAIN trees /\ trees' = Put(trees, p, Tree(b))
        /\ tip' = tip \/ (b \notin DOMAIN tip /\ tip' = Put(tip, b, tracking[Main]))
        /\ UNCHANGED tracking
    BY <1>3 DEF Add, Added, Addable
  <2> HIDE DEF p, b
  <2>2. /\ DOMAIN trees \subseteq DOMAIN trees'
        /\ \A q \in DOMAIN trees : trees'[q] = trees[q]
        /\ DOMAIN tip \subseteq DOMAIN tip'
        /\ \A d \in DOMAIN tip : tip'[d] = tip[d]
    BY <2>1 DEF Put
  <2> QED
    BY <1>0, <2>1, <2>2 DEF Work, Union
<1>4. CASE Track(c)
  BY <1>4 DEF Track, Work, Union
<1>5. CASE Record(c) \/ Hooks(c)
  <2>1. PICK p \in DOMAIN trees :
          \E x : trees' = [trees EXCEPT ![p].name = x] \/ trees' = [trees EXCEPT ![p].hooks = x]
    BY <1>5 DEF Record, Hooks, Present
  <2>2. PICK t : OneChanges(p, t) /\ t.edits = trees[p].edits
    BY <2>1, OneWritten
  <2>3. DOMAIN trees' = DOMAIN trees /\ \A q \in DOMAIN trees : trees'[q].edits = trees[q].edits
    BY <2>2 DEF OneChanges
  <2>4. UNCHANGED <<tip, origin, tracking>>
    BY <1>5 DEF Record, Hooks
  <2> QED
    BY <2>3, <2>4 DEF Work, Union
<1> QED
  BY <1>1, <1>2, <1>3, <1>4, <1>5, OtherStepsLeaveRepository DEF Changing

LEMMA DropLosesEdits ==
    ASSUME NEW c \in Commands, Drop(c), NEW x \in Work, x \notin Work'
    PROVE  job[c].place \in DOMAIN trees /\ x \in trees[job[c].place].edits
<1> DEFINE p == job[c].place
<1>1. p \in DOMAIN trees /\ trees' = Without(trees, p) /\ UNCHANGED <<tip, origin, tracking>>
  BY DEF Drop, Droppable
<1> HIDE DEF p
<1>2. DOMAIN trees' = DOMAIN trees \ {p} /\ \A q \in DOMAIN trees' : trees'[q] = trees[q]
  BY <1>1 DEF Without
<1>3. x \in trees[p].edits
  BY <1>1, <1>2 DEF Work, Union
<1> QED
  BY <1>1, <1>3 DEF p

LEMMA DeleteLosesTip ==
    ASSUME NEW c \in Commands, Delete(c), NEW x \in Work, x \notin Work'
    PROVE  /\ job[c].branch \in DOMAIN tip /\ x \in tip[job[c].branch]
           /\ \A d \in DOMAIN tip : d # job[c].branch => x \notin tip[d]
           /\ \A d \in DOMAIN origin : x \notin origin[d]
           /\ \A d \in DOMAIN tracking : x \notin tracking[d]
<1> DEFINE b == job[c].branch
<1>1. tip' = Without(tip, b) /\ UNCHANGED <<trees, origin, tracking>>
  BY DEF Delete
<1> HIDE DEF b
<1>2. DOMAIN tip' = DOMAIN tip \ {b} /\ \A d \in DOMAIN tip' : tip'[d] = tip[d]
  BY <1>1 DEF Without
<1>3. /\ b \in DOMAIN tip /\ x \in tip[b]
      /\ \A d \in DOMAIN tip : d # b => x \notin tip[d]
      /\ \A d \in DOMAIN origin : x \notin origin[d]
      /\ \A d \in DOMAIN tracking : x \notin tracking[d]
  BY <1>1, <1>2 DEF Work, Union
<1> QED
  BY <1>3 DEF b

\* A command that moves is the one that steps.
LEMMA MovesAlone ==
    ASSUME ConfigInv, [Next]_vars, NEW c \in Commands, pc'[c] # pc[c]
    PROVE  Stepping(c)
<1>1. ASSUME NEW d \in Commands, Stepping(d), d # c PROVE FALSE
  BY <1>1, StepMovesOne DEF ConfigInv
<1>2. ASSUME User PROVE FALSE
  BY <1>2 DEF User, Edit, Commit, DeleteDirectory, SwitchTo, AddDetached, Push, Land, Frame
<1>3. ASSUME UNCHANGED vars PROVE FALSE
  BY <1>3 DEF vars
<1> QED
  BY <1>1, <1>2, <1>3 DEF Next, Stepping

-----------------------------------------------------------------------------
\* Together: what a look has found stays true until the command acts, for the changes
\* that were written before it looked.
WorkInv ==
    /\ ConfigInv /\ TreesInv
    /\ RefsInv /\ OneTreeEach
    /\ JobsInv /\ BranchesInv /\ TargetsInv

LEMMA UnforcedKeepsWork ==
    ASSUME WorkInv, [Next]_vars, NEW c \in Commands
    PROVE  KeepsWork(c)
<1> SUFFICES ASSUME pc'[c] # pc[c], job[c].op \in {"create", "remove"}, ~job[c].force,
                    ~ComparesWithItself(c), NEW x \in Work, x \notin Work'
             PROVE  FALSE
  BY DEF KeepsWork
<1> USE DEF WorkInv
<1>1. Stepping(c)
  BY MovesAlone
<1>2. CASE Drop(c)
  <2>1. job[c].place \in DOMAIN trees /\ x \in trees[job[c].place].edits
    BY <1>2, DropLosesEdits
  <2>2. trees[job[c].place].gone \/ trees[job[c].place].edits = {}
    BY <1>2 DEF Drop, Droppable, Clean
  <2> QED
    BY <2>1, <2>2 DEF OneTreeEach
<1>3. CASE Delete(c)
  <2> DEFINE b == job[c].branch
  <2>1. /\ b \in DOMAIN tip /\ x \in tip[b]
        /\ \A d \in DOMAIN tip : d # b => x \notin tip[d]
        /\ \A d \in DOMAIN tracking : x \notin tracking[d]
    BY <1>3, DeleteLosesTip
  <2>2. pc[c] = "delete" /\ FullyMerged(b)
    BY <1>3, <2>1 DEF Delete, At, Deletable
  <2>3. CASE Tracks(b)
    BY <2>1, <2>2, <2>3 DEF FullyMerged, Tracks
  <2>4. CASE ~Tracks(b)
    <3>1. b # Main
      BY <2>2, <2>4 DEF ComparesWithItself
    <3> QED
      BY <2>1, <2>2, <2>4, <3>1 DEF FullyMerged
  <2> QED
    BY <2>3, <2>4
<1>4. CASE Erase(c)
  BY <1>4 DEF Erase, At, JobsInv, JobFine
<1> QED
  BY <1>1, <1>2, <1>3, <1>4, GentleStepKeepsWork

LEMMA PruneKeepsSeenWork ==
    ASSUME WorkInv, [Next]_vars, NEW c \in Commands
    PROVE  LosesOnlyLateWork(c)
<1> SUFFICES ASSUME pc'[c] # pc[c], job[c].op = "prune",
                    NEW x \in Work, x \notin Work', x \in job[c].seen
             PROVE  FALSE
  BY DEF LosesOnlyLateWork
<1> USE DEF WorkInv
<1>1. Stepping(c)
  BY MovesAlone
<1>2. pc[c] \in {"drop", "delete"} => SafeFor(job[c].place, job[c].branch, job[c].seen)
  BY DEF TargetsInv, TargetsSafe
<1>3. CASE Drop(c)
  <2>1. job[c].place \in DOMAIN trees /\ x \in trees[job[c].place].edits
    BY <1>3, DropLosesEdits
  <2> QED
    BY <1>2, <1>3, <2>1 DEF Drop, At, SafeFor
<1>4. CASE Delete(c)
  <2>1. job[c].branch \in DOMAIN tip /\ x \in tip[job[c].branch]
    BY <1>4, DeleteLosesTip
  <2>2. \A d \in DOMAIN origin : x \notin origin[d]
    BY <1>4, DeleteLosesTip
  <2>3. x \in origin[Main]
    BY <1>2, <1>4, <2>1 DEF Delete, At, SafeFor
  <2> QED
    BY <2>2, <2>3 DEF RefsInv
<1>5. CASE Erase(c)
  BY <1>5 DEF Erase, At, JobsInv, JobFine
<1> QED
  BY <1>1, <1>3, <1>4, <1>5, GentleStepKeepsWork

LEMMA ErasesNothingSeen ==
    ASSUME WorkInv, NEW c \in Commands
    PROVE  OrphansOnlyLate(c)
BY DEF WorkInv, JobsInv, JobFine, OrphansOnlyLate

LEMMA WorkInvariant == Spec => []WorkInv
<1>1. ASSUME Init PROVE RefsInv /\ OneTreeEach /\ TreesInv
  BY <1>1 DEF Init, RefsInv, OneTreeEach, TreesInv
<1>2. ASSUME Init PROVE JobsInv /\ TargetsInv
  <2>1. NoJob.op = "none"
    BY DEF NoJob
  <2> QED
    BY <1>2, <2>1 DEF Init, JobsInv, JobFine, TargetsInv, TargetsSafe
<1>3. ASSUME Init PROVE BranchesInv
  BY <1>3, WorktreesAssumption DEF Init, BranchesInv
<1>4. ConfigInv /\ TreesInv /\ RefsInv /\ OneTreeEach /\ JobsInv /\ BranchesInv /\ TargetsInv
        /\ [Next]_vars
      => TreesInv' /\ RefsInv' /\ OneTreeEach' /\ JobsInv' /\ BranchesInv' /\ TargetsInv'
  BY TreesInvStep, RefsStep, OneTreeStep, JobsStep, BranchesStep, TargetsStep
<1> QED
  BY <1>1, <1>2, <1>3, <1>4, ConfigInvariant, PTL DEF Spec, WorkInv

\* `create` and `remove` without --force lose no change, for any number of commands and
\* users beside them and whatever is killed.
THEOREM CommandsLoseNothing == Spec => CommandsKeepWork
<1>1. WorkInv /\ [Next]_vars => [\A c \in Commands : KeepsWork(c)]_vars
  BY UnforcedKeepsWork
<1> QED
  BY <1>1, WorkInvariant, PTL DEF Spec, CommandsKeepWork

\* A prune removes with force what it saw clean and merged: what it loses was written
\* after it had looked.
THEOREM PruneLosesNothingItSaw == Spec => PruneLosesOnlyLateWork
<1>1. WorkInv /\ [Next]_vars => [\A c \in Commands : LosesOnlyLateWork(c)]_vars
  BY PruneKeepsSeenWork
<1> QED
  BY <1>1, WorkInvariant, PTL DEF Spec, PruneLosesOnlyLateWork

\* `repo remove` begins only where there is no checkout: those that it orphans came
\* after it had looked.
THEOREM EraseSawNoCheckout == Spec => EraseOrphansOnlyLate
<1>1. WorkInv => [\A c \in Commands : OrphansOnlyLate(c)]_vars
  BY ErasesNothingSeen
<1> QED
  BY <1>1, WorkInvariant, PTL DEF Spec, EraseOrphansOnlyLate
=============================================================================

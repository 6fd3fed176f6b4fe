----------------------------- MODULE RepoImport -----------------------------
(***************************************************************************)
(* Three ways to register a repository under one name: `repo init`, `repo  *)
(* add` and `repo import`, which turns an ordinary clone and its worktrees *)
(* into a managed repository.  None of them holds a lock, each asks once   *)
(* whether the name is free, and each can fail or be killed half way.      *)
(*                                                                         *)
(* A commit and an edit are both a text; what matters is where texts are.  *)
(***************************************************************************)
EXTENDS Naturals, FiniteSets

CONSTANTS
    Importers,      \* processes of Timber
    CloneTrees,     \* the worktrees of the clone, the main one included
    MainSource,
    Targets,        \* directories of the managed layout
    TargetOf,       \* where the worktree belongs by its name
    Texts,
    MaxImports      \* bound on the commands started

ASSUME ImportAssumption ==
    /\ MainSource \in CloneTrees
    /\ TargetOf \in [CloneTrees -> Targets]
    /\ MaxImports \in Nat
    /\ Importers \cap {"none", "foreign"} = {}

VARIABLES
    source,     \* each worktree of the clone
    target,     \* each directory of the managed layout
    bare,       \* the bare repository of the name
    importing,  \* what each process does
    written,    \* texts written so far
    imports

importVars == <<source, target, bare, importing, written, imports>>
----------------------------------------------------------------------------
\* hands: the processes that have changed the repository.
NoBare == [there |-> FALSE, hands |-> {}, texts |-> {}]

\* The texts in the repository of the clone.
Cloned == UNION {source[w].commits : w \in CloneTrees}

\* intact: its rollback has met no error, and no other import has taken a directory that
\* it made or a worktree that it moves.
NotImporting == [op |-> "none", step |-> "idle", plan |-> {}, made |-> {},
                 seen |-> {}, intact |-> TRUE]

ImportInit ==
    /\ source = [w \in CloneTrees |-> [place |-> "here", commits |-> {}, edits |-> {}]]
    /\ target = [t \in Targets |-> "none"]
    /\ bare = NoBare
    /\ importing = [c \in Importers |-> NotImporting]
    /\ written = {}
    /\ imports = 0

Doing(c, op, step) == importing[c].op = op /\ importing[c].step = step
Turn(c, step) == importing' = [importing EXCEPT ![c].step = step]
Quit(c) == importing' = [importing EXCEPT ![c] = NotImporting]
Begins(c, job) ==
    /\ importing[c].op = "none" /\ imports < MaxImports
    /\ importing' = [importing EXCEPT ![c] = job]
    /\ imports' = imports + 1
    /\ UNCHANGED <<source, target, bare, written>>
\* An error that leaves everything as it is.
GiveUp(c) == Quit(c) /\ UNCHANGED <<source, target, bare, written, imports>>

\* A step of one import takes what belongs to the others in D.
Takes(c, job, D) ==
    importing' = [d \in Importers |->
                    IF d = c THEN job ELSE [importing[d] EXCEPT !.intact = @ /\ d \notin D]]

\* The process changes the repository.
Touch(c, texts) ==
    bare' = [there |-> TRUE, hands |-> bare.hands \cup {c}, texts |-> texts]
----------------------------------------------------------------------------
(***************************************************************************)
(* `repo import`.                                                          *)
(***************************************************************************)
\* collectWorktrees: every worktree that can be moved is clean, even of ignored
\* files; one whose directory is gone is left out.
Movables == {w \in CloneTrees : source[w].place = "here"}

\* validateTargets.
TargetsFree ==
    /\ \A w \in Movables : target[TargetOf[w]] = "none"
    /\ \A v, w \in Movables : TargetOf[v] = TargetOf[w] => v = w

StartImport(c) ==
    /\ source[MainSource].place = "here"
    /\ ~bare.there
    /\ \A w \in Movables : source[w].edits = {}
    /\ TargetsFree
    /\ Begins(c, [NotImporting EXCEPT !.op = "import", !.step = "clone",
                                      !.plan = Movables, !.seen = Cloned])

\* `git clone --bare`, which refuses a directory that is not empty.
CloneSource(c) ==
    /\ Doing(c, "import", "clone") /\ ~bare.there /\ source[MainSource].place = "here"
    /\ Touch(c, Cloned)
    /\ Turn(c, "origin")
    /\ UNCHANGED <<source, target, written, imports>>

CloneSourceFails(c) == Doing(c, "import", "clone") /\ GiveUp(c)

\* setupImportedBareOrigin, which fetches from origin.
SetOrigin(c) ==
    /\ Doing(c, "import", "origin") /\ bare.there
    /\ Touch(c, bare.texts)
    /\ Turn(c, "report")
    /\ UNCHANGED <<source, target, written, imports>>

\* An error here sends the clone to the trash.
SetOriginFails(c) ==
    /\ Doing(c, "import", "origin")
    /\ bare' = NoBare
    /\ Quit(c)
    /\ UNCHANGED <<source, target, written, imports>>

\* The report of the registration, then openBareRepository: an error leaves the clone.
Report(c) ==
    /\ Doing(c, "import", "report") /\ bare.there
    /\ Turn(c, "create")
    /\ UNCHANGED <<source, target, bare, written, imports>>

ReportFails(c) == Doing(c, "import", "report") /\ GiveUp(c)

Left(c) == importing[c].plan \ importing[c].made

\* createWorktree for the next worktree of the plan; what it creates is noted first.
CreateTarget(c) ==
    /\ Doing(c, "import", "create")
    /\ \E w \in Left(c) :
         /\ bare.there /\ target[TargetOf[w]] = "none"
         /\ target' = [target EXCEPT ![TargetOf[w]] = c]
         /\ importing' = [importing EXCEPT ![c].made = @ \cup {w}]
    /\ UNCHANGED <<source, bare, written, imports>>

\* What a failing `git worktree add` leaves in a place.
Leftovers(c, t) == IF target[t] = "none" THEN {"none", c} ELSE {target[t]}

\* A mutant of CreateTargetFails: the worktree is noted after it is there.
CreateTargetFailsUnnoted(c) ==
    /\ Doing(c, "import", "create")
    /\ \E w \in Left(c) :
         /\ \E left \in Leftovers(c, TargetOf[w]) :
              target' = [target EXCEPT ![TargetOf[w]] = left]
         /\ Turn(c, "undo")
    /\ UNCHANGED <<source, bare, written, imports>>

\* `git worktree add` fails, perhaps after it has made the directory.
CreateTargetFails(c) ==
    /\ Doing(c, "import", "create")
    /\ \E w \in Left(c) :
         /\ \E left \in Leftovers(c, TargetOf[w]) :
              target' = [target EXCEPT ![TargetOf[w]] = left]
         /\ importing' = [importing EXCEPT ![c].made = @ \cup {w}, ![c].step = "undo"]
    /\ UNCHANGED <<source, bare, written, imports>>

\* rollbackCreated, one worktree at a time: whatever is in the place goes.
UndoTarget(c) ==
    /\ Doing(c, "import", "undo")
    /\ \E w \in importing[c].made :
         /\ target' = [target EXCEPT ![TargetOf[w]] = "none"]
         /\ Takes(c, [importing[c] EXCEPT !.made = @ \ {w}], {target[TargetOf[w]]})
    /\ UNCHANGED <<source, bare, written, imports>>

\* The trash refuses; the rollback goes on.
UndoTargetFails(c) ==
    /\ Doing(c, "import", "undo")
    /\ \E w \in importing[c].made :
         importing' = [importing EXCEPT ![c].made = @ \ {w}, ![c].intact = FALSE]
    /\ UNCHANGED <<source, target, bare, written, imports>>

\* In the end the clone goes to the trash.
UndoClone(c) ==
    /\ Doing(c, "import", "undo") /\ importing[c].made = {}
    /\ bare' = NoBare
    /\ Quit(c)
    /\ UNCHANGED <<source, target, written, imports>>

UndoCloneFails(c) == Doing(c, "import", "undo") /\ importing[c].made = {} /\ GiveUp(c)

\* A mutant of Recreated: the last worktree is not waited for.
RecreatedAlmost(c) == Doing(c, "import", "create") /\ Cardinality(Left(c)) <= 1

Recreated(c) == Doing(c, "import", "create") /\ Left(c) = {}

\* trashImportedSources: one call of the trash command, which can stop half way.
TrashSources(c) ==
    /\ Recreated(c)
    /\ \E S \in SUBSET importing[c].plan :
         /\ source' = [w \in CloneTrees |-> IF w \in S THEN [source[w] EXCEPT !.place = "trash"]
                                         ELSE source[w]]
         /\ Takes(c, NotImporting, {d \in Importers : importing[d].plan \cap S # {}})
    /\ UNCHANGED <<target, bare, written, imports>>
----------------------------------------------------------------------------
(***************************************************************************)
(* `repo add` and `repo init`.                                             *)
(***************************************************************************)
StartAdd(c) ==
    ~bare.there /\ Begins(c, [NotImporting EXCEPT !.op = "add", !.step = "clone"])

\* cloneBareRepo: a clone whose configuration fails stays.
CloneRemote(c) ==
    /\ Doing(c, "add", "clone")
    /\ IF bare.there THEN UNCHANGED bare ELSE Touch(c, {})
    /\ Quit(c)
    /\ UNCHANGED <<source, target, written, imports>>

StartInit(c) ==
    ~bare.there /\ Begins(c, [NotImporting EXCEPT !.op = "init", !.step = "init"])

\* `git init --bare`, which accepts a repository that is already there.
InitBare(c) ==
    /\ Doing(c, "init", "init")
    /\ Touch(c, bare.texts)
    /\ Turn(c, "prepare")
    /\ UNCHANGED <<source, target, written, imports>>

\* prepareInitialRepository: update-ref of the initial branch, without an old value.
Prepare(c) ==
    /\ Doing(c, "init", "prepare") /\ bare.there
    /\ Touch(c, {})
    /\ Quit(c)
    /\ UNCHANGED <<source, target, written, imports>>

\* removeFailedInit.
PrepareFails(c) ==
    /\ Doing(c, "init", "prepare")
    /\ bare' = NoBare
    /\ Quit(c)
    /\ UNCHANGED <<source, target, written, imports>>

KillImport(c) == importing[c].op # "none" /\ GiveUp(c)
----------------------------------------------------------------------------
(***************************************************************************)
(* The user.                                                               *)
(***************************************************************************)
EditSource(w) ==
    /\ source[w].place = "here"
    /\ \E x \in Texts \ written :
         /\ source' = [source EXCEPT ![w].edits = @ \cup {x}]
         /\ written' = written \cup {x}
    /\ UNCHANGED <<target, bare, importing, imports>>

CommitSource(w) ==
    /\ source[w].place = "here" /\ source[w].edits # {}
    /\ source' = [source EXCEPT ![w].commits = @ \cup source[w].edits, ![w].edits = {}]
    /\ UNCHANGED <<target, bare, importing, written, imports>>

DeleteSource(w) ==
    /\ w # MainSource /\ source[w].place = "here" /\ source[w].edits = {}
    /\ source' = [source EXCEPT ![w].place = "gone"]
    /\ UNCHANGED <<target, bare, importing, written, imports>>

\* Something else takes a directory of the managed layout.
Occupy(t) ==
    /\ target[t] = "none"
    /\ target' = [target EXCEPT ![t] = "foreign"]
    /\ UNCHANGED <<source, bare, importing, written, imports>>

ImportNext ==
    \/ \E c \in Importers :
         \/ StartImport(c) \/ CloneSource(c) \/ CloneSourceFails(c)
         \/ SetOrigin(c) \/ SetOriginFails(c) \/ Report(c) \/ ReportFails(c)
         \/ CreateTarget(c) \/ CreateTargetFails(c) \/ TrashSources(c)
         \/ UndoTarget(c) \/ UndoTargetFails(c) \/ UndoClone(c) \/ UndoCloneFails(c)
         \/ StartAdd(c) \/ CloneRemote(c)
         \/ StartInit(c) \/ InitBare(c) \/ Prepare(c) \/ PrepareFails(c)
         \/ KillImport(c)
    \/ \E w \in CloneTrees : EditSource(w) \/ CommitSource(w) \/ DeleteSource(w)
    \/ \E t \in Targets : Occupy(t)

ImportSpec == ImportInit /\ [][ImportNext]_importVars
----------------------------------------------------------------------------
ImportTypeOK ==
    /\ source \in [CloneTrees -> [place : {"here", "gone", "trash"},
                               commits : SUBSET written, edits : SUBSET written]]
    /\ target \in [Targets -> {"none", "foreign"} \cup Importers]
    /\ bare \in [there : BOOLEAN, hands : SUBSET Importers, texts : SUBSET written]
    /\ written \subseteq Texts

\* The worktrees of the clone go to the trash only when each of them has a successor
\* in the managed layout, and, if nobody else has touched the new repository, it has
\* everything that was committed when the import took its inventory (the order of
\* importPlan.run).  Whoever fails to `repo init` a repository removes it, whoever it
\* belongs to; a second import of the clone can then take what the first one made.
SuccessorsFirst(c) ==
    TrashSources(c) =>
        /\ importing[c].intact => \A w \in importing[c].plan : target[TargetOf[w]] = c
        /\ bare.hands = {c} => importing[c].seen \subseteq bare.texts

TrashedSourcesLiveOn == [][\A c \in Importers : SuccessorsFirst(c)]_importVars

\* A rollback without an error of its own leaves no clone and no directory of the
\* import, and the clone where it was: "A failure in step 2 rolls back the freshly
\* created worktrees and the bare clone, leaving the source repository untouched".
UndoesAll(c) ==
    UndoClone(c) /\ importing[c].intact =>
        /\ ~bare'.there
        /\ \A w \in importing[c].plan : target'[TargetOf[w]] # c
        /\ \A w \in importing[c].plan : source'[w].place # "trash"

RolledBackImportLeavesNothing == [][\A c \in Importers : UndoesAll(c)]_importVars
============================================================================

---------------------------- MODULE MCComponents ----------------------------
(***************************************************************************)
(* The components whose state no other model reads, in one run: the import *)
(* of a repository, the patch cache, the setup choices, the stacks of a    *)
(* branch, the names of worktrees, the tag bump, the assessment by a       *)
(* model, the review of files, and the rules of the review history.  In a  *)
(* behaviour one of them moves and the others stand still, so the states   *)
(* of the run are the sum of theirs and not their product.                 *)
(***************************************************************************)
EXTENDS MCReviewHistory, RepoImport, PatchCache, SetupChoices, CommitStacks, WorktreeNames,
        BumpTag, AutoReview, FileReview, TLC

VARIABLE part   \* the component that moves

\* The worktrees of an imported clone: two of them belong to the same directory.
Belongs == [w \in CloneTrees |-> IF w = MainSource THEN "t1" ELSE "t2"]

\* The ID of a model can look like the name of a provider and an ID.
ModelNames == {<<"m">>, <<"p", "m">>}

\* All parts have the same processes, so that few permutations are tried.
Symmetry == Permutations(Importers) \cup Permutations(Machines)

\* Every initial state of the part that moves, and one of each other part.
ComponentsInit ==
    /\ part \in {"history", "import", "cache", "setup", "stacks", "names", "bump", "auto", "files"}
    /\ Init /\ ImportInit /\ CacheInit /\ SetupInit /\ StacksInit /\ NamesInit
    /\ BumpInit /\ AutoInit /\ FilesInit
    /\ part # "bump" => \A m \in Machines : clone[m].tracks
    /\ part # "auto" => catalog = Empty
    /\ part # "files" => tip = 0

ComponentsNext ==
    \/ /\ part = "history" /\ Next
       /\ UNCHANGED <<part, importVars, cacheVars, setupVars, branch, nameVars, bumpVars, autoVars, fileVars>>
    \/ /\ part = "import" /\ ImportNext
       /\ UNCHANGED <<part, history, cacheVars, setupVars, branch, nameVars, bumpVars, autoVars, fileVars>>
    \/ /\ part = "cache" /\ CacheNext
       /\ UNCHANGED <<part, history, importVars, setupVars, branch, nameVars, bumpVars, autoVars, fileVars>>
    \/ /\ part = "setup" /\ SetupNext
       /\ UNCHANGED <<part, history, importVars, cacheVars, branch, nameVars, bumpVars, autoVars, fileVars>>
    \/ /\ part = "stacks" /\ StacksNext
       /\ UNCHANGED <<part, history, importVars, cacheVars, setupVars, nameVars, bumpVars, autoVars, fileVars>>
    \/ /\ part = "names" /\ NamesNext
       /\ UNCHANGED <<part, history, importVars, cacheVars, setupVars, branch, bumpVars, autoVars, fileVars>>
    \/ /\ part = "bump" /\ BumpNext
       /\ UNCHANGED <<part, history, importVars, cacheVars, setupVars, branch, nameVars, autoVars, fileVars>>
    \/ /\ part = "auto" /\ AutoNext
       /\ UNCHANGED <<part, history, importVars, cacheVars, setupVars, branch, nameVars, bumpVars, fileVars>>
    \/ /\ part = "files" /\ FilesNext
       /\ UNCHANGED <<part, history, importVars, cacheVars, setupVars, branch, nameVars, bumpVars, autoVars>>

vars == <<part, history, importVars, cacheVars, setupVars, branch, nameVars, bumpVars, autoVars, fileVars>>

ComponentsSpec == ComponentsInit /\ [][ComponentsNext]_vars
----------------------------------------------------------------------------
\* The variables of every part have their types, and the stacks cover the branch.
ComponentsTypeOK ==
    /\ ImportTypeOK /\ CacheTypeOK /\ SetupTypeOK /\ StacksTypeOK /\ NamesTypeOK
    /\ BumpTypeOK /\ AutoTypeOK /\ FilesTypeOK
=============================================================================

--------------------------- MODULE WorktreeNames ---------------------------
(***************************************************************************)
(* The names of the worktrees of a repository.  A worktree of the standard *)
(* layout, or one created with a path, has a name of its own.  One that a  *)
(* user has made with Git is named after its directory, by as many path    *)
(* elements as it takes to tell it from all the others.                    *)
(*                                                                         *)
(* Paths and names are sequences of elements.                              *)
(***************************************************************************)
EXTENDS Naturals, FiniteSets, Sequences

CONSTANTS
    Elements,       \* what paths and names are made of
    MaxDepth,       \* bound on the length of paths and names
    MaxTrees        \* bound on the worktrees of a repository

ASSUME NamesAssumption == "/" \notin Elements /\ MaxDepth \in Nat /\ MaxTrees \in Nat

VARIABLES
    paths,      \* the worktrees: the name of its own for each path, or <<>>
    names,      \* the names given in a listing so far
    parents,    \* what is left of the path above each name
    listing,    \* whether a listing is under way
    rounds

nameVars == <<paths, names, parents, listing, rounds>>
----------------------------------------------------------------------------
Sequences1 == UNION {[1..n -> Elements] : n \in 1..MaxDepth}

Base(path) == path[Len(path)]
Dir(path) == SubSeq(path, 1, Len(path) - 1)
Manual(p) == paths[p] = <<>>

NamesInit ==
    /\ paths = [p \in {} |-> <<>>]
    /\ names = paths /\ parents = paths
    /\ listing = FALSE
    /\ rounds = 0

\* A worktree appears.  Names of their own differ: they are branches, or rejected by
\* `create` as duplicates.
AddPath ==
    /\ ~listing /\ Cardinality(DOMAIN paths) < MaxTrees
    /\ \E p \in Sequences1 \ DOMAIN paths, name \in Sequences1 \cup {<<>>} :
         /\ \A q \in DOMAIN paths : name # <<>> => paths[q] # name
         /\ paths' = [q \in DOMAIN paths \cup {p} |-> IF q = p THEN name ELSE paths[q]]
    /\ UNCHANGED <<names, parents, listing, rounds>>

\* managedWorktreesFromRepository: every listing starts afresh.
StartListing ==
    /\ ~listing /\ DOMAIN paths # {}
    /\ listing' = TRUE /\ rounds' = 0
    /\ names' = [p \in DOMAIN paths |-> IF Manual(p) THEN <<Base(p)>> ELSE paths[p]]
    /\ parents' = [p \in DOMAIN paths |-> Dir(p)]
    /\ UNCHANGED paths

\* A mutant of Conflicting: names of their own are not reserved.
ConflictingManual == {p \in DOMAIN paths : \E q \in DOMAIN paths \ {p} :
                        Manual(p) /\ Manual(q) /\ names[p] = names[q]}

Conflicting == {p \in DOMAIN paths : Manual(p) /\ \E q \in DOMAIN paths \ {p} : names[p] = names[q]}

\* One element more; the root is an element of its own, as often as it takes.
Element(p) == IF parents[p] = <<>> THEN "/" ELSE Base(parents[p])

\* assignManualWorktreeNames: all that conflict grow together.
Grow ==
    /\ listing /\ Conflicting # {}
    /\ names' = [p \in DOMAIN paths |->
                   IF p \in Conflicting THEN <<Element(p)>> \o names[p] ELSE names[p]]
    /\ parents' = [p \in DOMAIN paths |->
                   IF p \in Conflicting /\ parents[p] # <<>> THEN Dir(parents[p]) ELSE parents[p]]
    /\ rounds' = rounds + 1
    /\ UNCHANGED <<paths, listing>>

EndListing ==
    /\ listing /\ Conflicting = {}
    /\ listing' = FALSE /\ rounds' = 0
    /\ names' = [p \in {} |-> <<>>] /\ parents' = [p \in {} |-> <<>>]
    /\ UNCHANGED paths

NamesNext == AddPath \/ StartListing \/ Grow \/ EndListing

NamesSpec == NamesInit /\ [][NamesNext]_nameVars
----------------------------------------------------------------------------
NamesTypeOK ==
    /\ DOMAIN paths \subseteq Sequences1
    /\ \A p \in DOMAIN paths : paths[p] \in Sequences1 \cup {<<>>}
    /\ DOMAIN names \subseteq DOMAIN paths /\ listing \in BOOLEAN

\* A listing ends, after no more rounds than a path has elements, and gives each
\* worktree a name that no other has: "Distinct absolute paths eventually yield
\* distinct names, even when one checkout's path is a suffix of another's".
ListingsEndWithDistinctNames ==
    /\ rounds <= MaxDepth
    /\ listing /\ Conflicting = {}
         => \A p, q \in DOMAIN paths : p # q => names[p] # names[q]
============================================================================

---------------------------- MODULE MCRepoMoves ----------------------------
(***************************************************************************)
(* Instances of RepoMoves for TLC.                                         *)
(***************************************************************************)
EXTENDS RepoMoves

\* One repository with two managed worktrees, one outside the layout, and one
\* more that another process can create.
MCRenameRepoOf == [t \in {"main", "fix", "loose", "late"} |-> "r"]
MCRenameBranchOf == [main |-> "main", fix |-> "b", loose |-> "none", late |-> "late"]
MCRenameNames == {<<"a">>, <<"a", "b">>}
MCRenameStart ==
    [r |-> <<"a", ".git">>, main |-> <<"a", "main", "a">>, fix |-> <<"a", "b", "a">>,
     loose |-> <<"elsewhere">>, late |-> <<>>]
MCRenameStarts == {MCRenameStart}
MCReviewedStarts == {[MCRenameStart EXCEPT !.loose = <<"a", ".git", "timber-review", "worktree">>]}

\* Two legacy repositories; the first has a managed worktree and the review
\* checkout, the second may have a worktree.
MCFixRepoOf == [tree |-> "r", internal |-> "r", other |-> "s"]
MCFixBranchOf == [tree |-> "main", internal |-> "none", other |-> "main"]
MCFixNames == {<<"a">>, <<"b">>, <<"c">>}
MCFixStart ==
    [r |-> <<"timber/repos", "a", ".git">>, s |-> <<"timber/repos", "b", ".git">>,
     tree |-> <<"a", "main", "a">>,
     internal |-> <<"timber/repos", "a", ".git", "timber-review", "worktree">>,
     other |-> <<"b", "main", "b">>]
MCFixStarts == {MCFixStart, [MCFixStart EXCEPT !.internal = <<>>, !.other = <<>>]}

\* The instances have the layout that the theorems of RepoMovesProofs ask for.
ASSUME SeparateInstance == SeparateLayout
ASSUME UnreviewedInstance == Starts = MCRenameStarts => Unreviewed
============================================================================

---------------------------- MODULE MCWorktrees ----------------------------
(***************************************************************************)
(* Instances of Worktrees for TLC: the default branch and one more, the    *)
(* managed layout and one place outside it.                                *)
(***************************************************************************)
EXTENDS Worktrees, TLC

MCCustoms == {<<"home", "x">>}
\* The processes of Timber do not differ.
MCSymmetry == Permutations(Commands)
============================================================================

-------------------------- MODULE MCReviewProtocol --------------------------
(***************************************************************************)
(* Instances of ReviewProtocol for TLC: a branch of two stacks, the fixup  *)
(* that extends the second one, and the rebase of both, in which the first *)
(* stack keeps its patch and message but loses its lineage.                *)
(***************************************************************************)
EXTENDS ReviewProtocol

\* The first stack has no Change-Id; a rebase leaves nothing that names it.
MCFirst     == [base |-> "b0", commits |-> <<"c1">>, change |-> "", patch |-> "p1", message |-> "m1"]
MCSecond    == [base |-> "c1", commits |-> <<"c2">>, change |-> "I2", patch |-> "p2", message |-> "m2"]
MCFixedUp   == [MCSecond EXCEPT !.commits = <<"c2", "c3">>, !.patch = "p3"]
MCRebased1  == [MCFirst EXCEPT !.base = "b1", !.commits = <<"d1">>]
MCRebased2  == [MCSecond EXCEPT !.base = "d1", !.commits = <<"d2">>]
MCReworded2 == [MCSecond EXCEPT !.commits = <<"e2">>, !.message = "m3"]

MCStacks == {MCFirst, MCSecond, MCFixedUp, MCRebased1, MCRebased2, MCReworded2}

MCBranch  == <<MCFirst, MCSecond>>
MCFixup   == <<MCFirst, MCFixedUp>>
MCRebase  == <<MCRebased1, MCRebased2>>
MCReword  == <<MCFirst, MCReworded2>>

MCViews    == {MCBranch, MCFixup, MCRebase}
MCAllViews == MCViews \cup {MCReword}

MCAutomatic == [stack |-> "", first |-> "", last |-> ""]
MCSelected  == [MCAutomatic EXCEPT !.stack = "c2"]
MCBounded   == [MCAutomatic EXCEPT !.first = "c2"]

MCOptions        == {MCAutomatic}
MCChoices        == {MCAutomatic, MCSelected}
MCBoundedOptions == {MCAutomatic, MCBounded}
============================================================================

-------------------------- MODULE MCReviewHistory --------------------------
(***************************************************************************)
(* The rules of ReviewHistory over every history of at most MaxAttempts    *)
(* attempts on the versions of one stack, those of older builds included.  *)
(* A state is a history; a step appends an attempt.                        *)
(***************************************************************************)
EXTENDS ReviewHistory

CONSTANTS MaxAttempts   \* bound on the length of a history

VARIABLE history

\* One stack without a Change-Id, and what rewrites make of it: a rebase (same
\* patch and message), a reword (same patch), a fixup (new patch, same lineage).
Current  == [base |-> "b0", commits |-> <<"c1">>, change |-> "", patch |-> "p1", message |-> "m1"]
Rebased  == [Current EXCEPT !.base = "b1", !.commits = <<"d1">>]
Reworded == [Current EXCEPT !.commits = <<"e1">>, !.message = "m2"]
FixedUp  == [Current EXCEPT !.commits = <<"c1", "c2">>, !.patch = "p2", !.message = "m1"]

Versions == {Current, Rebased, Reworded, FixedUp}

\* Attempts that differ for the rules.
Attempts ==
    {a \in Attempt(Versions) :
        /\ a.source # "user-command" \/ a.status = "approved"
        /\ a.source # "model" => a.policy
        /\ ~a.deferred
        /\ a.status # "addressed" => a.replacement = NoStack
        /\ a.replacement \in {NoStack, Rebased}}

Init == history = <<>>

Next == /\ Len(history) < MaxAttempts
        /\ \E a \in Attempts : history' = Append(history, a)

Spec == Init /\ [][Next]_history
----------------------------------------------------------------------------
\* The body of the loop of State.latest at the i-th attempt, with what it had found.
Read(h, s, i, found) ==
    CASE Resets(h[i], s)             -> None
      [] h[i].status = "addressed"
         /\ ~Resets(h[i], s)         -> found
      [] h[i].status # "addressed"
         /\ Matches(h[i], s)         -> i
      [] OTHER                       -> IF SamePatch(h[i].stack, s) THEN None ELSE found

\* The loop of State.latest, one attempt after the other.
LoopLatest(h, s) ==
    LET found[i \in 0 .. Len(h)] == IF i = 0 THEN None ELSE Read(h, s, i, found[i - 1])
    IN  found[Len(h)]

\* Latest picks the attempt that the loop over the array ends with (state.go).
LatestIsLoop == \A s \in Versions : Latest(history, s) = LoopLatest(history, s)

\* No version of the stack shows an approval over a newer unfinished review of the
\* same patch (the loop of State.latest).
UnfinishedHidesApproval == \A s \in Versions : ApprovalIsNewest(history, s)

\* A reset of everything leaves nothing of the stack, whichever version is current.
ResetLeavesNothing == \A s \in Versions : ResetEmpties(history, <<s>>)
============================================================================

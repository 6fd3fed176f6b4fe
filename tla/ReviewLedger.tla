---------------------------- MODULE ReviewLedger ----------------------------
(***************************************************************************)
(* What the review history promises to the person and the agent that read  *)
(* it: every change of the state file is one whole edit of the history     *)
(* that was there just before.  No command writes back a history that      *)
(* another command has changed meanwhile, an approval goes only with a     *)
(* reset, and only an open attempt gets an outcome.                        *)
(*                                                                         *)
(* ReviewProtocol, with its locks, snapshots, crashes and processes, is    *)
(* shown to implement this module.                                         *)
(***************************************************************************)
EXTENDS ReviewHistory

CONSTANTS Stacks, Views

VARIABLE history

\* A new review closes the attempt that it replaces, if that one is open.
Opens(h, new) ==
    \E i \in DOMAIN new \ DOMAIN h, prior \in DOMAIN h \cup {None}, s \in Stacks :
        new = Begun(h, prior, i, s)

\* An attempt that is approved is never opened again.
Reopens(h, new) ==
    \E i \in DOMAIN h : /\ h[i].status # "approved"
                        /\ new = WithStatus(h, i, "reviewing")

\* Only an open attempt gets an outcome.
Closes(h, new) ==
    \E i \in DOMAIN h, outcome \in Outcomes :
        h[i].status = "reviewing" /\ new = Finished(h, i, outcome)

\* A command of the user approves stacks that wait for nothing.
Approves(h, new) ==
    \E i \in DOMAIN new \ DOMAIN h, v \in Views : \E selected \in Ranges(v) :
        ApprovalAllowed(selected, v, h) /\ new = Approved(h, i, selected)

\* The model approves under the same condition; it may abstain at any time.
Assesses(h, new) ==
    \E i \in DOMAIN new \ DOMAIN h, v \in Views : \E s \in Range(v) :
        \/ new = Add(h, i, NewAttempt(s, "auto_reviewed", "model"))
        \/ /\ ApprovalAllowed(<<s>>, v, h)
           /\ new = Add(h, i, NewAttempt(s, "approved", "model"))

Discards(h, new) == \E v \in Views : new = Discarded(h, v)

Resetting(h, new) == \E v \in Views : \E selected \in Ranges(v) : new = Cleared(h, selected)

Edit(h, new) ==
    \/ Opens(h, new)
    \/ Reopens(h, new)
    \/ Closes(h, new)
    \/ Approves(h, new)
    \/ Assesses(h, new)
    \/ Discards(h, new)
    \/ Resetting(h, new)

Init == history = <<>>

Next == Edit(history, history')

Spec == Init /\ [][Next]_history
=============================================================================

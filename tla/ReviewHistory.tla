--------------------------- MODULE ReviewHistory ---------------------------
(***************************************************************************)
(* The rules by which Timber reads its review history: which attempt       *)
(* describes a stack, which attempt a review reopens, which attempts are   *)
(* still open, and how each command edits the list of attempts             *)
(* (internal/timber/review: state.go, run.go, service.go).                 *)
(*                                                                         *)
(* A stack is a record of the values that the rules compare:               *)
(*   base     the commit that the stack starts from,                       *)
(*   commits  its commits, oldest first (the key and the tip are functions *)
(*            of them),                                                    *)
(*   change   the Change-Id trailer, "" without one,                       *)
(*   patch    the fingerprint of the diff, "" for an empty diff,           *)
(*   message  the fingerprint of the reviewed message, "" in old records.  *)
(* All the stacks belong to one repository.                                *)
(*                                                                         *)
(* A view (Snapshot in the code) is the sequence of the current stacks,    *)
(* oldest first.  A history is the "attempts" array of the state file as a *)
(* partial function from positions to attempts: a position stands for the  *)
(* place in the array and for the unique ID of the attempt, and a deletion *)
(* removes it from the domain, so that no operator here is recursive.      *)
(***************************************************************************)
EXTENDS Naturals, Sequences, FiniteSets, FiniteSetsExt, SequencesExt

None == 0                   \* the nil attempt
NoStack == [base |-> "", commits |-> <<>>, change |-> "", patch |-> "", message |-> ""]

Statuses == {"reviewing", "approved", "feedback", "incomplete", "addressed", "auto_reviewed"}
Sources == {"", "user-command", "model"}
Outcomes == {"untouched", "incomplete", "approved", "feedback"}   \* of a tuicr session
Verdicts == {"approve", "abstain"}                                \* of the model

(***************************************************************************)
(* Comparing stacks.                                                       *)
(***************************************************************************)
Key(s) == <<s.commits[1], Last(s.commits)>>

SameStack(a, b) == a.base = b.base /\ a.commits = b.commits

SamePatch(a, b) == a.patch # "" /\ a.patch = b.patch

SameMessage(a, b) == a.message # "" /\ a.message = b.message

SharesLineage(a, b) ==
    \/ a.commits[1] = b.commits[1]
    \/ a.change # "" /\ a.change = b.change

ExtendsStack(old, new) ==
    /\ Len(new.commits) > Len(old.commits)
    /\ SubSeq(new.commits, 1, Len(old.commits)) = old.commits

(***************************************************************************)
(* Attempts.  The field policy is TRUE when the attempt carries the policy *)
(* version that this build asks the model under.  A state file with an     *)
(* attempt outside this set can be neither written nor read (validate).    *)
(* No command writes "addressed", deferred or replacement any more.        *)
(***************************************************************************)
Attempt(Stack) ==
    {a \in [stack : Stack, status : Statuses, source : Sources, policy : BOOLEAN,
            deferred : BOOLEAN, replacement : Stack \cup {NoStack}] :
        IF a.source = "model" THEN a.status \in {"approved", "auto_reviewed"}
                              ELSE a.status # "auto_reviewed"}

NewAttempt(s, status, source) ==
    [stack |-> s, status |-> status, source |-> source, policy |-> TRUE,
     deferred |-> FALSE, replacement |-> NoStack]

\* Mutant: a result never follows its patch to rewritten commits.
MatchesExactly(a, s) == SameStack(a.stack, s) /\ SameMessage(a.stack, s)

Matches(a, s) ==
    /\ a.source = "model" => a.policy
    /\ IF a.source = "model" /\ a.status = "approved"
         THEN SameStack(a.stack, s) /\ SameMessage(a.stack, s)
         ELSE \/ SameStack(a.stack, s)
              \/ /\ a.status \in {"approved", "feedback", "auto_reviewed"}
                 /\ SamePatch(a.stack, s)
                 /\ SameMessage(a.stack, s)

Resets(a, s) ==
    /\ a.status = "addressed"
    /\ a.replacement # NoStack
    /\ \/ SameStack(a.replacement, s)
       \/ SamePatch(a.replacement, s) /\ SameMessage(a.replacement, s)

Unfinished(a) == a.status \in {"reviewing", "incomplete"}

Superseded(a, v) == \E i \in DOMAIN v : ExtendsStack(a.stack, v[i])

Lost(a, v) ==
    \A i \in DOMAIN v : ~SameStack(a.stack, v[i]) /\ ~SharesLineage(a.stack, v[i])

\* Mutant: the cleanup forgets to ask whether the attempt is finished.
UnusableFinished(a, v) == Superseded(a, v) \/ Lost(a, v)

Unusable(a, v) == Unfinished(a) /\ (Superseded(a, v) \/ Lost(a, v))

(***************************************************************************)
(* Reading a history.  The loop of latest runs over the whole array; the   *)
(* last attempt that it does not skip decides.                             *)
(***************************************************************************)
Newest(S) == IF S = {} THEN None ELSE Max(S)

\* Mutant: an attempt that does not match leaves an older result in place.
DecidesByMatch(a, s) == a.status # "addressed" /\ Matches(a, s)

Decides(a, s) ==
    \/ Resets(a, s)
    \/ a.status # "addressed" /\ (Matches(a, s) \/ SamePatch(a.stack, s))

Latest(h, s) ==
    LET last == Newest({i \in DOMAIN h : Decides(h[i], s)})
    IN  IF last = None \/ Resets(h[last], s) \/ ~Matches(h[last], s) THEN None ELSE last

Previous(h, s) ==
    Newest({i \in DOMAIN h : ~Matches(h[i], s) /\ SharesLineage(h[i].stack, s)})

\* The status that a report shows for a stack.
StatusOf(h, s) == IF Latest(h, s) = None THEN "needs_review" ELSE h[Latest(h, s)].status

ActiveAttempts(v, h) == {i \in DOMAIN h : h[i].status = "reviewing" /\ ~Unusable(h[i], v)}

\* checkActive: no active attempt other than the one the caller replaces.
OnlyActive(v, h, prior) == ActiveAttempts(v, h) \subseteq {prior}

\* Mutant: pending feedback does not stop an approval.
ApprovalIgnoresFeedback(selected, v, h) == ActiveAttempts(v, h) = {}

ApprovalAllowed(selected, v, h) ==
    /\ ActiveAttempts(v, h) = {}
    /\ \A i \in DOMAIN selected : StatusOf(h, selected[i]) # "feedback"

\* The contiguous parts of a view that a range of commits selects.
Ranges(v) == {SubSeq(v, i, j) : i \in DOMAIN v, j \in DOMAIN v} \ {<<>>}

(***************************************************************************)
(* Planning a review.                                                      *)
(***************************************************************************)
Oldest(v, S) == IF S = {} THEN NoStack ELSE v[Min(S)]

\* Mutant: the stacks of this invocation are forgotten.
NextStackAgain(v, h, visited) ==
    Oldest(v, {i \in DOMAIN v :
        Latest(h, v[i]) # None => h[Latest(h, v[i])].status # "approved"})

NextStack(v, h, visited) ==
    Oldest(v, {i \in DOMAIN v :
        LET a == Latest(h, v[i])
        IN  /\ Key(v[i]) \notin visited
            /\ a # None => h[a].status # "approved" /\ ~h[a].deferred})

SelectStack(v, commit) == Oldest(v, {i \in DOMAIN v : commit \in Range(v[i].commits)})

\* The index of the stack that holds an endpoint, or the default without one.
Endpoint(v, commit, default) ==
    IF commit = "" THEN default
                   ELSE Newest({i \in DOMAIN v : commit \in Range(v[i].commits)})

\* bounds refuses an endpoint outside the view and endpoints out of order.
BoundsValid(v, o) ==
    LET start == Endpoint(v, o.first, 1)
        end   == Endpoint(v, o.last, Len(v))
    IN  /\ o.first # "" => start # None
        /\ o.last # "" => end # None
        /\ v # <<>> => start <= end

Bounded(v, o) == SubSeq(v, Endpoint(v, o.first, 1), Endpoint(v, o.last, Len(v)))

ReplacementStack(v, s) ==
    LET same == {i \in DOMAIN v : SameStack(v[i], s)}
        kin  == {i \in DOMAIN v : SharesLineage(v[i], s)}
    IN  IF same # {} THEN Oldest(v, same) ELSE Oldest(v, kin)

Recoverable(a, v) == a.status # "approved" /\ a.source # "model" /\ ~Unusable(a, v)

RecoverablePrior(h, v, s) ==
    LET latest == Latest(h, s)
        previous == Previous(h, s)
    IN  IF latest # None
          THEN IF Recoverable(h[latest], v) THEN latest ELSE None
          ELSE IF previous # None /\ h[previous].status = "incomplete"
                                 /\ Recoverable(h[previous], v)
          THEN previous ELSE None

\* The stack that a review with options o takes up: the one that the user names,
\* else the one whose review is open, else the next one of the selected range.
Planned(v, h, o, visited) ==
    LET active == ActiveAttempts(v, h)
        next   == IF active # {} THEN h[Newest(active)].stack
                                 ELSE NextStack(Bounded(v, o), h, visited)
    IN  IF ~BoundsValid(v, o) \/ Cardinality(active) > 1 THEN NoStack
        ELSE IF o.stack # "" THEN SelectStack(v, o.stack) ELSE next

\* The attempt that the review of stack s reopens or replaces.
PlannedPrior(v, h, s) ==
    LET active == ActiveAttempts(v, h)
    IN  IF active # {} THEN Newest(active) ELSE RecoverablePrior(h, v, s)

\* The attempt whose saved session a review moves onto the rewritten stack s
\* before it plans (carry.go).
CarryablePrior(h, s) ==
    Newest({i \in DOMAIN h : /\ h[i].source # "model"
                             /\ ~SameStack(h[i].stack, s)
                             /\ SamePatch(h[i].stack, s)})

(***************************************************************************)
(* Editing a history: what each command writes back.                       *)
(***************************************************************************)
Add(h, i, a) == [j \in DOMAIN h \cup {i} |-> IF j = i THEN a ELSE h[j]]

Discarded(h, v) == Restrict(h, {i \in DOMAIN h : ~Unusable(h[i], v)})

\* Mutant: a reset forgets the earlier versions of a stack.
ResetsCurrent(a, selected) ==
    \E i \in DOMAIN selected : SameStack(a.stack, selected[i]) \/ Matches(a, selected[i])

ResetsAttempt(a, selected) ==
    \E i \in DOMAIN selected :
        \/ SameStack(a.stack, selected[i])
        \/ Matches(a, selected[i])
        \/ SharesLineage(a.stack, selected[i])

Cleared(h, selected) == Restrict(h, {i \in DOMAIN h : ~ResetsAttempt(h[i], selected)})

\* Mutant: a new review leaves the attempt that it replaces open.
BegunBeside(h, prior, i, s) == Add(h, i, NewAttempt(s, "reviewing", ""))

\* Begin marks the replaced attempt, if it is still open, and appends the new one.
Begun(h, prior, i, s) ==
    LET replaced == [j \in DOMAIN h |->
                       IF j = prior /\ h[j].status = "reviewing"
                         THEN [h[j] EXCEPT !.status = "incomplete"] ELSE h[j]]
    IN  Add(replaced, i, NewAttempt(s, "reviewing", ""))

WithStatus(h, i, status) == [h EXCEPT ![i].status = status]

\* A review that left no mark leaves no attempt.
Finished(h, i, outcome) ==
    IF outcome = "untouched"
      THEN Restrict(h, DOMAIN h \ {i})
      ELSE WithStatus(h, i, outcome)

Failed(h, i) == IF h[i].status = "reviewing" THEN WithStatus(h, i, "incomplete") ELSE h

\* Approvals of consecutive stacks take the positions from i on.
Approved(h, i, selected) ==
    [j \in DOMAIN h \cup (i .. (i + Len(selected) - 1)) |->
        IF j \in DOMAIN h THEN h[j]
                          ELSE NewAttempt(selected[j - i + 1], "approved", "user-command")]
(***************************************************************************)
(* What the rules promise of one history.                                  *)
(***************************************************************************)
\* "A newer unfinished attempt must not expose an older approval" (state.go): a
\* stack shows as approved only if no review of its patch was opened after that.
ApprovalIsNewest(h, s) ==
    StatusOf(h, s) = "approved" =>
        \A i \in DOMAIN h : i > Latest(h, s) /\ Unfinished(h[i]) => ~SamePatch(h[i].stack, s)

\* After a reset of a whole view nothing in the history describes its stacks: no
\* result, no earlier version, no open review, nothing to recover (service.go).
ResetEmpties(h, v) ==
    LET left == Cleared(h, v)
    IN  /\ ActiveAttempts(v, left) = {}
        /\ \A i \in DOMAIN v : /\ Latest(left, v[i]) = None
                               /\ Previous(left, v[i]) = None
                               /\ PlannedPrior(v, left, v[i]) = None
============================================================================

---------------------------- MODULE CommitStacks ----------------------------
(***************************************************************************)
(* How a feature branch falls into stacks: a commit and the feedback       *)
(* commits (fixup!, amend!) that follow it.  A review is bound to a stack, *)
(* and its message to the message that the stack shows; Git's autosquash   *)
(* later folds the feedback into the commit, which must not look like a    *)
(* new message.                                                            *)
(*                                                                         *)
(* A subject is the sequence of its markers and its title.                 *)
(***************************************************************************)
EXTENDS Integers, Sequences, SequencesExt

CONSTANTS
    Titles,
    ChangeIds,
    MaxCommits      \* bound on the commits of the branch

ASSUME StacksAssumption == MaxCommits \in Nat

VARIABLE branch    \* the commits of the branch, the oldest first
----------------------------------------------------------------------------
\* feedbackKind, and the subject that the marker names.
IsFeedback(commit) == Len(commit.subject) > 1
KindOf(commit) == Head(commit.subject)
TargetSubject(commit) == Tail(commit.subject)

\* The Change-Ids of the commits that open a stack.
Ids(view, commit, captured) == IF captured THEN view.ids ELSE view.ids \cup {commit.id}

\* A stack: the positions of its first and its last commit, and its Change-Id.
\* stacks: the stacks so far; targets: the subject and the stack of each commit; ids.
NoStacks == [stacks |-> <<>>, targets |-> <<>>, ids |-> {}, valid |-> TRUE]

\* tryAppendFeedback: exactly one earlier commit has the subject, in the last stack.
Captures(view, commit) ==
    LET matches == {i \in DOMAIN view.targets : view.targets[i].subject = TargetSubject(commit)}
    IN  \E i \in matches : matches = {i} /\ view.targets[i].stack = Len(view.stacks)

\* A mutant of Extended: it extends a copy of the last stack.
ExtendedCopy(view) == view.stacks

Extended(view) == [view.stacks EXCEPT ![Len(view.stacks)].last = @ + 1]

\* A new stack; no Change-Id occurs twice.
Opened(view, commit) ==
    Append(view.stacks, [first |-> Len(view.targets) + 1, last |-> Len(view.targets) + 1,
                         id |-> commit.id])

Take(view, commit) ==
    LET captured == IsFeedback(commit) /\ Captures(view, commit)
        all == IF captured THEN Extended(view) ELSE Opened(view, commit)
    IN  [stacks |-> all,
         targets |-> Append(view.targets, [subject |-> commit.subject, stack |-> Len(all)]),
         ids |-> Ids(view, commit, captured),
         valid |-> view.valid /\ (captured \/ commit.id = "" \/ commit.id \notin view.ids)]

\* The stacks of a branch.
View(commits) ==
    LET view[i \in 0 .. Len(commits)] ==
            IF i = 0 THEN NoStacks ELSE Take(view[i - 1], commits[i])
    IN  view[Len(commits)]

StacksOf(commits) == View(commits).stacks

\* effectiveMessage: the newest commit of the stack that carries a message.  A plain
\* commit carries its own, an amend! the one below its marker.
CarriesMessage(commit) == ~IsFeedback(commit) \/ KindOf(commit) # "fixup!"

\* A mutant of EffectiveMessage: the oldest one.
FirstMessage(commits, stack) == commits[stack.first].message

EffectiveMessage(commits, stack) ==
    LET carriers == {i \in stack.first .. stack.last : CarriesMessage(commits[i])}
    IN  commits[IF carriers = {} THEN stack.first ELSE Max(carriers)].message

\* fingerprintMessages.
Messages(commits) ==
    [i \in DOMAIN StacksOf(commits) |-> EffectiveMessage(commits, StacksOf(commits)[i])]
----------------------------------------------------------------------------
(***************************************************************************)
(* Git.  The message of a commit is its title; that of an amend! is the    *)
(* one it brings, that of a fixup! its own subject.                        *)
(***************************************************************************)
Trailers == ChangeIds \cup {""}
Original(title, id) == [subject |-> <<title>>, message |-> <<title>>, id |-> id]
Fixup(subject) ==
    [subject |-> <<"fixup!">> \o subject, message |-> <<"fixup!">> \o subject, id |-> ""]
Amend(subject, title) == [subject |-> <<"amend!">> \o subject, message |-> <<title>>, id |-> ""]

StacksInit == branch = <<>>

\* `git commit`, with --fixup for an earlier commit or for a title from elsewhere.
Subjects == {<<t>> : t \in Titles} \cup {c.subject : c \in ToSet(branch)}

Commits ==
    {Original(t, i) : t \in Titles, i \in Trailers}
    \cup {Fixup(s) : s \in Subjects}
    \cup {Amend(s, t) : s \in Subjects, t \in Titles}

AddCommit ==
    /\ Len(branch) < MaxCommits
    /\ \E c \in Commits : branch' = Append(branch, c)

\* `git rebase --autosquash`: a marked commit goes to the oldest commit with its title
\* before it, and an amend! replaces the message there.
TitleOf(commit) == Last(commit.subject)

HostOf(n) ==
    LET before == {i \in 1..(n - 1) : branch[i].subject = <<TitleOf(branch[n])>>}
    IN  IF before = {} THEN n ELSE CHOOSE i \in before : \A j \in before : i <= j

\* The feedback that goes to a commit, and what that becomes: the newest amend! decides.
Amends(n) == {i \in DOMAIN branch : /\ IsFeedback(branch[i]) /\ CarriesMessage(branch[i])
                                    /\ HostOf(i) = n}

Result(n) ==
    IF IsFeedback(branch[n]) \/ Amends(n) = {} THEN branch[n]
    ELSE LET amend == branch[Max(Amends(n))]
         IN  [subject |-> amend.message, message |-> amend.message, id |-> amend.id]

\* Feedback without a host stays where it is.
Stays(n) == ~IsFeedback(branch[n]) \/ HostOf(n) = n

Squashed ==
    LET hosts[i \in 0 .. Len(branch)] ==
            IF i = 0 THEN <<>> ELSE IF Stays(i) THEN Append(hosts[i - 1], i) ELSE hosts[i - 1]
    IN  [k \in DOMAIN hosts[Len(branch)] |-> Result(hosts[Len(branch)][k])]

Autosquash == branch' = Squashed

StacksNext == AddCommit \/ Autosquash

StacksSpec == StacksInit /\ [][StacksNext]_branch
----------------------------------------------------------------------------
\* Every commit is in exactly one stack, the stacks follow each other.
StacksTypeOK ==
    LET stacks == StacksOf(branch)
    IN  /\ Len(branch) <= MaxCommits
        /\ \A i \in DOMAIN stacks :
             /\ stacks[i].first <= stacks[i].last
             /\ stacks[i].first = IF i = 1 THEN 1 ELSE stacks[i - 1].last + 1
        /\ branch # <<>> => Last(stacks).last = Len(branch)

\* All feedback has found its stack.
Settled == \A s \in ToSet(StacksOf(branch)) : ~IsFeedback(branch[s.first])

\* "Autosquash applies the markers without changing the result": if all feedback is
\* with its commit, the squashed branch has as many stacks with the same messages.
AutosquashKeepsMessages ==
    [][Autosquash /\ Settled => Messages(branch') = Messages(branch)]_branch
============================================================================

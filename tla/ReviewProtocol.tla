--------------------------- MODULE ReviewProtocol ---------------------------
(***************************************************************************)
(* The commands that read and write the review history of one branch, run  *)
(* by several Timber processes at the same time:                           *)
(*   timber review commits   Reviewer.Review   (run.go)                    *)
(*   timber review approve   Service.Approve   (service.go)                *)
(*   timber review auto      Service.Auto      (service.go, auto_split.go) *)
(*   timber review reset     Service.Reset     (service.go)                *)
(*                                                                         *)
(* Two locks order them.  The file lock (Store.Update, state.go) is a file *)
(* created with O_EXCL around one read-modify-write of the state file: a   *)
(* second writer fails at once, and a writer that dies leaves the file     *)
(* behind.  The worktree lock (lockWorktree, worktree.go) is an flock that *)
(* commits, auto and reset hold for their whole life; approve takes none.  *)
(* The tuicr child of a review inherits the descriptor, so the flock ends  *)
(* only when both Timber and tuicr are gone.                               *)
(*                                                                         *)
(* The environment rewrites the branch (head), opens and closes tuicr,     *)
(* kills Timber, and removes a file lock that a dead writer left.          *)
(***************************************************************************)
EXTENDS ReviewHistory

CONSTANTS
    Reviewers, Approvers, Autos, Resetters,  \* processes, by the command they run
    Stacks,        \* the stacks that occur
    Views,         \* the views that the branch can have: sequences of stacks
    Options,       \* the options of a review: [stack, first, last], "" when absent
    MaxRuns,       \* bound on the commands started
    MaxRewrites,   \* bound on the rewrites of the branch
    MaxCrashes     \* bound on the processes killed

Proc == Reviewers \cup Approvers \cup Autos \cup Resetters

Free == "free"             \* no lock file
Abandoned == "abandoned"   \* a lock file whose writer died

ASSUME ViewsAssumption ==
    /\ Views \subseteq Seq(Stacks)
    /\ \A s \in Stacks : s.commits # <<>>
    /\ NoStack \notin Stacks
\* A branch holds a commit once, and a commit is in one stack (CommitStacks).
ASSUME CommitsAssumption ==
    /\ \A s \in Stacks : /\ s.commits \in Seq(STRING)
                         /\ \A i, j \in DOMAIN s.commits : s.commits[i] = s.commits[j] => i = j
    /\ \A v \in Views : \A i, j \in DOMAIN v : v[i].commits[1] = v[j].commits[1] => i = j
\* Diff and message are functions of the commits while git keeps the settings that
\* the patch cache has in its keys (PatchCache models a change of them).
ASSUME FingerprintsAssumption ==
    \A s, t \in Stacks : SameStack(s, t) => s.patch = t.patch /\ s.message = t.message
ASSUME ProcAssumption == Free \notin Proc /\ Abandoned \notin Proc
ASSUME BoundsAssumption == MaxRuns \in Nat /\ MaxRewrites \in Nat /\ MaxCrashes \in Nat

VARIABLES
    attempts,   \* the history in the state file
    nextId,     \* the position that the next new attempt takes
    head,       \* the current view of the branch
    fileLock,   \* Free, Abandoned, or the process inside Store.Update
    flock,      \* the processes that hold the worktree lock open
    tuicr,      \* the processes whose tuicr child runs
    pc,         \* what each process does next
    phase,      \* where each process is inside Store.Update
    draft,      \* the edited copy of the history that Store.Update will write
    ctx,        \* what each process remembers
    runs, rewrites, crashes   \* the bounded counters

vars == <<attempts, nextId, head, fileLock, flock, tuicr, pc, phase, draft, ctx,
          runs, rewrites, crashes>>

\* Each of these steps is one Store.Update.
Updates == {"discard", "begin", "resume", "finish", "fail", "approve", "record", "clear"}

Steps == Updates \cup {"idle", "survey", "surveyed", "plan", "planned", "launch", "tuicr",
                       "sample", "sampled", "evaluate", "lock"}

\* What a process remembers: the options of a review, the snapshot, the stacks it
\* works on, the attempt that a plan reopens or replaces and the status it had,
\* the attempt that the review opened, the outcome, and the stacks it has seen.
NoOption == [stack |-> "", first |-> "", last |-> ""]

Blank == [option |-> NoOption, view |-> <<>>,
          todo |-> <<>>, prior |-> None, seen |-> "", current |-> None, outcome |-> "",
          visited |-> {}]
----------------------------------------------------------------------------
(***************************************************************************)
(* The flock is free when neither a Timber process nor a tuicr child has   *)
(* it open.                                                                *)
(***************************************************************************)
\* Mutant: tuicr does not inherit the descriptor of the lock.
FlockFreeOfTimber == flock = {}

FlockFree == flock = {} /\ tuicr = {}

\* A command that returns closes its lock file; a plan takes a new snapshot.
Move(p, step, c) ==
    /\ pc' = [pc EXCEPT ![p] = step]
    /\ ctx' = [ctx EXCEPT ![p] = CASE step = "idle" -> Blank
                                    [] step = "plan" -> [c EXCEPT !.view = <<>>]
                                    [] OTHER         -> c]
    /\ flock' = IF step = "idle" THEN flock \ {p} ELSE flock

Goto(p, step) == Move(p, step, ctx[p])

Start(p, step, locks, c) ==
    /\ pc[p] = "idle"
    /\ runs < MaxRuns
    /\ locks => FlockFree
    /\ pc' = [pc EXCEPT ![p] = step]
    /\ ctx' = [ctx EXCEPT ![p] = c]
    /\ flock' = IF locks THEN flock \cup {p} ELSE flock
    /\ runs' = runs + 1
    /\ UNCHANGED <<attempts, nextId, head, fileLock, tuicr, phase, draft, rewrites, crashes>>
----------------------------------------------------------------------------
(***************************************************************************)
(* Store.Update.  Enter creates the lock file, loads the state and runs    *)
(* the action of the caller on the copy; Write replaces the state file and *)
(* removes the lock; Abort is the return without a write when the action   *)
(* refuses; Busy is the error when the lock file exists.                   *)
(***************************************************************************)
Edited(p, step, allowed, edited, added) ==
    /\ pc[p] = step
    /\ phase[p] = "out"
    /\ fileLock' = p
    /\ phase' = [phase EXCEPT ![p] = IF allowed THEN "write" ELSE "abort"]
    /\ draft' = [draft EXCEPT ![p] = IF allowed THEN edited ELSE <<>>]
    /\ ctx' = [ctx EXCEPT ![p].current = IF allowed /\ step = "begin" THEN nextId ELSE @]
    /\ nextId' = IF allowed THEN nextId + added ELSE nextId
    /\ UNCHANGED <<attempts, head, flock, tuicr, pc, runs, rewrites, crashes>>

\* Mutant: the lock file is opened without O_EXCL.
EnterUnlocked(p, step, allowed, edited, added) == Edited(p, step, allowed, edited, added)

\* Mutant: a new attempt takes an ID that is already in use.
EnterSameId(p, step, allowed, edited, added) ==
    fileLock = Free /\ Edited(p, step, allowed, edited, 0)

Enter(p, step, allowed, edited, added) ==
    fileLock = Free /\ Edited(p, step, allowed, edited, added)

\* Discarding only warns; a result that cannot be recorded is a failure to record.
Refused(step) ==
    CASE step = "discard" -> "plan"
      [] step = "finish"  -> "fail"
      [] OTHER            -> "idle"

Busy(p) ==
    /\ pc[p] \in Updates
    /\ phase[p] = "out"
    /\ fileLock # Free
    /\ Goto(p, Refused(pc[p]))
    /\ UNCHANGED <<attempts, nextId, head, fileLock, tuicr, phase, draft, runs, rewrites, crashes>>

Abort(p) ==
    /\ phase[p] = "abort"
    /\ fileLock' = Free
    /\ phase' = [phase EXCEPT ![p] = "out"]
    /\ Goto(p, Refused(pc[p]))
    /\ UNCHANGED <<attempts, nextId, head, tuicr, draft, runs, rewrites, crashes>>

\* A review without an explicit stack goes on after an approval or feedback.
Continues(c) == c.option.stack = "" /\ c.outcome \in {"approved", "feedback"}

Written(step, c) ==
    CASE step = "discard"             -> "plan"
      [] step \in {"begin", "resume"} -> "launch"
      [] step = "finish"              -> IF Continues(c) THEN "plan" ELSE "idle"
      [] step = "record"              -> "evaluate"
      [] OTHER                        -> "idle"

\* Mutant: the loop of a review forgets which stacks it opened.
Forgetful(step, c) ==
    CASE step = "finish" -> [Blank EXCEPT !.option = c.option]
      [] step = "record" -> [c EXCEPT !.todo = Tail(@), !.outcome = ""]
      [] OTHER           -> c

Remembered(step, c) ==
    CASE step = "finish" -> [Blank EXCEPT !.option = c.option,
                                          !.visited = c.visited \cup {Key(c.todo[1])}]
      [] step = "record" -> [c EXCEPT !.todo = Tail(@), !.outcome = ""]
      [] OTHER           -> c

Write(p) ==
    /\ phase[p] = "write"
    /\ attempts' = draft[p]
    /\ draft' = [draft EXCEPT ![p] = <<>>]
    /\ fileLock' = Free
    /\ phase' = [phase EXCEPT ![p] = "out"]
    /\ Move(p, Written(pc[p], ctx[p]), Remembered(pc[p], ctx[p]))
    /\ UNCHANGED <<nextId, head, tuicr, runs, rewrites, crashes>>
----------------------------------------------------------------------------
(***************************************************************************)
(* timber review commits.  A step that only reads leaves all but pc, ctx   *)
(* and flock alone.                                                        *)
(***************************************************************************)
Reads == UNCHANGED <<attempts, nextId, head, fileLock, tuicr, phase, draft, runs, rewrites, crashes>>

StartReview(p) ==
    \E o \in Options : Start(p, "survey", TRUE, [Blank EXCEPT !.option = o])

\* discardUnusable takes a snapshot, then loads the history.
SurveyHead(p) ==
    /\ pc[p] = "survey"
    /\ Move(p, "surveyed", [ctx[p] EXCEPT !.view = head])
    /\ Reads

SurveyLoad(p) ==
    LET stale == {i \in DOMAIN attempts : \/ Superseded(attempts[i], ctx[p].view)
                                         \/ Lost(attempts[i], ctx[p].view)}
    IN  /\ pc[p] = "surveyed"
        /\ Goto(p, IF stale = {} THEN "plan" ELSE "discard")
        /\ Reads

Discard(p) == Enter(p, "discard", TRUE, Discarded(attempts, ctx[p].view), 0)

PlanHead(p) ==
    /\ pc[p] = "plan"
    /\ Move(p, "planned", [ctx[p] EXCEPT !.view = head])
    /\ Reads

\* The review of a stack goes on where its attempt stopped, or begins anew under
\* the commits that replaced the stack.  It ends when no stack is left, when none
\* replaced the stack, or when the saved session of the attempt cannot be read.
PlanLoad(p) ==
    LET c == ctx[p]
    IN  /\ pc[p] = "planned"
        /\ \E stack \in {Planned(c.view, attempts, c.option, c.visited)} :
           \E prior \in {IF stack = NoStack THEN None
                                            ELSE PlannedPrior(c.view, attempts, stack)} :
             LET resumes == prior # None /\ SameStack(attempts[prior].stack, stack)
                 opened  == IF resumes \/ stack = NoStack
                              THEN stack ELSE ReplacementStack(c.view, stack)
             IN  \/ /\ opened # NoStack
                    /\ Move(p, IF resumes THEN "resume" ELSE "begin",
                         [c EXCEPT !.todo = <<opened>>, !.prior = prior,
                                   !.seen = IF prior = None THEN "" ELSE attempts[prior].status,
                                   !.current = IF resumes THEN prior ELSE None])
                 \/ /\ opened = NoStack \/ resumes
                    /\ Goto(p, "idle")
        /\ Reads

Begin(p) ==
    LET c == ctx[p]
    IN  Enter(p, "begin", head = c.view /\ OnlyActive(c.view, attempts, c.prior),
              Begun(attempts, c.prior, nextId, c.todo[1]), 1)

Resume(p) ==
    LET c == ctx[p]
        known == c.prior \in DOMAIN attempts /\ attempts[c.prior].status = c.seen
    IN  Enter(p, "resume", OnlyActive(c.view, attempts, c.prior) /\ known,
              IF known THEN WithStatus(attempts, c.prior, "reviewing") ELSE <<>>, 0)

\* Launch prepares the review checkout and opens tuicr in it; either can fail.
Launch(p) ==
    /\ pc[p] = "launch"
    /\ phase[p] = "out"
    /\ tuicr' = tuicr \cup {p}
    /\ Goto(p, "tuicr")
    /\ UNCHANGED <<attempts, nextId, head, fileLock, phase, draft, runs, rewrites, crashes>>

LaunchFails(p) == pc[p] = "launch" /\ Goto(p, "fail") /\ Reads

\* The user quits tuicr, and the saved session tells how far the review went.
TuicrQuits(p) ==
    /\ pc[p] = "tuicr"
    /\ tuicr' = tuicr \ {p}
    /\ \E outcome \in Outcomes : Move(p, "finish", [ctx[p] EXCEPT !.outcome = outcome])
    /\ UNCHANGED <<attempts, nextId, head, fileLock, phase, draft, runs, rewrites, crashes>>

\* tuicr fails or is interrupted, or its saved session cannot be read.
TuicrFails(p) ==
    /\ pc[p] = "tuicr"
    /\ tuicr' = tuicr \ {p}
    /\ Goto(p, "fail")
    /\ UNCHANGED <<attempts, nextId, head, fileLock, phase, draft, runs, rewrites, crashes>>

Finish(p) ==
    LET c == ctx[p]
        open == c.current \in DOMAIN attempts /\ attempts[c.current].status = "reviewing"
    IN  Enter(p, "finish", open,
              IF open THEN Finished(attempts, c.current, c.outcome) ELSE <<>>, 0)

Fail(p) ==
    LET c == ctx[p]
        known == c.current \in DOMAIN attempts
    IN  Enter(p, "fail", known, IF known THEN Failed(attempts, c.current) ELSE <<>>, 0)
----------------------------------------------------------------------------
(***************************************************************************)
(* timber review approve.                                                  *)
(***************************************************************************)
StartApprove(p) ==
    \E selected \in Ranges(head) :
        Start(p, "approve", FALSE, [Blank EXCEPT !.view = head, !.todo = selected])

Approve(p) ==
    LET c == ctx[p]
    IN  Enter(p, "approve", ApprovalAllowed(c.todo, c.view, attempts) /\ head = c.view,
              Approved(attempts, nextId, c.todo), Len(c.todo))
----------------------------------------------------------------------------
(***************************************************************************)
(* timber review auto (not the dry run, which takes no lock and records    *)
(* nothing).  One load at the start of the run tells which stacks have a   *)
(* result; each verdict is recorded when it arrives.                       *)
(***************************************************************************)
StartAuto(p) == Start(p, "sample", TRUE, Blank)

SampleHead(p) ==
    /\ pc[p] = "sample"
    /\ Move(p, "sampled", [ctx[p] EXCEPT !.view = head])
    /\ Reads

SampleLoad(p) ==
    LET view == ctx[p].view
        reviewed == {i \in DOMAIN view : Latest(attempts, view[i]) # None}
    IN  /\ pc[p] = "sampled"
        /\ IF ActiveAttempts(view, attempts) # {}
             THEN Goto(p, "idle")
             ELSE \E selected \in Ranges(view) \cup ({view} \cap {<<>>}) :
                    Move(p, "evaluate", [ctx[p] EXCEPT !.todo = selected,
                                             !.visited = {Key(view[i]) : i \in reviewed}])
        /\ Reads

\* The model gives a verdict on the next stack that had no result.
Evaluate(p) ==
    /\ pc[p] = "evaluate"
    /\ ctx[p].todo # <<>>
    /\ Key(ctx[p].todo[1]) \notin ctx[p].visited
    /\ \E verdict \in Verdicts : Move(p, "record", [ctx[p] EXCEPT !.outcome = verdict])
    /\ Reads

\* A stack that has a result, is not a Refactor: stack, or must stay private.
SkipStack(p) ==
    /\ pc[p] = "evaluate"
    /\ ctx[p].todo # <<>>
    /\ Move(p, "evaluate", [ctx[p] EXCEPT !.todo = Tail(@)])
    /\ Reads

\* Every stack is done, or the provider failed, or the run timed out.
EndAuto(p) == pc[p] = "evaluate" /\ Goto(p, "idle") /\ Reads

Record(p) ==
    LET c == ctx[p]
        s == c.todo[1]
        approves == c.outcome = "approve"
        result == NewAttempt(s, IF approves THEN "approved" ELSE "auto_reviewed", "model")
    IN  Enter(p, "record",
              /\ approves => ApprovalAllowed(<<s>>, c.view, attempts)
              /\ head = c.view,
              Add(attempts, nextId, result), 1)
----------------------------------------------------------------------------
(***************************************************************************)
(* timber review reset.  The stacks are selected before the lock is taken. *)
(***************************************************************************)
StartReset(p) ==
    \E selected \in {head} \cup {<<head[i]>> : i \in DOMAIN head} :
        Start(p, "lock", FALSE, [Blank EXCEPT !.view = head, !.todo = selected])

\* Mutant: reset does not wait for the review checkout.
ResetUnlocked(p) ==
    /\ pc[p] = "lock"
    /\ flock' = flock \cup {p}
    /\ pc' = [pc EXCEPT ![p] = "clear"]
    /\ UNCHANGED ctx
    /\ Reads

LockReset(p) ==
    /\ pc[p] = "lock"
    /\ IF FlockFree
         THEN /\ flock' = flock \cup {p}
              /\ pc' = [pc EXCEPT ![p] = "clear"]
              /\ UNCHANGED ctx
         ELSE Goto(p, "idle")
    /\ Reads

Clear(p) == Enter(p, "clear", TRUE, Cleared(attempts, ctx[p].todo), 0)
----------------------------------------------------------------------------
(***************************************************************************)
(* The environment.                                                        *)
(***************************************************************************)
Rewrite ==
    /\ rewrites < MaxRewrites
    /\ head' \in Views \ {head}
    /\ rewrites' = rewrites + 1
    /\ UNCHANGED <<attempts, nextId, fileLock, flock, tuicr, pc, phase, draft, ctx, runs, crashes>>

\* A Timber process dies.  A death inside Write comes before or after the
\* replacement of the state file; its lock file stays, and its tuicr runs on.
Crash(p) ==
    /\ pc[p] # "idle"
    /\ crashes < MaxCrashes
    /\ crashes' = crashes + 1
    /\ attempts' \in {attempts} \cup IF phase[p] = "write" THEN {draft[p]} ELSE {}
    /\ fileLock' = IF fileLock = p THEN Abandoned ELSE fileLock
    /\ phase' = [phase EXCEPT ![p] = "out"]
    /\ draft' = [draft EXCEPT ![p] = <<>>]
    /\ Goto(p, "idle")
    /\ UNCHANGED <<nextId, head, tuicr, runs, rewrites>>

\* A tuicr whose Timber died ends.
OrphanQuits(p) ==
    /\ p \in tuicr
    /\ pc[p] # "tuicr"
    /\ tuicr' = tuicr \ {p}
    /\ UNCHANGED <<attempts, nextId, head, fileLock, flock, pc, phase, draft, ctx,
                   runs, rewrites, crashes>>

\* The user removes the lock file that the error message names.
RemoveLock ==
    /\ fileLock = Abandoned
    /\ fileLock' = Free
    /\ UNCHANGED <<attempts, nextId, head, flock, tuicr, pc, phase, draft, ctx,
                   runs, rewrites, crashes>>
----------------------------------------------------------------------------
Init ==
    /\ attempts = <<>>
    /\ nextId = 1
    /\ head \in Views
    /\ fileLock = Free
    /\ flock = {}
    /\ tuicr = {}
    /\ pc = [p \in Proc |-> "idle"]
    /\ phase = [p \in Proc |-> "out"]
    /\ draft = [p \in Proc |-> <<>>]
    /\ ctx = [p \in Proc |-> Blank]
    /\ runs = 0
    /\ rewrites = 0
    /\ crashes = 0

ReviewStep(p) ==
    \/ SurveyHead(p) \/ SurveyLoad(p) \/ Discard(p) \/ PlanHead(p) \/ PlanLoad(p)
    \/ Begin(p) \/ Resume(p) \/ Launch(p) \/ LaunchFails(p)
    \/ TuicrQuits(p) \/ TuicrFails(p) \/ Finish(p) \/ Fail(p)

AutoStep(p) ==
    SampleHead(p) \/ SampleLoad(p) \/ Evaluate(p) \/ SkipStack(p) \/ EndAuto(p) \/ Record(p)

ResetStep(p) == LockReset(p) \/ Clear(p)

UpdateStep(p) == Busy(p) \/ Abort(p) \/ Write(p)

Next ==
    \/ \E p \in Reviewers : StartReview(p) \/ ReviewStep(p)
    \/ \E p \in Approvers : StartApprove(p) \/ Approve(p)
    \/ \E p \in Autos     : StartAuto(p) \/ AutoStep(p)
    \/ \E p \in Resetters : StartReset(p) \/ ResetStep(p)
    \/ \E p \in Proc      : UpdateStep(p) \/ Crash(p) \/ OrphanQuits(p)
    \/ Rewrite
    \/ RemoveLock

Spec == Init /\ [][Next]_vars

\* A command that runs goes on running, and the user closes an open tuicr.
FairSpec ==
    /\ Spec
    /\ \A p \in Reviewers : WF_vars(ReviewStep(p) \/ UpdateStep(p))
    /\ \A p \in Approvers : WF_vars(Approve(p) \/ UpdateStep(p))
    /\ \A p \in Autos     : WF_vars(AutoStep(p) \/ UpdateStep(p))
    /\ \A p \in Resetters : WF_vars(ResetStep(p) \/ UpdateStep(p))
----------------------------------------------------------------------------
(***************************************************************************)
(* Properties.                                                             *)
(***************************************************************************)
Context ==
    [option : Options \cup {NoOption}, view : Views \cup {<<>>}, todo : Seq(Stacks),
     prior : Nat, seen : Statuses \cup {""}, current : Nat,
     outcome : Outcomes \cup Verdicts \cup {""}, visited : SUBSET {Key(s) : s \in Stacks}]

TypeOK ==
    /\ DOMAIN attempts \subseteq 1 .. (nextId - 1)
    /\ attempts \in [DOMAIN attempts -> Attempt(Stacks)]
    /\ nextId \in Nat \ {0}
    /\ head \in Views
    /\ fileLock \in Proc \cup {Free, Abandoned}
    /\ flock \subseteq Proc
    /\ tuicr \subseteq Proc
    /\ pc \in [Proc -> Steps]
    /\ phase \in [Proc -> {"out", "write", "abort"}]
    /\ DOMAIN draft = Proc
    /\ \A p \in Proc : /\ DOMAIN draft[p] \subseteq 1 .. (nextId - 1)
                       /\ draft[p] \in [DOMAIN draft[p] -> Attempt(Stacks)]
    /\ ctx \in [Proc -> Context]
    /\ runs \in 0 .. MaxRuns /\ rewrites \in 0 .. MaxRewrites /\ crashes \in 0 .. MaxCrashes

\* The state file goes through the steps of ReviewLedger: every write is one edit
\* of the history that the file held when it was written (Store.Update).
Ledger == INSTANCE ReviewLedger WITH history <- attempts

ImplementsLedger == Ledger!Spec

\* A process between Enter and its return owns the lock file, so two updates of
\* the state file never overlap (Store.Update, "serializes writers").
UpdatesAreExclusive == \A p \in Proc : phase[p] # "out" => fileLock = p

\* The review checkout has one user: no command that takes the worktree lock
\* runs while a tuicr of another command is open, even if its Timber died.
WorktreeExclusive ==
    /\ \A p, q \in flock \cup tuicr : p = q
    /\ \A p \in flock \cap tuicr : pc[p] = "tuicr"

\* While tuicr is open, or its result waits to be recorded, the attempt that the
\* review opened stays in the history and stays open.  So no result of a live
\* review ends as "review attempt changed" or "review attempt disappeared".
RunningAttemptIntact ==
    \A p \in Reviewers : pc[p] \in {"launch", "tuicr", "finish"} /\ phase[p] = "out" =>
        /\ ctx[p].current \in DOMAIN attempts
        /\ attempts[ctx[p].current].status = "reviewing"
        /\ SameStack(attempts[ctx[p].current].stack, ctx[p].todo[1])

\* "Each eligible stack opens once per invocation" (commits.go).
OpensOnce ==
    \A p \in Reviewers : pc[p] \in {"begin", "resume", "launch"} =>
        Key(ctx[p].todo[1]) \notin ctx[p].visited

\* A recorded approval leaves the history only by a reset that selects it.
\* A lost update, or a cleanup under an outdated view, would drop one.
KeepsApprovals ==
    \A i \in DOMAIN attempts : attempts[i].status = "approved" =>
        \/ i \in DOMAIN attempts' /\ attempts'[i] = attempts[i]
        \/ \E p \in Resetters :
              phase[p] = "write" /\ ResetsAttempt(attempts[i], ctx[p].todo)

ApprovalsPersist == [][KeepsApprovals]_attempts

\* No command approves a stack on which feedback is pending, or whose review is
\* open, at the moment that the approval enters the history.
ApprovesFreely ==
    \A i \in DOMAIN attempts' \ DOMAIN attempts : attempts'[i].status = "approved" =>
        LET s == attempts'[i].stack
        IN  /\ StatusOf(attempts, s) # "feedback"
            /\ \A j \in DOMAIN attempts :
                  attempts[j].status = "reviewing" => ~SameStack(attempts[j].stack, s)

ApprovalsRespectReviews == [][ApprovesFreely]_attempts

\* A new review leaves itself as the only open attempt of the view it was
\* planned under: the attempt it replaces is closed in the same write.
LeavesOneActive ==
    \A p \in Reviewers : pc[p] = "begin" /\ phase[p] = "write" /\ attempts' # attempts =>
        ActiveAttempts(ctx[p].view, attempts') = {ctx[p].current}

BeginLeavesOneActive == [][LeavesOneActive]_attempts

\* A rewrite that keeps the patch and the message of a stack keeps the result
\* that the user gave it.
UserResults == {"approved", "feedback"}

KeepsUserReview ==
    \A i \in DOMAIN head, j \in DOMAIN head' :
        LET s == head[i]
            t == head'[j]
            a == Latest(attempts, s)
        IN  /\ SamePatch(s, t) /\ SameMessage(s, t) /\ a # None
            /\ attempts[a].status \in UserResults /\ attempts[a].source # "model"
            => Latest(attempts, t) = a

RebaseKeepsUserReview == [][KeepsUserReview]_head

\* Every command that starts ends: the loop of a review runs out of stacks that
\* it has not opened, and no command waits for a lock.
CommandsEnd == \A p \in Proc : pc[p] # "idle" ~> pc[p] = "idle"
----------------------------------------------------------------------------
(***************************************************************************)
(* A statement of the documentation that the code does not keep.           *)
(***************************************************************************)
\* "auto_reviewed marks a stack that timber review auto assessed without approval."
\* (skills/timber-review/SKILL.md)  So the mark never replaces an approval.
AbstentionKeepsApproval ==
    [][\A i \in DOMAIN head :
          StatusOf(attempts, head[i]) = "approved" =>
              StatusOf(attempts', head[i]) # "auto_reviewed"]_attempts
=============================================================================

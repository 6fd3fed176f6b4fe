------------------------ MODULE ReviewProtocolProofs ------------------------
(***************************************************************************)
(* Theorems about ReviewProtocol, for any number of processes, stacks and  *)
(* views.  They go from the locks to the history: first that updates of    *)
(* the state file and uses of the review checkout exclude each other, then *)
(* what the processes remember, then that every write is one edit of the   *)
(* history that the file holds (ReviewLedger), then what the edits keep:   *)
(* approvals, the attempt of a running review, and the results of a patch. *)
(***************************************************************************)
EXTENDS ReviewProtocol, ReviewHistoryProofs

-----------------------------------------------------------------------------
(***************************************************************************)
(* The file lock.                                                          *)
(***************************************************************************)
\* The control state of the processes.
Control ==
    /\ pc \in [Proc -> Steps]
    /\ phase \in [Proc -> {"out", "write", "abort"}]

FileLockInv == Control /\ UpdatesAreExclusive

\* What Store.Update does to the lock, whatever the command: a process enters
\* when the file is free, and what ends an update is done by its owner.
LEMMA EnterKeepsFileLock ==
    ASSUME NEW p \in Proc, NEW step, NEW allowed, NEW edited, NEW added,
           FileLockInv, Enter(p, step, allowed, edited, added)
    PROVE  FileLockInv'
BY ProcAssumption DEF FileLockInv, Control, UpdatesAreExclusive, Enter, Edited

\* A step of the same process from one place of its command to another.
LEMMA GoKeepsFileLock ==
    ASSUME NEW p \in Proc, NEW step \in Steps, FileLockInv,
           pc' = [pc EXCEPT ![p] = step], UNCHANGED <<fileLock, phase>>
    PROVE  FileLockInv'
BY DEF FileLockInv, Control, UpdatesAreExclusive

LEMMA FileLockInvStep == FileLockInv /\ [Next]_vars => FileLockInv'
<1> SUFFICES ASSUME FileLockInv, [Next]_vars PROVE FileLockInv'
  OBVIOUS
<1> USE DEF Goto, Move, Reads
<1>1. ASSUME NEW p \in Reviewers, StartReview(p) \/ ReviewStep(p) PROVE FileLockInv'
  <2>0. p \in Proc
    BY DEF Proc
  <2>1. CASE StartReview(p)
    BY <2>0, <2>1, GoKeepsFileLock DEF StartReview, Start, Steps, Updates
  <2>2. CASE SurveyHead(p)
    BY <2>0, <2>2, GoKeepsFileLock DEF SurveyHead, Steps, Updates
  <2>3. CASE SurveyLoad(p)
    BY <2>0, <2>3, GoKeepsFileLock DEF SurveyLoad, Steps, Updates
  <2>4. CASE Discard(p)
    BY <2>0, <2>4, EnterKeepsFileLock DEF Discard
  <2>5. CASE PlanHead(p)
    BY <2>0, <2>5, GoKeepsFileLock DEF PlanHead, Steps, Updates
  <2>6. CASE PlanLoad(p)
    BY <2>0, <2>6, GoKeepsFileLock DEF PlanLoad, Steps, Updates
  <2>7. CASE Begin(p)
    BY <2>0, <2>7, EnterKeepsFileLock DEF Begin
  <2>8. CASE Resume(p)
    BY <2>0, <2>8, EnterKeepsFileLock DEF Resume
  <2>9. CASE Launch(p)
    BY <2>0, <2>9, GoKeepsFileLock DEF Launch, Steps, Updates
  <2>10. CASE LaunchFails(p)
    BY <2>0, <2>10, GoKeepsFileLock DEF LaunchFails, Steps, Updates
  <2>11. CASE TuicrQuits(p)
    BY <2>0, <2>11, GoKeepsFileLock DEF TuicrQuits, Steps, Updates
  <2>12. CASE TuicrFails(p)
    BY <2>0, <2>12, GoKeepsFileLock DEF TuicrFails, Steps, Updates
  <2>13. CASE Finish(p)
    BY <2>0, <2>13, EnterKeepsFileLock DEF Finish
  <2>14. CASE Fail(p)
    BY <2>0, <2>14, EnterKeepsFileLock DEF Fail
  <2> QED
    BY <1>1, <2>1, <2>2, <2>3, <2>4, <2>5, <2>6, <2>7, <2>8, <2>9, <2>10, <2>11, <2>12,
       <2>13, <2>14 DEF ReviewStep
<1>2. ASSUME NEW p \in Approvers, StartApprove(p) \/ Approve(p) PROVE FileLockInv'
  <2>0. p \in Proc
    BY DEF Proc
  <2>1. CASE StartApprove(p)
    BY <2>0, <2>1, GoKeepsFileLock DEF StartApprove, Start, Steps, Updates
  <2>2. CASE Approve(p)
    BY <2>0, <2>2, EnterKeepsFileLock DEF Approve
  <2> QED
    BY <1>2, <2>1, <2>2
<1>3. ASSUME NEW p \in Autos, StartAuto(p) \/ AutoStep(p) PROVE FileLockInv'
  <2>0. p \in Proc
    BY DEF Proc
  <2>1. CASE StartAuto(p)
    BY <2>0, <2>1, GoKeepsFileLock DEF StartAuto, Start, Steps, Updates
  <2>2. CASE SampleHead(p)
    BY <2>0, <2>2, GoKeepsFileLock DEF SampleHead, Steps, Updates
  <2>3. CASE SampleLoad(p)
    BY <2>0, <2>3, GoKeepsFileLock DEF SampleLoad, Steps, Updates
  <2>4. CASE Evaluate(p)
    BY <2>0, <2>4, GoKeepsFileLock DEF Evaluate, Steps, Updates
  <2>5. CASE SkipStack(p)
    BY <2>0, <2>5, GoKeepsFileLock DEF SkipStack, Steps, Updates
  <2>6. CASE EndAuto(p)
    BY <2>0, <2>6, GoKeepsFileLock DEF EndAuto, Steps, Updates
  <2>7. CASE Record(p)
    BY <2>0, <2>7, EnterKeepsFileLock DEF Record
  <2> QED
    BY <1>3, <2>1, <2>2, <2>3, <2>4, <2>5, <2>6, <2>7 DEF AutoStep
<1>4. ASSUME NEW p \in Resetters, StartReset(p) \/ ResetStep(p) PROVE FileLockInv'
  <2>0. p \in Proc
    BY DEF Proc
  <2>1. CASE StartReset(p)
    BY <2>0, <2>1, GoKeepsFileLock DEF StartReset, Start, Steps, Updates
  <2>2. CASE LockReset(p)
    BY <2>0, <2>2, GoKeepsFileLock DEF LockReset, Steps, Updates
  <2>3. CASE Clear(p)
    BY <2>0, <2>3, EnterKeepsFileLock DEF Clear
  <2> QED
    BY <1>4, <2>1, <2>2, <2>3 DEF ResetStep
<1>5. ASSUME NEW p \in Proc, UpdateStep(p) \/ Crash(p) \/ OrphanQuits(p) PROVE FileLockInv'
  <2>1. CASE Busy(p)
    BY <2>1, GoKeepsFileLock DEF Busy, Refused, Steps, Updates
  <2>2. CASE Abort(p)
    BY <2>2, ProcAssumption
       DEF Abort, Refused, Steps, Updates, FileLockInv, Control, UpdatesAreExclusive
  <2>3. CASE Write(p)
    BY <2>3, ProcAssumption
       DEF Write, Written, Steps, Updates, FileLockInv, Control, UpdatesAreExclusive
  <2>4. CASE Crash(p)
    BY <2>4, ProcAssumption
       DEF Crash, Steps, Updates, FileLockInv, Control, UpdatesAreExclusive
  <2>5. CASE OrphanQuits(p)
    BY <2>5 DEF OrphanQuits, FileLockInv, Control, UpdatesAreExclusive
  <2> QED
    BY <1>5, <2>1, <2>2, <2>3, <2>4, <2>5 DEF UpdateStep
<1>6. CASE Rewrite
  BY <1>6 DEF Rewrite, FileLockInv, Control, UpdatesAreExclusive
<1>7. CASE RemoveLock
  BY <1>7, ProcAssumption DEF RemoveLock, FileLockInv, Control, UpdatesAreExclusive
<1>8. CASE UNCHANGED vars
  BY <1>8 DEF vars, FileLockInv, Control, UpdatesAreExclusive
<1> QED
  BY <1>1, <1>2, <1>3, <1>4, <1>5, <1>6, <1>7, <1>8 DEF Next

LEMMA FileLockInvariant == Spec => []FileLockInv
<1>1. Init => FileLockInv
  BY DEF Init, FileLockInv, Control, UpdatesAreExclusive, Steps, Updates
<1> QED
  BY <1>1, FileLockInvStep, PTL DEF Spec

\* Two updates of the state file never overlap: whoever edits the history owns
\* the lock file (Store.Update, "serializes writers"), crashes included.
THEOREM ExclusiveUpdates == Spec => []UpdatesAreExclusive
<1>1. FileLockInv => UpdatesAreExclusive
  BY DEF FileLockInv
<1> QED
  BY <1>1, FileLockInvariant, PTL
-----------------------------------------------------------------------------
(***************************************************************************)
(* The worktree lock.  WorktreeExclusive is not inductive by itself: it    *)
(* takes that a command holds the lock exactly at the steps at which it    *)
(* has taken it, so that a command without it can neither launch tuicr nor *)
(* leave it running for another one.                                       *)
(***************************************************************************)
\* The places of a command at which it does not hold the worktree lock.
Lockless == {"idle", "approve", "lock"}

WorktreeInv ==
    /\ flock \subseteq Proc
    /\ tuicr \subseteq Proc
    /\ \A p \in Proc : p \in flock <=> pc[p] \notin Lockless
    /\ WorktreeExclusive

LEMMA EnterKeepsWorktree ==
    ASSUME NEW p \in Proc, NEW step, NEW allowed, NEW edited, NEW added,
           WorktreeInv, Enter(p, step, allowed, edited, added)
    PROVE  WorktreeInv'
BY DEF WorktreeInv, WorktreeExclusive, Enter, Edited

\* A command that holds the lock goes on or returns; its tuicr is closed before
\* it goes on.
LEMMA MoveKeepsWorktree ==
    ASSUME NEW p \in Proc, NEW step, NEW c, Control, WorktreeInv, Move(p, step, c),
           tuicr' \subseteq tuicr,
           step = "idle" \/ (pc[p] \notin Lockless /\ step \notin Lockless),
           step = "idle" \/ pc[p] # "tuicr" \/ p \notin tuicr'
    PROVE  WorktreeInv'
<1>1. pc' = [pc EXCEPT ![p] = step]
  BY DEF Move
<1>2. flock' = IF step = "idle" THEN flock \ {p} ELSE flock
  BY DEF Move
<1> QED
  BY <1>1, <1>2 DEF WorktreeInv, WorktreeExclusive, Lockless, Control

LEMMA StartKeepsWorktree ==
    ASSUME NEW p \in Proc, NEW step, NEW locks \in BOOLEAN, NEW c, Control, WorktreeInv,
           Start(p, step, locks, c), locks <=> step \notin Lockless
    PROVE  WorktreeInv'
<1>1. CASE locks
  BY <1>1 DEF Start, FlockFree, WorktreeInv, WorktreeExclusive, Lockless, Control
<1>2. CASE ~locks
  BY <1>2 DEF Start, FlockFree, WorktreeInv, WorktreeExclusive, Lockless, Control
<1> QED
  BY <1>1, <1>2

LEMMA WorktreeInvStep == Control /\ WorktreeInv /\ [Next]_vars => WorktreeInv'
<1> SUFFICES ASSUME Control, WorktreeInv, [Next]_vars PROVE WorktreeInv'
  OBVIOUS
<1> USE DEF Goto, Reads, Lockless
<1>1. ASSUME NEW p \in Reviewers, StartReview(p) \/ ReviewStep(p) PROVE WorktreeInv'
  <2>0. p \in Proc
    BY DEF Proc
  <2>1. CASE StartReview(p)
    BY <2>0, <2>1, StartKeepsWorktree DEF StartReview
  <2>2. CASE SurveyHead(p)
    BY <2>0, <2>2, MoveKeepsWorktree DEF SurveyHead
  <2>3. CASE SurveyLoad(p)
    BY <2>0, <2>3, MoveKeepsWorktree DEF SurveyLoad
  <2>4. CASE Discard(p)
    BY <2>0, <2>4, EnterKeepsWorktree DEF Discard
  <2>5. CASE PlanHead(p)
    BY <2>0, <2>5, MoveKeepsWorktree DEF PlanHead
  <2>6. CASE PlanLoad(p)
    <3>1. \E step \in {"resume", "begin", "idle"} : \E c : Move(p, step, c)
      BY <2>6 DEF PlanLoad
    <3> QED
      BY <2>0, <2>6, <3>1, MoveKeepsWorktree DEF PlanLoad
  <2>7. CASE Begin(p)
    BY <2>0, <2>7, EnterKeepsWorktree DEF Begin
  <2>8. CASE Resume(p)
    BY <2>0, <2>8, EnterKeepsWorktree DEF Resume
  <2>9. CASE Launch(p)
    BY <2>0, <2>9 DEF Launch, Move, WorktreeInv, WorktreeExclusive, Control
  <2>10. CASE LaunchFails(p)
    BY <2>0, <2>10, MoveKeepsWorktree DEF LaunchFails
  <2>11. CASE TuicrQuits(p)
    BY <2>0, <2>11, MoveKeepsWorktree DEF TuicrQuits
  <2>12. CASE TuicrFails(p)
    BY <2>0, <2>12, MoveKeepsWorktree DEF TuicrFails
  <2>13. CASE Finish(p)
    BY <2>0, <2>13, EnterKeepsWorktree DEF Finish
  <2>14. CASE Fail(p)
    BY <2>0, <2>14, EnterKeepsWorktree DEF Fail
  <2> QED
    BY <1>1, <2>1, <2>2, <2>3, <2>4, <2>5, <2>6, <2>7, <2>8, <2>9, <2>10, <2>11, <2>12,
       <2>13, <2>14 DEF ReviewStep
<1>2. ASSUME NEW p \in Approvers, StartApprove(p) \/ Approve(p) PROVE WorktreeInv'
  <2>0. p \in Proc
    BY DEF Proc
  <2>1. CASE StartApprove(p)
    BY <2>0, <2>1, StartKeepsWorktree DEF StartApprove
  <2>2. CASE Approve(p)
    BY <2>0, <2>2, EnterKeepsWorktree DEF Approve
  <2> QED
    BY <1>2, <2>1, <2>2
<1>3. ASSUME NEW p \in Autos, StartAuto(p) \/ AutoStep(p) PROVE WorktreeInv'
  <2>0. p \in Proc
    BY DEF Proc
  <2>1. CASE StartAuto(p)
    BY <2>0, <2>1, StartKeepsWorktree DEF StartAuto
  <2>2. CASE SampleHead(p)
    BY <2>0, <2>2, MoveKeepsWorktree DEF SampleHead
  <2>3. CASE SampleLoad(p)
    <3>1. \E step \in {"idle", "evaluate"} : \E c : Move(p, step, c)
      BY <2>3 DEF SampleLoad
    <3> QED
      BY <2>0, <2>3, <3>1, MoveKeepsWorktree DEF SampleLoad
  <2>4. CASE Evaluate(p)
    BY <2>0, <2>4, MoveKeepsWorktree DEF Evaluate
  <2>5. CASE SkipStack(p)
    BY <2>0, <2>5, MoveKeepsWorktree DEF SkipStack
  <2>6. CASE EndAuto(p)
    BY <2>0, <2>6, MoveKeepsWorktree DEF EndAuto
  <2>7. CASE Record(p)
    BY <2>0, <2>7, EnterKeepsWorktree DEF Record
  <2> QED
    BY <1>3, <2>1, <2>2, <2>3, <2>4, <2>5, <2>6, <2>7 DEF AutoStep
<1>4. ASSUME NEW p \in Resetters, StartReset(p) \/ ResetStep(p) PROVE WorktreeInv'
  <2>0. p \in Proc
    BY DEF Proc
  <2>1. CASE StartReset(p)
    BY <2>0, <2>1, StartKeepsWorktree DEF StartReset
  <2>2. CASE LockReset(p)
    <3>1. CASE FlockFree
      BY <2>0, <2>2, <3>1 DEF LockReset, FlockFree, WorktreeInv, WorktreeExclusive, Control
    <3>2. CASE ~FlockFree
      BY <2>0, <2>2, <3>2, MoveKeepsWorktree DEF LockReset
    <3> QED
      BY <3>1, <3>2
  <2>3. CASE Clear(p)
    BY <2>0, <2>3, EnterKeepsWorktree DEF Clear
  <2> QED
    BY <1>4, <2>1, <2>2, <2>3 DEF ResetStep
<1>5. ASSUME NEW p \in Proc, UpdateStep(p) \/ Crash(p) \/ OrphanQuits(p) PROVE WorktreeInv'
  <2>1. ASSUME NEW c, Move(p, Refused(pc[p]), c), tuicr' = tuicr PROVE WorktreeInv'
    <3>1. \/ Refused(pc[p]) = "idle"
          \/ pc[p] = "discard" /\ Refused(pc[p]) = "plan"
          \/ pc[p] = "finish" /\ Refused(pc[p]) = "fail"
      BY DEF Refused
    <3> QED
      BY <2>1, <3>1, MoveKeepsWorktree
  <2>2. CASE Busy(p)
    BY <2>1, <2>2 DEF Busy
  <2>3. CASE Abort(p)
    BY <2>1, <2>3 DEF Abort
  <2>4. CASE Write(p)
    <3>1. \/ Written(pc[p], ctx[p]) = "idle"
          \/ /\ pc[p] \in {"discard", "begin", "resume", "finish", "record"}
             /\ Written(pc[p], ctx[p]) \in {"plan", "launch", "evaluate"}
      BY DEF Written
    <3> QED
      BY <2>4, <3>1, MoveKeepsWorktree DEF Write
  <2>5. CASE Crash(p)
    BY <2>5, MoveKeepsWorktree DEF Crash
  <2>6. CASE OrphanQuits(p)
    BY <2>6 DEF OrphanQuits, WorktreeInv, WorktreeExclusive
  <2> QED
    BY <1>5, <2>2, <2>3, <2>4, <2>5, <2>6 DEF UpdateStep
<1>6. CASE Rewrite
  BY <1>6 DEF Rewrite, WorktreeInv, WorktreeExclusive
<1>7. CASE RemoveLock
  BY <1>7 DEF RemoveLock, WorktreeInv, WorktreeExclusive
<1>8. CASE UNCHANGED vars
  BY <1>8 DEF vars, WorktreeInv, WorktreeExclusive
<1> QED
  BY <1>1, <1>2, <1>3, <1>4, <1>5, <1>6, <1>7, <1>8 DEF Next

LEMMA WorktreeInvariant == Spec => []WorktreeInv
<1>1. Init => WorktreeInv
  BY DEF Init, WorktreeInv, WorktreeExclusive, Lockless
<1>2. FileLockInv => Control
  BY DEF FileLockInv
<1> QED
  BY <1>1, <1>2, FileLockInvariant, WorktreeInvStep, PTL DEF Spec

\* The review checkout has one user at a time: no command that takes the worktree
\* lock runs while a tuicr of another command is open, even when the Timber that
\* opened it has died (lockWorktree, and the descriptor that launch passes on).
THEOREM ExclusiveWorktree == Spec => []WorktreeExclusive
<1>1. WorktreeInv => WorktreeExclusive
  BY DEF WorktreeInv
<1> QED
  BY <1>1, WorktreeInvariant, PTL

-----------------------------------------------------------------------------
(***************************************************************************)
(* The history and what the processes remember of it.  Memory(step, c) is  *)
(* what a process with context c relies on when its next step is "step".   *)
(***************************************************************************)
Memory(step, c) ==
    /\ step \in {"begin", "resume", "launch", "tuicr", "finish", "fail"} => c.todo # <<>>
    /\ step \notin {"idle", "survey", "plan", "sample"} => c.view \in Views
    /\ step = "resume" => c.seen \notin {"approved", "auto_reviewed"}
    /\ step = "finish" => c.outcome \in Outcomes
    /\ step = "approve" => c.todo \in Ranges(c.view)
    /\ step \in {"evaluate", "record"} => Range(c.todo) \subseteq Range(c.view)
    /\ step = "record" => c.todo # <<>> /\ c.outcome \in Verdicts
    /\ step \in {"lock", "clear"} => c.todo \in Ranges(c.view) \cup {<<>>}

HistoryInv ==
    /\ nextId \in Nat \ {0}
    /\ head \in Views
    /\ IsHistory(attempts, nextId - 1, Stacks)
    /\ DOMAIN draft = Proc
    /\ \A p \in Proc : IsHistory(draft[p], nextId - 1, Stacks)

MemoryInv ==
    /\ ctx \in [Proc -> Context]
    /\ \A p \in Proc : Memory(pc[p], ctx[p])

DataInv == HistoryInv /\ MemoryInv

LEMMA HistoryGrows ==
    ASSUME NEW Stack, NEW n \in Nat, NEW m \in Nat, n <= m, NEW h, IsHistory(h, n, Stack)
    PROVE  IsHistory(h, m, Stack)
BY DEF IsHistory

LEMMA ViewTyped == \A v \in Views : v \in Seq(Stacks)
BY ViewsAssumption

LEMMA BlankTyped == Blank \in Context
BY DEF Blank, Context, NoOption, None

\* A process goes to another place.
LEMMA GoKeepsMemory ==
    ASSUME NEW p \in Proc, NEW step, NEW c \in Context, Control, MemoryInv,
           pc' = [pc EXCEPT ![p] = step], ctx' = [ctx EXCEPT ![p] = c], Memory(step, c)
    PROVE  MemoryInv'
<1>1. ctx' \in [Proc -> Context]
  BY DEF MemoryInv
<1>2. \A q \in Proc : pc'[q] = (IF q = p THEN step ELSE pc[q])
                      /\ ctx'[q] = (IF q = p THEN c ELSE ctx[q])
  BY DEF MemoryInv, Control
<1>3. ASSUME NEW q \in Proc PROVE Memory(pc'[q], ctx'[q])
  <2>1. CASE q = p
    BY <1>2, <2>1
  <2>2. CASE q # p
    BY <1>2, <2>2 DEF MemoryInv
  <2> QED
    BY <2>1, <2>2
<1> QED
  BY <1>1, <1>3 DEF MemoryInv

LEMMA MoveKeepsMemory ==
    ASSUME NEW p \in Proc, NEW step, NEW c \in Context, Control, MemoryInv,
           Move(p, step, c), step \in {"idle", "plan"} \/ Memory(step, c)
    PROVE  MemoryInv'
<1>1. CASE step = "idle"
  <2>1. ctx' = [ctx EXCEPT ![p] = Blank]
    BY <1>1 DEF Move
  <2>2. Memory(step, Blank)
    BY <1>1 DEF Memory
  <2> QED
    BY <2>1, <2>2, BlankTyped, GoKeepsMemory DEF Move
<1>2. CASE step = "plan"
  <2> DEFINE d == [c EXCEPT !.view = <<>>]
  <2>1. ctx' = [ctx EXCEPT ![p] = d]
    BY <1>2 DEF Move
  <2>2. d \in Context
    BY DEF Context
  <2>3. Memory(step, d)
    BY <1>2 DEF Memory
  <2> HIDE DEF d
  <2> QED
    BY <2>1, <2>2, <2>3, GoKeepsMemory DEF Move
<1>3. CASE step \notin {"idle", "plan"}
  <2>1. ctx' = [ctx EXCEPT ![p] = c]
    BY <1>3 DEF Move
  <2> QED
    BY <1>3, <2>1, GoKeepsMemory DEF Move
<1> QED
  BY <1>1, <1>2, <1>3

LEMMA StartKeepsMemory ==
    ASSUME NEW p \in Proc, NEW step, NEW locks, NEW c \in Context, Control, MemoryInv,
           Start(p, step, locks, c), Memory(step, c)
    PROVE  MemoryInv'
BY GoKeepsMemory DEF Start

LEMMA EnterKeepsData ==
    ASSUME NEW p \in Proc, NEW step, NEW allowed \in BOOLEAN, NEW edited, NEW added \in Nat,
           Control, DataInv, Enter(p, step, allowed, edited, added),
           allowed => IsHistory(edited, nextId + added - 1, Stacks)
    PROVE  DataInv'
<1>1. nextId' \in Nat \ {0} /\ nextId <= nextId' /\ nextId \in Nat \ {0}
  BY DEF Enter, Edited, DataInv, HistoryInv
<1>2. IsHistory(IF allowed THEN edited ELSE <<>>, nextId' - 1, Stacks)
  <2>1. CASE allowed
    <3>1. nextId' = nextId + added
      BY <2>1 DEF Enter, Edited
    <3>2. (IF allowed THEN edited ELSE <<>>) = edited
      BY <2>1
    <3>3. nextId' - 1 = nextId + added - 1
      BY <1>1, <3>1
    <3>4. IsHistory(edited, nextId' - 1, Stacks)
      BY <2>1, <3>3
    <3> QED
      BY <3>2, <3>4, Zenon
  <2>2. CASE ~allowed
    BY <1>1, <2>2, EmptyTyped
  <2> QED
    BY <2>1, <2>2
<1>3. \A h : IsHistory(h, nextId - 1, Stacks) => IsHistory(h, nextId' - 1, Stacks)
  BY <1>1, HistoryGrows
<1>4. IsHistory(attempts, nextId' - 1, Stacks)
  BY <1>3 DEF DataInv, HistoryInv
<1>5. draft' = [draft EXCEPT ![p] = IF allowed THEN edited ELSE <<>>]
  BY DEF Enter, Edited
<1>6. /\ DOMAIN draft' = Proc
      /\ \A q \in Proc : IsHistory(draft'[q], nextId' - 1, Stacks)
  <2>1. DOMAIN draft' = Proc
    BY <1>5 DEF DataInv, HistoryInv
  <2>2. ASSUME NEW q \in Proc PROVE IsHistory(draft'[q], nextId' - 1, Stacks)
    <3>1. CASE q = p
      BY <1>2, <1>5, <3>1 DEF DataInv, HistoryInv
    <3>2. CASE q # p
      BY <1>3, <1>5, <3>2 DEF DataInv, HistoryInv
    <3> QED
      BY <3>1, <3>2
  <2> QED
    BY <2>1, <2>2
<1>7. ctx' \in [Proc -> Context] /\ \A q \in Proc : Memory(pc'[q], ctx'[q])
  <2>1. PICK i \in Nat : ctx' = [ctx EXCEPT ![p].current = i]
    <3>1. ctx[p] \in Context
      BY DEF DataInv, MemoryInv
    <3>2. ctx[p].current \in Nat
      BY <3>1 DEF Context
    <3> QED
      BY <1>1, <3>2 DEF Enter, Edited, DataInv, MemoryInv
  <2>2. [ctx[p] EXCEPT !.current = i] \in Context
    BY DEF DataInv, MemoryInv, Context
  <2>3. Memory(pc[p], [ctx[p] EXCEPT !.current = i])
    <3>1. ctx[p] \in Context /\ Memory(pc[p], ctx[p])
      BY DEF DataInv, MemoryInv
    <3> QED
      BY <3>1 DEF Memory, Context
  <2>4. pc' = pc
    BY DEF Enter, Edited
  <2>5. ASSUME NEW q \in Proc PROVE Memory(pc'[q], ctx'[q])
    BY <2>1, <2>3, <2>4 DEF DataInv, MemoryInv
  <2> QED
    BY <2>1, <2>2, <2>5 DEF DataInv, MemoryInv
<1> QED
  BY <1>1, <1>4, <1>6, <1>7 DEF DataInv, HistoryInv, MemoryInv, Enter, Edited

-----------------------------------------------------------------------------
(***************************************************************************)
(* ReviewLedger reads a history by the same rules.                         *)
(***************************************************************************)
LEMMA SameReading ==
    /\ \A h, v : Ledger!ActiveAttempts(v, h) = ActiveAttempts(v, h)
    /\ \A a, v : Ledger!Unusable(a, v) = Unusable(a, v)
    /\ \A h, v, selected : Ledger!ApprovalAllowed(selected, v, h) = ApprovalAllowed(selected, v, h)
    /\ \A a, selected : Ledger!ResetsAttempt(a, selected) = ResetsAttempt(a, selected)
<1> USE DEF Ledger!None, None, Ledger!NoStack, NoStack
<1> USE DEF Ledger!SameStack, SameStack, Ledger!SamePatch, SamePatch
<1> USE DEF Ledger!SameMessage, SameMessage, Ledger!SharesLineage, SharesLineage
<1>1. \A a, v : Ledger!Unusable(a, v) = Unusable(a, v)
  BY DEF Ledger!Unusable, Unusable, Ledger!Unfinished, Unfinished, Ledger!Superseded, Superseded,
         Ledger!Lost, Lost, Ledger!ExtendsStack, ExtendsStack
<1>2. \A h, v : Ledger!ActiveAttempts(v, h) = ActiveAttempts(v, h)
  BY <1>1 DEF Ledger!ActiveAttempts, ActiveAttempts
<1>3. \A h, s : Ledger!StatusOf(h, s) = StatusOf(h, s)
  <2>1. /\ \A a, s : Ledger!Matches(a, s) = Matches(a, s)
        /\ \A a, s : Ledger!Resets(a, s) = Resets(a, s)
    BY DEF Ledger!Matches, Matches, Ledger!Resets, Resets
  <2>2. \A a, s : Ledger!Decides(a, s) = Decides(a, s)
    BY <2>1 DEF Ledger!Decides, Decides
  <2>3. \A S : Ledger!Newest(S) = Newest(S)
    BY DEF Ledger!Newest, Newest, Ledger!Max, Max
  <2>4. \A h, s : {i \in DOMAIN h : Ledger!Decides(h[i], s)} = {i \in DOMAIN h : Decides(h[i], s)}
    BY <2>2
  <2>5. \A h, s : Ledger!Latest(h, s) = Latest(h, s)
    BY <2>1, <2>3, <2>4 DEF Ledger!Latest, Latest
  <2> QED
    BY <2>5 DEF Ledger!StatusOf, StatusOf
<1>4. \A h, v, selected : Ledger!ApprovalAllowed(selected, v, h) = ApprovalAllowed(selected, v, h)
  BY <1>2, <1>3 DEF Ledger!ApprovalAllowed, ApprovalAllowed
<1>5. \A a, selected : Ledger!ResetsAttempt(a, selected) = ResetsAttempt(a, selected)
  BY DEF Ledger!ResetsAttempt, ResetsAttempt, Ledger!Matches, Matches
<1> QED
  BY <1>1, <1>2, <1>4, <1>5

LEMMA SameEditing ==
    /\ \A h, prior, i, s : Ledger!Begun(h, prior, i, s) = Begun(h, prior, i, s)
    /\ \A h, i, status : Ledger!WithStatus(h, i, status) = WithStatus(h, i, status)
    /\ \A h, i, outcome : Ledger!Finished(h, i, outcome) = Finished(h, i, outcome)
    /\ \A h, i, selected : Ledger!Approved(h, i, selected) = Approved(h, i, selected)
    /\ \A h, i, a : Ledger!Add(h, i, a) = Add(h, i, a)
    /\ \A s, status, source : Ledger!NewAttempt(s, status, source) = NewAttempt(s, status, source)
    /\ \A h, v : Ledger!Discarded(h, v) = Discarded(h, v)
    /\ \A h, selected : Ledger!Cleared(h, selected) = Cleared(h, selected)
    /\ \A v : Ledger!Ranges(v) = Ranges(v) /\ Ledger!Range(v) = Range(v)
<1> USE DEF Ledger!NoStack, NoStack, Ledger!NewAttempt, NewAttempt, Ledger!Add, Add
<1> USE DEF Ledger!Restrict, Restrict, Ledger!WithStatus, WithStatus
<1>1. \A h, prior, i, s : Ledger!Begun(h, prior, i, s) = Begun(h, prior, i, s)
  BY DEF Ledger!Begun, Begun
<1>2. \A h, i, status : Ledger!WithStatus(h, i, status) = WithStatus(h, i, status)
  OBVIOUS
<1>3. \A h, i, outcome : Ledger!Finished(h, i, outcome) = Finished(h, i, outcome)
  BY DEF Ledger!Finished, Finished
<1>4. \A h, i, selected : Ledger!Approved(h, i, selected) = Approved(h, i, selected)
  BY DEF Ledger!Approved, Approved
<1>5. /\ \A h, i, a : Ledger!Add(h, i, a) = Add(h, i, a)
      /\ \A s, status, source : Ledger!NewAttempt(s, status, source) = NewAttempt(s, status, source)
  OBVIOUS
<1>6. \A h, v : Ledger!Discarded(h, v) = Discarded(h, v)
  BY SameReading DEF Ledger!Discarded, Discarded
<1>7. \A h, selected : Ledger!Cleared(h, selected) = Cleared(h, selected)
  BY SameReading DEF Ledger!Cleared, Cleared
<1>8. \A v : Ledger!Ranges(v) = Ranges(v) /\ Ledger!Range(v) = Range(v)
  BY DEF Ledger!Ranges, Ranges, Ledger!Range, Range
<1> QED
  BY <1>1, <1>2, <1>3, <1>4, <1>5, <1>6, <1>7, <1>8

-----------------------------------------------------------------------------
(***************************************************************************)
(* Each command hands Store.Update one edit of the history in the file.    *)
(***************************************************************************)
IsEdit(edited) == edited = attempts \/ Ledger!Edit(attempts, edited)

EntersEdit(p) ==
    \E step, edited : \E allowed \in BOOLEAN, added \in Nat :
        /\ Enter(p, step, allowed, edited, added)
        /\ allowed => IsHistory(edited, nextId + added - 1, Stacks) /\ IsEdit(edited)

\* The next position is free.
LEMMA FreePosition ==
    DataInv => /\ nextId \notin DOMAIN attempts /\ None \notin DOMAIN attempts
               /\ nextId - 1 \in Nat /\ (nextId - 1) + 1 = nextId
BY DEF DataInv, HistoryInv, IsHistory, None

LEMMA DiscardEdits ==
    ASSUME NEW p \in Proc, DataInv, Discard(p) PROVE EntersEdit(p)
<1> DEFINE edited == Discarded(attempts, ctx[p].view)
<1>1. ctx[p].view \in Views
  BY DEF Discard, Enter, Edited, DataInv, MemoryInv, Memory
<1>2. Ledger!Edit(attempts, edited)
  BY <1>1, SameEditing DEF Ledger!Edit, Ledger!Discards
<1>3. IsHistory(edited, nextId + 0 - 1, Stacks)
  <2>1. nextId + 0 - 1 = nextId - 1
    BY FreePosition DEF DataInv, HistoryInv
  <2>2. IsHistory(edited, nextId - 1, Stacks)
    BY FreePosition, DiscardedTyped DEF DataInv, HistoryInv
  <2> QED
    BY <2>1, <2>2
<1>4. Enter(p, "discard", TRUE, edited, 0)
  BY DEF Discard
<1> QED
  BY <1>2, <1>3, <1>4 DEF EntersEdit, IsEdit

LEMMA BeginEdits ==
    ASSUME NEW p \in Proc, DataInv, Begin(p) PROVE EntersEdit(p)
<1> DEFINE c == ctx[p]
           edited == Begun(attempts, c.prior, nextId, c.todo[1])
           allowed == head = c.view /\ OnlyActive(c.view, attempts, c.prior)
<1>1. c.todo \in Seq(Stacks) /\ c.todo # <<>>
  BY DEF Begin, Enter, Edited, DataInv, MemoryInv, Memory, Context
<1>2. c.todo[1] \in Stacks
  BY <1>1
<1>3. PICK prior \in DOMAIN attempts \cup {None} :
         edited = Begun(attempts, prior, nextId, c.todo[1])
  <2>1. CASE c.prior \in DOMAIN attempts
    BY <2>1
  <2>2. CASE c.prior \notin DOMAIN attempts
    BY <2>2, FreePosition DEF Begun
  <2> QED
    BY <2>1, <2>2
<1>4. nextId \in DOMAIN edited \ DOMAIN attempts
  BY FreePosition DEF Begun, Add
<1>5. Ledger!Edit(attempts, edited)
  <2> HIDE DEF edited, c
  <2>1. Ledger!Begun(attempts, prior, nextId, c.todo[1]) = edited
    BY <1>3, SameEditing
  <2>2. Ledger!None = None
    BY DEF Ledger!None, None
  <2> QED
    BY <1>2, <1>4, <2>1, <2>2 DEF Ledger!Edit, Ledger!Opens
<1>6. IsHistory(edited, nextId + 1 - 1, Stacks)
  <2>1. IsHistory(Begun(attempts, c.prior, (nextId - 1) + 1, c.todo[1]), (nextId - 1) + 1, Stacks)
    <3> HIDE DEF c
    <3> QED
      BY <1>2, FreePosition, BegunTyped DEF DataInv, HistoryInv
  <2>2. nextId + 1 - 1 = nextId
    BY DEF DataInv, HistoryInv
  <2> QED
    BY <2>1, <2>2, FreePosition
<1>7. Enter(p, "begin", allowed, edited, 1)
  BY DEF Begin
<1>8. allowed \in BOOLEAN
  OBVIOUS
<1> HIDE DEF edited, allowed
<1> QED
  BY <1>5, <1>6, <1>7, <1>8 DEF EntersEdit, IsEdit
\* An edit that adds no attempt.
LEMMA EntersInPlace ==
    ASSUME NEW p \in Proc, NEW step, NEW edited, NEW allowed \in BOOLEAN, DataInv,
           Enter(p, step, allowed, edited, 0),
           allowed => IsHistory(edited, nextId - 1, Stacks) /\ IsEdit(edited)
    PROVE  EntersEdit(p)
<1>1. nextId + 0 - 1 = nextId - 1
  BY FreePosition DEF DataInv, HistoryInv
<1>2. allowed => IsHistory(edited, nextId + 0 - 1, Stacks) /\ IsEdit(edited)
  BY <1>1
<1> QED
  BY <1>2 DEF EntersEdit

\* A review reopens an attempt only while its status is the one that the plan saw,
\* and the plan takes up no approved attempt.
LEMMA ResumeEdits ==
    ASSUME NEW p \in Proc, DataInv, Resume(p) PROVE EntersEdit(p)
<1> DEFINE c == ctx[p]
           known == c.prior \in DOMAIN attempts /\ attempts[c.prior].status = c.seen
           allowed == OnlyActive(c.view, attempts, c.prior) /\ known
           edited == IF known THEN WithStatus(attempts, c.prior, "reviewing") ELSE <<>>
<1>1. c.seen \notin {"approved", "auto_reviewed"}
  BY DEF Resume, Enter, Edited, DataInv, MemoryInv, Memory
<1>2. ASSUME known PROVE IsHistory(edited, nextId - 1, Stacks) /\ IsEdit(edited)
  <2>1. edited = WithStatus(attempts, c.prior, "reviewing")
    BY <1>2
  <2>2. c.prior \in DOMAIN attempts /\ attempts[c.prior].status \notin {"approved", "auto_reviewed"}
    BY <1>1, <1>2
  <2> HIDE DEF edited, c
  <2>3. IsHistory(WithStatus(attempts, c.prior, "reviewing"), nextId - 1, Stacks)
    BY <2>2, FreePosition, WithStatusTyped DEF DataInv, HistoryInv, Statuses
  <2>4. Ledger!Edit(attempts, WithStatus(attempts, c.prior, "reviewing"))
    BY <2>2, SameEditing DEF Ledger!Edit, Ledger!Reopens
  <2> QED
    BY <2>1, <2>3, <2>4 DEF IsEdit
<1>3. Enter(p, "resume", allowed, edited, 0)
  BY DEF Resume
<1>4. allowed \in BOOLEAN /\ (allowed => known)
  OBVIOUS
<1> HIDE DEF edited, allowed, known
<1> QED
  BY <1>2, <1>3, <1>4, EntersInPlace

LEMMA FinishEdits ==
    ASSUME NEW p \in Proc, DataInv, Finish(p) PROVE EntersEdit(p)
<1> DEFINE c == ctx[p]
           open == c.current \in DOMAIN attempts /\ attempts[c.current].status = "reviewing"
           edited == IF open THEN Finished(attempts, c.current, c.outcome) ELSE <<>>
<1>1. c.outcome \in Outcomes
  BY DEF Finish, Enter, Edited, DataInv, MemoryInv, Memory
<1>2. ASSUME open PROVE IsHistory(edited, nextId - 1, Stacks) /\ IsEdit(edited)
  <2>1. edited = Finished(attempts, c.current, c.outcome)
    BY <1>2
  <2>2. c.current \in DOMAIN attempts /\ attempts[c.current].status = "reviewing"
    BY <1>2
  <2> HIDE DEF edited, c
  <2>3. IsHistory(Finished(attempts, c.current, c.outcome), nextId - 1, Stacks)
    BY <1>1, <2>2, FreePosition, FinishedTyped DEF DataInv, HistoryInv
  <2>4. Ledger!Outcomes = Outcomes
    BY DEF Ledger!Outcomes, Outcomes
  <2>5. Ledger!Edit(attempts, Finished(attempts, c.current, c.outcome))
    BY <1>1, <2>2, <2>4, SameEditing DEF Ledger!Edit, Ledger!Closes
  <2> QED
    BY <2>1, <2>3, <2>5 DEF IsEdit
<1>3. Enter(p, "finish", open, edited, 0)
  BY DEF Finish
<1>4. open \in BOOLEAN
  OBVIOUS
<1> HIDE DEF edited, open
<1> QED
  BY <1>2, <1>3, <1>4, EntersInPlace

LEMMA FailEdits ==
    ASSUME NEW p \in Proc, DataInv, Fail(p) PROVE EntersEdit(p)
<1> DEFINE c == ctx[p]
           known == c.current \in DOMAIN attempts
           edited == IF known THEN Failed(attempts, c.current) ELSE <<>>
<1>1. ASSUME known, attempts[c.current].status = "reviewing"
      PROVE  IsHistory(edited, nextId - 1, Stacks) /\ IsEdit(edited)
  <2>1. edited = Finished(attempts, c.current, "incomplete") /\ "incomplete" \in Outcomes
    BY <1>1 DEF Failed, Finished, Outcomes
  <2>2. c.current \in DOMAIN attempts /\ attempts[c.current].status = "reviewing"
    BY <1>1
  <2> HIDE DEF edited, c
  <2>3. IsHistory(Finished(attempts, c.current, "incomplete"), nextId - 1, Stacks)
    BY <2>1, <2>2, FreePosition, FinishedTyped DEF DataInv, HistoryInv
  <2>4. Ledger!Outcomes = Outcomes
    BY DEF Ledger!Outcomes, Outcomes
  <2>5. Ledger!Edit(attempts, Finished(attempts, c.current, "incomplete"))
    BY <2>1, <2>2, <2>4, SameEditing DEF Ledger!Edit, Ledger!Closes
  <2> QED
    BY <2>1, <2>3, <2>5 DEF IsEdit
<1>2. ASSUME known, attempts[c.current].status # "reviewing"
      PROVE  IsHistory(edited, nextId - 1, Stacks) /\ IsEdit(edited)
  <2>1. edited = attempts
    BY <1>2 DEF Failed
  <2> QED
    BY <2>1 DEF IsEdit, DataInv, HistoryInv
<1>3. Enter(p, "fail", known, edited, 0)
  BY DEF Fail
<1>4. known \in BOOLEAN
  OBVIOUS
<1> HIDE DEF edited, known
<1> QED
  BY <1>1, <1>2, <1>3, <1>4, EntersInPlace

LEMMA ApproveEdits ==
    ASSUME NEW p \in Proc, DataInv, Approve(p) PROVE EntersEdit(p)
<1> DEFINE c == ctx[p]
           allowed == ApprovalAllowed(c.todo, c.view, attempts) /\ head = c.view
           edited == Approved(attempts, nextId, c.todo)
<1>1. c.view \in Views /\ c.todo \in Ranges(c.view)
  BY DEF Approve, Enter, Edited, DataInv, MemoryInv, Memory
<1>2. c.todo \in Seq(Stacks) /\ c.todo # <<>>
  BY <1>1, ViewTyped, RangesTyped
<1>3. Len(c.todo) \in Nat /\ Len(c.todo) >= 1
  BY <1>2
<1>4. nextId \in DOMAIN edited \ DOMAIN attempts
  BY <1>3, FreePosition DEF Approved, DataInv, HistoryInv
<1>5. ASSUME allowed PROVE Ledger!Edit(attempts, edited)
  <2>1. ApprovalAllowed(c.todo, c.view, attempts)
    BY <1>5
  <2>2. Ledger!Approved(attempts, nextId, c.todo) = edited
    BY SameEditing
  <2> HIDE DEF edited, c
  <2> QED
    BY <1>1, <1>4, <2>1, <2>2, SameEditing, SameReading DEF Ledger!Edit, Ledger!Approves
<1>6. IsHistory(edited, nextId + Len(c.todo) - 1, Stacks)
  <2>1. IsHistory(Approved(attempts, (nextId - 1) + 1, c.todo), (nextId - 1) + Len(c.todo), Stacks)
    <3> HIDE DEF c
    <3> QED
      BY <1>2, FreePosition, ApprovedTyped DEF DataInv, HistoryInv
  <2>2. nextId + Len(c.todo) - 1 = (nextId - 1) + Len(c.todo)
    BY <1>3 DEF DataInv, HistoryInv
  <2> QED
    BY <2>1, <2>2, FreePosition
<1>7. Enter(p, "approve", allowed, edited, Len(c.todo))
  BY DEF Approve
<1>8. allowed \in BOOLEAN
  BY DEF ApprovalAllowed
<1> HIDE DEF edited, allowed, c
<1> QED
  BY <1>3, <1>5, <1>6, <1>7, <1>8 DEF EntersEdit, IsEdit

LEMMA RecordEdits ==
    ASSUME NEW p \in Proc, DataInv, Record(p) PROVE EntersEdit(p)
<1> DEFINE c == ctx[p]
           s == c.todo[1]
           approves == c.outcome = "approve"
           result == NewAttempt(s, IF approves THEN "approved" ELSE "auto_reviewed", "model")
           edited == Add(attempts, nextId, result)
           allowed == /\ approves => ApprovalAllowed(<<s>>, c.view, attempts)
                      /\ head = c.view
<1>1. /\ c.view \in Views /\ Range(c.todo) \subseteq Range(c.view)
      /\ c.todo \in Seq(Stacks) /\ c.todo # <<>>
  BY DEF Record, Enter, Edited, DataInv, MemoryInv, Memory, Context
<1>2. s \in Stacks /\ s \in Range(c.view)
  <2>1. 1 \in DOMAIN c.todo /\ s \in Stacks
    BY <1>1
  <2>2. s \in Range(c.todo)
    BY <2>1 DEF Range
  <2> QED
    BY <1>1, <2>1, <2>2
<1>3. result \in Attempt(Stacks)
  <2>1. "approved" \in Statuses /\ "auto_reviewed" \in Statuses /\ "model" \in Sources
    BY DEF Statuses, Sources
  <2> QED
    BY <1>2, <2>1, NewAttemptTyped
<1>4. nextId \in DOMAIN edited \ DOMAIN attempts
  BY FreePosition DEF Add
<1>5. ASSUME allowed PROVE Ledger!Edit(attempts, edited)
  <2>1. Ledger!Range(c.view) = Range(c.view)
    BY SameEditing
  <2>2. CASE approves
    <3>1. ApprovalAllowed(<<s>>, c.view, attempts)
      BY <1>5, <2>2
    <3>2. edited = Ledger!Add(attempts, nextId, Ledger!NewAttempt(s, "approved", "model"))
      BY <2>2, SameEditing
    <3> HIDE DEF edited, s, c
    <3> QED
      BY <1>1, <1>2, <1>4, <2>1, <3>1, <3>2, SameReading DEF Ledger!Edit, Ledger!Assesses
  <2>3. CASE ~approves
    <3>1. edited = Ledger!Add(attempts, nextId, Ledger!NewAttempt(s, "auto_reviewed", "model"))
      BY <2>3, SameEditing
    <3> HIDE DEF edited, s, c
    <3> QED
      BY <1>1, <1>2, <1>4, <2>1, <3>1 DEF Ledger!Edit, Ledger!Assesses
  <2> QED
    BY <2>2, <2>3
<1>6. IsHistory(edited, nextId + 1 - 1, Stacks)
  <2>1. IsHistory(Add(attempts, (nextId - 1) + 1, result), (nextId - 1) + 1, Stacks)
    <3> HIDE DEF result
    <3> QED
      BY <1>3, FreePosition, AddTyped DEF DataInv, HistoryInv
  <2>2. nextId + 1 - 1 = nextId
    BY DEF DataInv, HistoryInv
  <2> QED
    BY <2>1, <2>2, FreePosition
<1>7. Enter(p, "record", allowed, edited, 1)
  BY DEF Record
<1>8. allowed \in BOOLEAN
  BY DEF ApprovalAllowed
<1> HIDE DEF edited, allowed
<1> QED
  BY <1>5, <1>6, <1>7, <1>8 DEF EntersEdit, IsEdit

LEMMA ClearEdits ==
    ASSUME NEW p \in Proc, DataInv, Clear(p) PROVE EntersEdit(p)
<1> DEFINE c == ctx[p]
           edited == Cleared(attempts, c.todo)
<1>1. c.view \in Views /\ c.todo \in Ranges(c.view) \cup {<<>>}
  BY DEF Clear, Enter, Edited, DataInv, MemoryInv, Memory
<1>2. IsEdit(edited)
  <2>1. CASE c.todo \in Ranges(c.view)
    <3>1. Ledger!Cleared(attempts, c.todo) = edited /\ Ledger!Ranges(c.view) = Ranges(c.view)
      BY SameEditing
    <3> HIDE DEF edited, c
    <3> QED
      BY <1>1, <2>1, <3>1 DEF Ledger!Edit, Ledger!Resetting, IsEdit
  <2>2. CASE c.todo = <<>>
    <3>1. {i \in DOMAIN attempts : ~ResetsAttempt(attempts[i], c.todo)} = DOMAIN attempts
      <4>1. DOMAIN c.todo = {}
        BY <2>2
      <4>2. \A a : ~ResetsAttempt(a, c.todo)
        <5> HIDE DEF c
        <5> QED
          BY <4>1 DEF ResetsAttempt
      <4> QED
        BY <4>2
    <3>2. attempts = [i \in DOMAIN attempts |-> attempts[i]]
      BY DEF DataInv, HistoryInv, IsHistory
    <3> QED
      BY <3>1, <3>2 DEF Cleared, Restrict, IsEdit
  <2> QED
    BY <1>1, <2>1, <2>2
<1>3. IsHistory(edited, nextId - 1, Stacks)
  BY FreePosition, ClearedTyped DEF DataInv, HistoryInv
<1>4. Enter(p, "clear", TRUE, edited, 0)
  BY DEF Clear
<1> HIDE DEF edited
<1> QED
  BY <1>2, <1>3, <1>4, EntersInPlace

-----------------------------------------------------------------------------
(***************************************************************************)
(* The places of the commands keep what each relies on.                    *)
(***************************************************************************)
\* The history after a step that writes no state file.
LEMMA SameHistory ==
    ASSUME HistoryInv, UNCHANGED <<attempts, nextId, head, draft>> PROVE HistoryInv'
BY DEF HistoryInv

LEMMA EntersEditKeepsData ==
    ASSUME NEW p \in Proc, Control, DataInv, EntersEdit(p) PROVE DataInv'
BY EnterKeepsData DEF EntersEdit

\* What a plan finds: a stack to open, the attempt to reopen or replace, and the
\* status that it has.
LEMMA PlanKeepsMemory ==
    ASSUME NEW p \in Proc, Control, DataInv, PlanLoad(p) PROVE MemoryInv'
<1> DEFINE c == ctx[p]
<1>1. c \in Context /\ c.view \in Views /\ c.view \in Seq(Stacks)
  <2>1. c \in Context /\ Memory("planned", c)
    BY DEF PlanLoad, DataInv, MemoryInv
  <2>2. c.view \in Views
    BY <2>1 DEF Memory
  <2> QED
    BY <2>1, <2>2, ViewTyped
<1>2. PICK stack, prior :
        /\ stack = Planned(c.view, attempts, c.option, c.visited)
        /\ prior = IF stack = NoStack THEN None ELSE PlannedPrior(c.view, attempts, stack)
        /\ LET resumes == prior # None /\ SameStack(attempts[prior].stack, stack)
               opened  == IF resumes \/ stack = NoStack
                            THEN stack ELSE ReplacementStack(c.view, stack)
           IN  \/ /\ opened # NoStack
                  /\ Move(p, IF resumes THEN "resume" ELSE "begin",
                       [c EXCEPT !.todo = <<opened>>, !.prior = prior,
                                 !.seen = IF prior = None THEN "" ELSE attempts[prior].status,
                                 !.current = IF resumes THEN prior ELSE None])
               \/ /\ opened = NoStack \/ resumes
                  /\ Goto(p, "idle")
  BY DEF PlanLoad
<1> DEFINE resumes == prior # None /\ SameStack(attempts[prior].stack, stack)
           opened  == IF resumes \/ stack = NoStack
                        THEN stack ELSE ReplacementStack(c.view, stack)
           seen    == IF prior = None THEN "" ELSE attempts[prior].status
           next    == [c EXCEPT !.todo = <<opened>>, !.prior = prior, !.seen = seen,
                                !.current = IF resumes THEN prior ELSE None]
<1>3. opened \in Stacks \cup {NoStack}
  <2>1. stack \in Stacks \cup {NoStack}
    BY <1>1, <1>2, FreePosition, PlannedTyped DEF DataInv, HistoryInv
  <2>2. ReplacementStack(c.view, stack) \in Stacks \cup {NoStack}
    BY <1>1, ReplacementTyped
  <2> QED
    BY <2>1, <2>2
<1>4. /\ prior \in DOMAIN attempts \cup {None}
      /\ prior # None => attempts[prior] \in Attempt(Stacks)
      /\ prior # None => attempts[prior].status \notin {"approved", "auto_reviewed"}
  <2>1. DOMAIN attempts \subseteq 1 .. (nextId - 1) /\ nextId - 1 \in Nat
    BY FreePosition DEF DataInv, HistoryInv, IsHistory
  <2>2. /\ prior \in DOMAIN attempts \cup {None}
        /\ prior # None => /\ attempts[prior].status # "approved"
                           /\ \/ attempts[prior].status = "reviewing"
                              \/ attempts[prior].source # "model"
    BY <1>2, <2>1, PlannedPriorPicks
  <2>3. prior # None => attempts[prior] \in Attempt(Stacks)
    BY <2>2 DEF DataInv, HistoryInv, IsHistory
  <2> QED
    BY <2>2, <2>3 DEF Attempt
<1>5. prior \in Nat /\ None \in Nat
  BY <1>4 DEF DataInv, HistoryInv, IsHistory, None
<1>6. seen \in Statuses \cup {""} /\ seen \notin {"approved", "auto_reviewed"}
  BY <1>4 DEF Attempt
<1>7. ASSUME opened # NoStack, Move(p, IF resumes THEN "resume" ELSE "begin", next)
      PROVE  MemoryInv'
  <2>1. <<opened>> \in Seq(Stacks) /\ <<opened>> # <<>>
    <3>1. opened \in Stacks
      BY <1>3, <1>7
    <3> HIDE DEF opened
    <3> QED
      BY <3>1
  <2> HIDE DEF opened, seen, resumes, c
  <2>2. next \in Context
    BY <1>1, <1>5, <1>6, <2>1 DEF Context
  <2>3. Memory("resume", next) /\ Memory("begin", next)
    <3>1. next.view = c.view /\ next.todo = <<opened>> /\ next.seen = seen
      BY <1>1 DEF Context
    <3> QED
      BY <1>1, <1>6, <2>1, <3>1 DEF Memory
  <2> QED
    <3> HIDE DEF next
    <3>1. CASE resumes
      BY <1>7, <2>2, <2>3, <3>1, MoveKeepsMemory DEF DataInv
    <3>2. CASE ~resumes
      BY <1>7, <2>2, <2>3, <3>2, MoveKeepsMemory DEF DataInv
    <3> QED
      BY <3>1, <3>2
<1>8. ASSUME Goto(p, "idle") PROVE MemoryInv'
  BY <1>1, <1>8, MoveKeepsMemory DEF Goto, DataInv
<1> QED
  BY <1>2, <1>7, <1>8
\* Review commands: from the survey to the end of tuicr.
LEMMA ReviewKeepsMemory ==
    ASSUME NEW p \in Proc, Control, DataInv,
           \/ StartReview(p) \/ SurveyHead(p) \/ SurveyLoad(p) \/ PlanHead(p)
           \/ Launch(p) \/ LaunchFails(p) \/ TuicrQuits(p) \/ TuicrFails(p)
    PROVE  MemoryInv'
<1>1. MemoryInv /\ ctx[p] \in Context /\ Memory(pc[p], ctx[p])
  BY DEF DataInv, MemoryInv
<1>2. head \in Views
  BY DEF DataInv, HistoryInv
<1>3. CASE StartReview(p)
  <2>1. PICK o \in Options : Start(p, "survey", TRUE, [Blank EXCEPT !.option = o])
    BY <1>3 DEF StartReview
  <2>2. [Blank EXCEPT !.option = o] \in Context
    BY BlankTyped DEF Context
  <2>3. Memory("survey", [Blank EXCEPT !.option = o])
    BY DEF Memory
  <2> QED
    BY <1>1, <2>1, <2>2, <2>3, StartKeepsMemory
<1> DEFINE seen == [ctx[p] EXCEPT !.view = head]
<1>4. seen \in Context /\ seen.view \in Views
  BY <1>1, <1>2 DEF Context
<1>5. CASE SurveyHead(p)
  <2>1. Memory("surveyed", seen)
    BY <1>4 DEF Memory
  <2> QED
    BY <1>1, <1>4, <1>5, <2>1, MoveKeepsMemory DEF SurveyHead
<1>6. CASE SurveyLoad(p)
  <2>1. Memory("discard", ctx[p])
    BY <1>1, <1>6 DEF SurveyLoad, Memory
  <2>2. Goto(p, "plan") \/ Goto(p, "discard")
    BY <1>6 DEF SurveyLoad
  <2> QED
    BY <1>1, <2>1, <2>2, MoveKeepsMemory DEF Goto
<1>7. CASE PlanHead(p)
  <2>1. Memory("planned", seen)
    BY <1>4 DEF Memory
  <2> QED
    BY <1>1, <1>4, <1>7, <2>1, MoveKeepsMemory DEF PlanHead
<1>8. CASE Launch(p) \/ LaunchFails(p)
  <2>1. Memory("tuicr", ctx[p]) /\ Memory("fail", ctx[p])
    BY <1>1, <1>8 DEF Launch, LaunchFails, Memory
  <2> QED
    BY <1>1, <1>8, <2>1, MoveKeepsMemory DEF Launch, LaunchFails, Goto
<1>9. CASE TuicrQuits(p)
  <2>1. PICK outcome \in Outcomes : Move(p, "finish", [ctx[p] EXCEPT !.outcome = outcome])
    BY <1>9 DEF TuicrQuits
  <2>2. [ctx[p] EXCEPT !.outcome = outcome] \in Context
    BY <1>1 DEF Context
  <2>3. Memory("finish", [ctx[p] EXCEPT !.outcome = outcome])
    BY <1>1, <1>9 DEF TuicrQuits, Memory, Context
  <2> QED
    BY <1>1, <2>1, <2>2, <2>3, MoveKeepsMemory
<1>10. CASE TuicrFails(p)
  <2>1. Memory("fail", ctx[p])
    BY <1>1, <1>10 DEF TuicrFails, Memory
  <2> QED
    BY <1>1, <1>10, <2>1, MoveKeepsMemory DEF TuicrFails, Goto
<1> QED
  BY <1>3, <1>5, <1>6, <1>7, <1>8, <1>9, <1>10

\* Approve, auto and reset: the stacks that they treat are stacks of their view.
LEMMA SelectionKeepsMemory ==
    ASSUME NEW p \in Proc, Control, DataInv,
           StartApprove(p) \/ StartReset(p) \/ LockReset(p)
    PROVE  MemoryInv'
<1>1. MemoryInv /\ ctx[p] \in Context /\ Memory(pc[p], ctx[p]) /\ DOMAIN ctx = Proc
  BY DEF DataInv, MemoryInv
<1>2. head \in Views /\ head \in Seq(Stacks)
  BY ViewTyped DEF DataInv, HistoryInv
<1>3. ASSUME NEW todo \in Seq(Stacks)
      PROVE  LET c == [Blank EXCEPT !.view = head, !.todo = todo]
             IN  c \in Context /\ c.view = head /\ c.todo = todo
  BY <1>2, BlankTyped DEF Context
<1>4. CASE StartApprove(p)
  <2>1. PICK todo \in Ranges(head) :
           Start(p, "approve", FALSE, [Blank EXCEPT !.view = head, !.todo = todo])
    BY <1>4 DEF StartApprove
  <2>2. todo \in Seq(Stacks)
    BY <1>2, RangesTyped
  <2>3. Memory("approve", [Blank EXCEPT !.view = head, !.todo = todo])
    BY <1>2, <1>3, <2>2 DEF Memory
  <2> QED
    BY <1>1, <1>3, <2>1, <2>2, <2>3, StartKeepsMemory
<1>5. CASE StartReset(p)
  <2>1. PICK todo \in {head} \cup {<<head[i]>> : i \in DOMAIN head} :
           Start(p, "lock", FALSE, [Blank EXCEPT !.view = head, !.todo = todo])
    BY <1>5 DEF StartReset
  <2>2. todo \in Ranges(head) \cup {<<>>}
    BY <1>2, <2>1, WholeIsRange, SingleIsRange
  <2>3. todo \in Seq(Stacks)
    BY <1>2, <2>2, RangesTyped
  <2>4. Memory("lock", [Blank EXCEPT !.view = head, !.todo = todo])
    BY <1>2, <1>3, <2>2, <2>3 DEF Memory
  <2> QED
    BY <1>1, <1>3, <2>1, <2>3, <2>4, StartKeepsMemory
<1>6. CASE LockReset(p)
  <2>1. Memory("clear", ctx[p])
    BY <1>1, <1>6 DEF LockReset, Memory
  <2>2. CASE FlockFree
    <3>1. pc' = [pc EXCEPT ![p] = "clear"] /\ ctx' = [ctx EXCEPT ![p] = ctx[p]]
      BY <1>1, <1>6, <2>2 DEF LockReset, MemoryInv
    <3> QED
      BY <1>1, <2>1, <3>1, GoKeepsMemory
  <2>3. CASE ~FlockFree
    BY <1>1, <1>6, <2>3, MoveKeepsMemory DEF LockReset, Goto
  <2> QED
    BY <2>2, <2>3
<1> QED
  BY <1>4, <1>5, <1>6

LEMMA AutoKeepsMemory ==
    ASSUME NEW p \in Proc, Control, DataInv,
           \/ StartAuto(p) \/ SampleHead(p) \/ SampleLoad(p)
           \/ Evaluate(p) \/ SkipStack(p) \/ EndAuto(p)
    PROVE  MemoryInv'
<1>1. MemoryInv /\ ctx[p] \in Context /\ Memory(pc[p], ctx[p])
  BY DEF DataInv, MemoryInv
<1>2. head \in Views
  BY DEF DataInv, HistoryInv
<1>3. CASE StartAuto(p)
  <2>1. Memory("sample", Blank)
    BY DEF Memory
  <2> QED
    BY <1>1, <1>3, <2>1, BlankTyped, StartKeepsMemory DEF StartAuto
<1>4. CASE SampleHead(p)
  <2>1. [ctx[p] EXCEPT !.view = head] \in Context
    BY <1>1, <1>2 DEF Context
  <2>2. Memory("sampled", [ctx[p] EXCEPT !.view = head])
    BY <1>1, <1>2 DEF Context, Memory
  <2> QED
    BY <1>1, <1>4, <2>1, <2>2, MoveKeepsMemory DEF SampleHead
<1>5. CASE SampleLoad(p)
  <2> DEFINE view == ctx[p].view
             reviewed == {i \in DOMAIN view : Latest(attempts, view[i]) # None}
             visited == {Key(view[i]) : i \in reviewed}
  <2>1. view \in Views /\ view \in Seq(Stacks)
    <3>1. view \in Views
      BY <1>1, <1>5 DEF SampleLoad, Memory
    <3> QED
      BY <3>1, ViewTyped
  <2>2. visited \in SUBSET {Key(s) : s \in Stacks}
    <3>1. \A i \in DOMAIN view : view[i] \in Stacks
      BY <2>1
    <3> QED
      BY <3>1
  <2>3. ASSUME NEW todo \in Ranges(view) \cup ({view} \cap {<<>>}),
               Move(p, "evaluate", [ctx[p] EXCEPT !.todo = todo, !.visited = visited])
        PROVE  MemoryInv'
    <3> DEFINE c == [ctx[p] EXCEPT !.todo = todo, !.visited = visited]
    <3>1. todo \in Seq(Stacks) /\ Range(todo) \subseteq Range(view)
      BY <2>1, RangesTyped
    <3> HIDE DEF visited
    <3>2. c \in Context /\ c.view = view /\ c.todo = todo
      BY <1>1, <2>2, <3>1 DEF Context
    <3> HIDE DEF c, view
    <3>3. Memory("evaluate", c)
      BY <2>1, <3>1, <3>2 DEF Memory
    <3> QED
      BY <1>1, <2>3, <3>2, <3>3, MoveKeepsMemory DEF c
  <2>4. CASE ActiveAttempts(view, attempts) # {}
    BY <1>1, <1>5, <2>4, MoveKeepsMemory DEF SampleLoad, Goto
  <2>5. CASE ActiveAttempts(view, attempts) = {}
    BY <1>5, <2>3, <2>5 DEF SampleLoad
  <2> QED
    BY <2>4, <2>5
<1>6. CASE Evaluate(p)
  <2>1. PICK verdict \in Verdicts : Move(p, "record", [ctx[p] EXCEPT !.outcome = verdict])
    BY <1>6 DEF Evaluate
  <2>2. [ctx[p] EXCEPT !.outcome = verdict] \in Context
    BY <1>1 DEF Context
  <2>3. Memory("record", [ctx[p] EXCEPT !.outcome = verdict])
    BY <1>1, <1>6 DEF Evaluate, Memory, Context
  <2> QED
    BY <1>1, <2>1, <2>2, <2>3, MoveKeepsMemory
<1>7. CASE SkipStack(p)
  <2> DEFINE c == [ctx[p] EXCEPT !.todo = Tail(ctx[p].todo)]
  <2>1. ctx[p].todo \in Seq(Stacks) /\ ctx[p].todo # <<>>
    BY <1>1, <1>7 DEF SkipStack, Context
  <2>2. /\ Tail(ctx[p].todo) \in Seq(Stacks)
        /\ Range(Tail(ctx[p].todo)) \subseteq Range(ctx[p].todo)
    BY <2>1, TailTyped
  <2>3. c \in Context /\ c.view = ctx[p].view /\ c.todo = Tail(ctx[p].todo)
    BY <1>1, <2>2 DEF Context
  <2>4. Memory("evaluate", c)
    <3> HIDE DEF c
    <3> QED
      BY <1>1, <1>7, <2>2, <2>3 DEF SkipStack, Memory
  <2> QED
    BY <1>1, <1>7, <2>3, <2>4, MoveKeepsMemory DEF SkipStack
<1>8. CASE EndAuto(p)
  BY <1>1, <1>8, MoveKeepsMemory DEF EndAuto, Goto
<1> QED
  BY <1>3, <1>4, <1>5, <1>6, <1>7, <1>8
\* An update that writes nothing.
LEMMA RefusalKeepsMemory ==
    ASSUME NEW p \in Proc, Control, DataInv, Goto(p, Refused(pc[p]))
    PROVE  MemoryInv'
<1>1. MemoryInv /\ ctx[p] \in Context /\ Memory(pc[p], ctx[p])
  BY DEF DataInv, MemoryInv
<1>2. \/ Refused(pc[p]) \in {"idle", "plan"}
      \/ pc[p] = "finish" /\ Refused(pc[p]) = "fail"
  BY DEF Refused
<1>3. pc[p] = "finish" => Memory("fail", ctx[p])
  BY <1>1 DEF Memory
<1> QED
  BY <1>1, <1>2, <1>3, MoveKeepsMemory DEF Goto

\* What is left of the context after a write.
LEMMA RememberedTyped ==
    ASSUME NEW step, NEW c \in Context, Memory(step, c) PROVE Remembered(step, c) \in Context
<1>1. CASE step = "finish"
  <2> DEFINE visited == c.visited \cup {Key(c.todo[1])}
  <2>1. c.todo[1] \in Stacks
    <3>1. c.todo \in Seq(Stacks) /\ c.todo # <<>>
      BY <1>1 DEF Memory, Context
    <3> QED
      BY <3>1
  <2>2. visited \in SUBSET {Key(s) : s \in Stacks} /\ c.option \in Options \cup {NoOption}
    BY <2>1 DEF Context
  <2>3. Remembered(step, c) = [Blank EXCEPT !.option = c.option, !.visited = visited]
    BY <1>1 DEF Remembered
  <2> HIDE DEF visited
  <2>4. [Blank EXCEPT !.option = c.option, !.visited = visited] \in Context
    BY <2>2, BlankTyped DEF Context
  <2> QED
    BY <2>3, <2>4
<1>2. CASE step = "record"
  <2>1. Remembered(step, c) = [c EXCEPT !.todo = Tail(c.todo), !.outcome = ""]
    BY <1>2 DEF Remembered
  <2>2. Tail(c.todo) \in Seq(Stacks)
    BY <1>2, TailTyped DEF Memory, Context
  <2> QED
    BY <2>1, <2>2 DEF Context
<1>3. CASE step \notin {"finish", "record"}
  BY <1>3 DEF Remembered
<1> QED
  BY <1>1, <1>2, <1>3

LEMMA WriteKeepsMemory ==
    ASSUME NEW p \in Proc, Control, DataInv, Write(p)
    PROVE  MemoryInv'
<1> DEFINE c == ctx[p]
           next == Remembered(pc[p], c)
           step == Written(pc[p], c)
<1>1. MemoryInv /\ c \in Context /\ Memory(pc[p], c)
  BY DEF DataInv, MemoryInv
<1>2. Move(p, step, next)
  BY DEF Write
<1>3. CASE pc[p] = "finish"
  <2>1. next = [Blank EXCEPT !.option = c.option, !.visited = c.visited \cup {Key(c.todo[1])}]
    BY <1>3 DEF Remembered
  <2>2. step \in {"plan", "idle"}
    BY <1>3 DEF Written
  <2>4. next \in Context
    BY <1>1, RememberedTyped
  <2> HIDE DEF next, step
  <2> QED
    BY <1>1, <1>2, <2>2, <2>4, MoveKeepsMemory
<1>4. CASE pc[p] = "record"
  <2>1. next = [c EXCEPT !.todo = Tail(c.todo), !.outcome = ""] /\ step = "evaluate"
    BY <1>4 DEF Remembered, Written
  <2>2. c.todo \in Seq(Stacks) /\ c.todo # <<>>
    BY <1>1, <1>4 DEF Memory, Context
  <2>3. Tail(c.todo) \in Seq(Stacks) /\ Range(Tail(c.todo)) \subseteq Range(c.todo)
    BY <2>2, TailTyped
  <2>4. next \in Context /\ next.view = c.view /\ next.todo = Tail(c.todo)
    BY <1>1, <2>1, <2>3 DEF Context
  <2>5. Memory("evaluate", next)
    <3> HIDE DEF next
    <3> QED
      BY <1>1, <1>4, <2>3, <2>4 DEF Memory
  <2> HIDE DEF next, step
  <2> QED
    BY <1>1, <1>2, <2>1, <2>4, <2>5, MoveKeepsMemory
<1>5. CASE pc[p] \notin {"finish", "record"}
  <2>1. next = c
    BY <1>5 DEF Remembered
  <2>2. \/ step \in {"plan", "idle"}
        \/ pc[p] \in {"begin", "resume"} /\ step = "launch"
    BY <1>5 DEF Written
  <2>3. pc[p] \in {"begin", "resume"} => Memory("launch", c)
    BY <1>1 DEF Memory
  <2> HIDE DEF next, step, c
  <2> QED
    BY <1>1, <1>2, <2>1, <2>2, <2>3, MoveKeepsMemory
<1> QED
  BY <1>3, <1>4, <1>5

\* The file takes the draft of p, or stays, and the draft of p is dropped.
LEMMA DropDraftKeepsHistory ==
    ASSUME NEW p \in Proc, HistoryInv, attempts' \in {attempts, draft[p]},
           draft' = [draft EXCEPT ![p] = <<>>], UNCHANGED <<nextId, head>>
    PROVE  HistoryInv'
<1>1. IsHistory(<<>>, nextId - 1, Stacks)
  BY EmptyTyped DEF HistoryInv
<1>2. IsHistory(attempts', nextId - 1, Stacks)
  BY DEF HistoryInv
<1>3. DOMAIN draft' = Proc /\ \A q \in Proc : IsHistory(draft'[q], nextId - 1, Stacks)
  BY <1>1 DEF HistoryInv
<1> QED
  BY <1>2, <1>3 DEF HistoryInv

LEMMA DataInvStep == Control /\ DataInv /\ [Next]_vars => DataInv'
<1> SUFFICES ASSUME Control, DataInv, [Next]_vars PROVE DataInv'
  OBVIOUS
<1>0. HistoryInv /\ MemoryInv
  BY DEF DataInv
<1> USE DEF Reads
<1>1. ASSUME NEW p \in Reviewers, StartReview(p) \/ ReviewStep(p) PROVE DataInv'
  <2>0. p \in Proc
    BY DEF Proc
  <2>1. CASE \/ StartReview(p) \/ SurveyHead(p) \/ SurveyLoad(p) \/ PlanHead(p)
             \/ Launch(p) \/ LaunchFails(p) \/ TuicrQuits(p) \/ TuicrFails(p)
    <3>1. UNCHANGED <<attempts, nextId, head, draft>>
      BY <2>1 DEF StartReview, Start, SurveyHead, SurveyLoad, PlanHead, Launch, LaunchFails,
                  TuicrQuits, TuicrFails
    <3> QED
      BY <1>0, <2>0, <2>1, <3>1, SameHistory, ReviewKeepsMemory DEF DataInv
  <2>2. CASE PlanLoad(p)
    <3>1. UNCHANGED <<attempts, nextId, head, draft>>
      BY <2>2 DEF PlanLoad
    <3> QED
      BY <1>0, <2>0, <2>2, <3>1, SameHistory, PlanKeepsMemory DEF DataInv
  <2>3. CASE Discard(p) \/ Begin(p) \/ Resume(p) \/ Finish(p) \/ Fail(p)
    BY <2>0, <2>3, DiscardEdits, BeginEdits, ResumeEdits, FinishEdits, FailEdits,
       EntersEditKeepsData
  <2> QED
    BY <1>1, <2>1, <2>2, <2>3 DEF ReviewStep
<1>2. ASSUME NEW p \in Approvers, StartApprove(p) \/ Approve(p) PROVE DataInv'
  <2>0. p \in Proc
    BY DEF Proc
  <2>1. CASE StartApprove(p)
    <3>1. UNCHANGED <<attempts, nextId, head, draft>>
      BY <2>1 DEF StartApprove, Start
    <3> QED
      BY <1>0, <2>0, <2>1, <3>1, SameHistory, SelectionKeepsMemory DEF DataInv
  <2>2. CASE Approve(p)
    BY <2>0, <2>2, ApproveEdits, EntersEditKeepsData
  <2> QED
    BY <1>2, <2>1, <2>2
<1>3. ASSUME NEW p \in Autos, StartAuto(p) \/ AutoStep(p) PROVE DataInv'
  <2>0. p \in Proc
    BY DEF Proc
  <2>1. CASE \/ StartAuto(p) \/ SampleHead(p) \/ SampleLoad(p)
             \/ Evaluate(p) \/ SkipStack(p) \/ EndAuto(p)
    <3>1. UNCHANGED <<attempts, nextId, head, draft>>
      BY <2>1 DEF StartAuto, Start, SampleHead, SampleLoad, Evaluate, SkipStack, EndAuto
    <3> QED
      BY <1>0, <2>0, <2>1, <3>1, SameHistory, AutoKeepsMemory DEF DataInv
  <2>2. CASE Record(p)
    BY <2>0, <2>2, RecordEdits, EntersEditKeepsData
  <2> QED
    BY <1>3, <2>1, <2>2 DEF AutoStep
<1>4. ASSUME NEW p \in Resetters, StartReset(p) \/ ResetStep(p) PROVE DataInv'
  <2>0. p \in Proc
    BY DEF Proc
  <2>1. CASE StartReset(p) \/ LockReset(p)
    <3>1. UNCHANGED <<attempts, nextId, head, draft>>
      BY <2>1 DEF StartReset, Start, LockReset
    <3> QED
      BY <1>0, <2>0, <2>1, <3>1, SameHistory, SelectionKeepsMemory DEF DataInv
  <2>2. CASE Clear(p)
    BY <2>0, <2>2, ClearEdits, EntersEditKeepsData
  <2> QED
    BY <1>4, <2>1, <2>2 DEF ResetStep
<1>5. ASSUME NEW p \in Proc, UpdateStep(p) \/ Crash(p) \/ OrphanQuits(p) PROVE DataInv'
  <2>1. CASE Busy(p) \/ Abort(p)
    <3>1. UNCHANGED <<attempts, nextId, head, draft>> /\ Goto(p, Refused(pc[p]))
      BY <2>1 DEF Busy, Abort
    <3> QED
      BY <1>0, <3>1, SameHistory, RefusalKeepsMemory DEF DataInv
  <2>2. CASE Write(p)
    <3>1. HistoryInv'
      BY <1>0, <2>2, DropDraftKeepsHistory DEF Write
    <3> QED
      BY <2>2, <3>1, WriteKeepsMemory DEF DataInv
  <2>3. CASE Crash(p)
    <3>1. HistoryInv'
      BY <1>0, <2>3, DropDraftKeepsHistory DEF Crash
    <3>2. MemoryInv'
      BY <1>0, <2>3, MoveKeepsMemory DEF Crash, Goto, MemoryInv
    <3> QED
      BY <3>1, <3>2 DEF DataInv
  <2>4. CASE OrphanQuits(p)
    BY <2>4 DEF OrphanQuits, DataInv, HistoryInv, MemoryInv
  <2> QED
    BY <1>5, <2>1, <2>2, <2>3, <2>4 DEF UpdateStep
<1>6. CASE Rewrite
  BY <1>6 DEF Rewrite, DataInv, HistoryInv, MemoryInv
<1>7. CASE RemoveLock
  BY <1>7 DEF RemoveLock, DataInv, HistoryInv, MemoryInv
<1>8. CASE UNCHANGED vars
  BY <1>8 DEF vars, DataInv, HistoryInv, MemoryInv
<1> QED
  BY <1>1, <1>2, <1>3, <1>4, <1>5, <1>6, <1>7, <1>8 DEF Next

LEMMA DataInvariant == Spec => [](Control /\ DataInv)
<1>1. Init => DataInv
  <2>1. Init => HistoryInv
    <3> SUFFICES ASSUME Init PROVE HistoryInv
      OBVIOUS
    <3>1. nextId = 1 /\ nextId - 1 \in Nat /\ attempts = <<>> /\ draft = [p \in Proc |-> <<>>]
      BY DEF Init
    <3>2. IsHistory(<<>>, nextId - 1, Stacks)
      BY <3>1, EmptyTyped
    <3> QED
      BY <3>1, <3>2 DEF Init, HistoryInv
  <2>2. Init => MemoryInv
    BY BlankTyped DEF Init, MemoryInv, Memory
  <2> QED
    BY <2>1, <2>2 DEF DataInv
<1>2. FileLockInv => Control
  BY DEF FileLockInv
<1> QED
  BY <1>1, <1>2, FileLockInvariant, DataInvStep, PTL DEF Spec

-----------------------------------------------------------------------------
(***************************************************************************)
(* Type correctness.                                                       *)
(***************************************************************************)
BoundsInv ==
    /\ fileLock \in Proc \cup {Free, Abandoned}
    /\ runs \in 0 .. MaxRuns /\ rewrites \in 0 .. MaxRewrites /\ crashes \in 0 .. MaxCrashes

LEMMA BoundsInvStep == BoundsInv /\ [Next]_vars => BoundsInv'
<1> SUFFICES ASSUME BoundsInv, [Next]_vars PROVE BoundsInv'
  OBVIOUS
<1> USE BoundsAssumption DEF Reads, BoundsInv
<1>1. ASSUME NEW p \in Reviewers, StartReview(p) \/ ReviewStep(p) PROVE BoundsInv'
  <2>1. CASE StartReview(p)
    BY <2>1 DEF StartReview, Start
  <2>2. CASE \/ SurveyHead(p) \/ SurveyLoad(p) \/ PlanHead(p) \/ PlanLoad(p) \/ Launch(p)
             \/ LaunchFails(p) \/ TuicrQuits(p) \/ TuicrFails(p)
    BY <2>2 DEF SurveyHead, SurveyLoad, PlanHead, PlanLoad, Launch, LaunchFails, TuicrQuits,
                TuicrFails
  <2>3. CASE Discard(p) \/ Begin(p) \/ Resume(p) \/ Finish(p) \/ Fail(p)
    BY <2>3 DEF Discard, Begin, Resume, Finish, Fail, Enter, Edited, Proc
  <2> QED
    BY <1>1, <2>1, <2>2, <2>3 DEF ReviewStep
<1>2. ASSUME NEW p \in Approvers, StartApprove(p) \/ Approve(p) PROVE BoundsInv'
  <2>1. CASE StartApprove(p)
    BY <2>1 DEF StartApprove, Start
  <2>2. CASE Approve(p)
    BY <2>2 DEF Approve, Enter, Edited, Proc
  <2> QED
    BY <1>2, <2>1, <2>2
<1>3. ASSUME NEW p \in Autos, StartAuto(p) \/ AutoStep(p) PROVE BoundsInv'
  <2>1. CASE StartAuto(p)
    BY <2>1 DEF StartAuto, Start
  <2>2. CASE SampleHead(p) \/ SampleLoad(p) \/ Evaluate(p) \/ SkipStack(p) \/ EndAuto(p)
    BY <2>2 DEF SampleHead, SampleLoad, Evaluate, SkipStack, EndAuto
  <2>3. CASE Record(p)
    BY <2>3 DEF Record, Enter, Edited, Proc
  <2> QED
    BY <1>3, <2>1, <2>2, <2>3 DEF AutoStep
<1>4. ASSUME NEW p \in Resetters, StartReset(p) \/ ResetStep(p) PROVE BoundsInv'
  <2>1. CASE StartReset(p)
    BY <2>1 DEF StartReset, Start
  <2>2. CASE LockReset(p)
    BY <2>2 DEF LockReset
  <2>3. CASE Clear(p)
    BY <2>3 DEF Clear, Enter, Edited, Proc
  <2> QED
    BY <1>4, <2>1, <2>2, <2>3 DEF ResetStep
<1>5. ASSUME NEW p \in Proc, UpdateStep(p) \/ Crash(p) \/ OrphanQuits(p) PROVE BoundsInv'
  <2>1. CASE UpdateStep(p)
    BY <2>1 DEF UpdateStep, Busy, Abort, Write
  <2>2. CASE Crash(p)
    BY <2>2 DEF Crash
  <2>3. CASE OrphanQuits(p)
    BY <2>3 DEF OrphanQuits
  <2> QED
    BY <1>5, <2>1, <2>2, <2>3
<1>6. CASE Rewrite \/ RemoveLock
  BY <1>6 DEF Rewrite, RemoveLock
<1>7. CASE UNCHANGED vars
  BY <1>7 DEF vars
<1> QED
  BY <1>1, <1>2, <1>3, <1>4, <1>5, <1>6, <1>7 DEF Next

\* Every reachable state is well typed: the state file always holds a history that
\* validate accepts, and so does every draft of one.
THEOREM TypeCorrectness == Spec => []TypeOK
<1>1. Init => BoundsInv
  BY BoundsAssumption DEF Init, BoundsInv
<1>2. Control /\ DataInv /\ WorktreeInv /\ BoundsInv => TypeOK
  BY DEF Control, DataInv, HistoryInv, MemoryInv, WorktreeInv, BoundsInv, IsHistory, TypeOK
<1> QED
  BY <1>1, <1>2, BoundsInvStep, DataInvariant, WorktreeInvariant, PTL DEF Spec

-----------------------------------------------------------------------------
(***************************************************************************)
(* The state file goes through the steps of ReviewLedger.  A draft is an   *)
(* edit of the history that is in the file, from the moment that its       *)
(* process has the lock until it writes: nobody else writes meanwhile.     *)
(***************************************************************************)
DraftInv == \A p \in Proc : phase[p] = "write" => IsEdit(draft[p])

LEMMA DraftInvStep ==
    ASSUME FileLockInv, DataInv, DraftInv, [Next]_vars
    PROVE  DraftInv' /\ IsEdit(attempts')
<1>0. Control
  BY DEF FileLockInv
<1>1. ASSUME UNCHANGED <<attempts, phase, draft>> PROVE DraftInv' /\ IsEdit(attempts')
  BY <1>1 DEF DraftInv, IsEdit
<1>2. ASSUME NEW p \in Proc, EntersEdit(p) PROVE DraftInv' /\ IsEdit(attempts')
  <2>1. PICK step, edited : \E allowed \in BOOLEAN, added \in Nat :
           /\ Enter(p, step, allowed, edited, added)
           /\ allowed => IsEdit(edited)
    BY <1>2 DEF EntersEdit
  <2>0. PICK allowed \in BOOLEAN, added \in Nat :
           /\ Enter(p, step, allowed, edited, added)
           /\ allowed => IsEdit(edited)
    BY <2>1
  <2>2. attempts' = attempts /\ draft' = [draft EXCEPT ![p] = IF allowed THEN edited ELSE <<>>]
    BY <2>0 DEF Enter, Edited
  <2>3. phase' = [phase EXCEPT ![p] = IF allowed THEN "write" ELSE "abort"]
    BY <2>0 DEF Enter, Edited
  <2>4. phase'[p] = "write" => IsEdit(draft'[p])
    BY <1>0, <2>0, <2>2, <2>3 DEF Control, DataInv, HistoryInv
  <2>5. ASSUME NEW q \in Proc, q # p, phase'[q] = "write" PROVE IsEdit(draft'[q])
    BY <1>0, <2>2, <2>3, <2>5 DEF DraftInv, DataInv, HistoryInv, Control
  <2>6. \A new : IsEdit(new) <=> (new = attempts' \/ Ledger!Edit(attempts', new))
    BY <2>2 DEF IsEdit
  <2> QED
    BY <2>2, <2>4, <2>5, <2>6 DEF DraftInv, IsEdit
<1>3. ASSUME NEW p \in Proc, phase[p] # "out", phase' = [phase EXCEPT ![p] = "out"]
      PROVE  DraftInv'
  <2>1. \A q \in Proc : q # p => phase[q] = "out"
    BY <1>3 DEF FileLockInv, UpdatesAreExclusive
  <2>2. \A q \in Proc : phase'[q] = "out"
    BY <1>0, <1>3, <2>1 DEF Control
  <2> QED
    BY <2>2 DEF DraftInv
<1> USE DEF Reads
<1>4. ASSUME NEW p \in Reviewers, StartReview(p) \/ ReviewStep(p)
      PROVE  DraftInv' /\ IsEdit(attempts')
  <2>0. p \in Proc
    BY DEF Proc
  <2>1. CASE StartReview(p)
    BY <1>1, <2>1 DEF StartReview, Start
  <2>2. CASE \/ SurveyHead(p) \/ SurveyLoad(p) \/ PlanHead(p) \/ PlanLoad(p) \/ Launch(p)
             \/ LaunchFails(p) \/ TuicrQuits(p) \/ TuicrFails(p)
    BY <1>1, <2>2 DEF SurveyHead, SurveyLoad, PlanHead, PlanLoad, Launch, LaunchFails,
                      TuicrQuits, TuicrFails
  <2>3. CASE Discard(p) \/ Begin(p) \/ Resume(p) \/ Finish(p) \/ Fail(p)
    BY <1>2, <2>0, <2>3, DiscardEdits, BeginEdits, ResumeEdits, FinishEdits, FailEdits
  <2> QED
    BY <1>4, <2>1, <2>2, <2>3 DEF ReviewStep
<1>5. ASSUME NEW p \in Approvers, StartApprove(p) \/ Approve(p)
      PROVE  DraftInv' /\ IsEdit(attempts')
  <2>0. p \in Proc
    BY DEF Proc
  <2>1. CASE StartApprove(p)
    BY <1>1, <2>1 DEF StartApprove, Start
  <2>2. CASE Approve(p)
    BY <1>2, <2>0, <2>2, ApproveEdits
  <2> QED
    BY <1>5, <2>1, <2>2
<1>6. ASSUME NEW p \in Autos, StartAuto(p) \/ AutoStep(p)
      PROVE  DraftInv' /\ IsEdit(attempts')
  <2>0. p \in Proc
    BY DEF Proc
  <2>1. CASE StartAuto(p)
    BY <1>1, <2>1 DEF StartAuto, Start
  <2>2. CASE SampleHead(p) \/ SampleLoad(p) \/ Evaluate(p) \/ SkipStack(p) \/ EndAuto(p)
    BY <1>1, <2>2 DEF SampleHead, SampleLoad, Evaluate, SkipStack, EndAuto
  <2>3. CASE Record(p)
    BY <1>2, <2>0, <2>3, RecordEdits
  <2> QED
    BY <1>6, <2>1, <2>2, <2>3 DEF AutoStep
<1>7. ASSUME NEW p \in Resetters, StartReset(p) \/ ResetStep(p)
      PROVE  DraftInv' /\ IsEdit(attempts')
  <2>0. p \in Proc
    BY DEF Proc
  <2>1. CASE StartReset(p) \/ LockReset(p)
    BY <1>1, <2>1 DEF StartReset, Start, LockReset
  <2>2. CASE Clear(p)
    BY <1>2, <2>0, <2>2, ClearEdits
  <2> QED
    BY <1>7, <2>1, <2>2 DEF ResetStep
<1>8. ASSUME NEW p \in Proc, UpdateStep(p) \/ Crash(p) \/ OrphanQuits(p)
      PROVE  DraftInv' /\ IsEdit(attempts')
  <2>1. CASE Busy(p) \/ OrphanQuits(p)
    BY <1>1, <2>1 DEF Busy, OrphanQuits
  <2>2. CASE Abort(p)
    BY <1>3, <2>2 DEF Abort, IsEdit
  <2>3. CASE Write(p)
    BY <1>3, <2>3 DEF Write, DraftInv
  <2>4. CASE Crash(p)
    <3>1. IsEdit(attempts')
      BY <2>4 DEF Crash, DraftInv, IsEdit
    <3>2. CASE phase[p] # "out"
      BY <1>3, <2>4, <3>1, <3>2 DEF Crash
    <3>3. CASE phase[p] = "out"
      <4>1. attempts' = attempts /\ phase' = phase
        BY <1>0, <2>4, <3>3 DEF Crash, Control
      <4>2. \A q \in Proc : phase[q] = "write" => draft'[q] = draft[q]
        BY <2>4, <3>3 DEF Crash, DataInv, HistoryInv
      <4> QED
        BY <3>1, <4>1, <4>2 DEF DraftInv, IsEdit
    <3> QED
      BY <3>2, <3>3
  <2> QED
    BY <1>8, <2>1, <2>2, <2>3, <2>4 DEF UpdateStep
<1>9. CASE Rewrite \/ RemoveLock
  BY <1>1, <1>9 DEF Rewrite, RemoveLock
<1>10. CASE UNCHANGED vars
  BY <1>1, <1>10 DEF vars
<1> QED
  BY <1>4, <1>5, <1>6, <1>7, <1>8, <1>9, <1>10 DEF Next

\* Every write of the state file is one whole edit of the history that the file held
\* just before, whatever the interleaving, the rewrites and the crashes: no update is
\* lost, only open attempts get an outcome, an approval leaves only with a reset.
THEOREM ProtocolImplementsLedger == Spec => ImplementsLedger
<1>1. Init => Ledger!Init /\ DraftInv
  BY DEF Init, Ledger!Init, DraftInv
<1>2. FileLockInv /\ DataInv /\ DraftInv /\ [Next]_vars
        => DraftInv' /\ [Ledger!Next]_attempts
  BY DraftInvStep DEF IsEdit, Ledger!Next
<1> QED
  BY <1>1, <1>2, FileLockInvariant, DataInvariant, PTL DEF Spec, ImplementsLedger, Ledger!Spec

-----------------------------------------------------------------------------
(***************************************************************************)
(* What a write does to the history.  WriterInv says, for each command,    *)
(* what its draft is: the edit of the history that is still in the file.   *)
(* Every step of the protocol is of one of three kinds (StepKinds): it     *)
(* leaves the history and the drafts alone, it enters Store.Update, or it  *)
(* puts one draft into the file.                                           *)
(***************************************************************************)
\* A process inside Store.Update is at one of the steps that are updates.
PhaseInv == \A p \in Proc : phase[p] # "out" => pc[p] \in Updates

\* The edit that a process with context c is about to write.
DraftOf(p, c) ==
    /\ pc[p] = "discard" => draft[p] = Discarded(attempts, c.view)
    /\ pc[p] = "begin" =>
         /\ OnlyActive(c.view, attempts, c.prior)
         /\ c.current \in Nat \ (DOMAIN attempts \cup {None})
         /\ draft[p] = Begun(attempts, c.prior, c.current, c.todo[1])
    /\ pc[p] = "resume" =>
         /\ OnlyActive(c.view, attempts, c.prior)
         /\ c.prior \in DOMAIN attempts
         /\ attempts[c.prior].status = c.seen
         /\ draft[p] = WithStatus(attempts, c.prior, "reviewing")
    /\ pc[p] = "finish" =>
         /\ c.current \in DOMAIN attempts
         /\ attempts[c.current].status = "reviewing"
         /\ draft[p] = Finished(attempts, c.current, c.outcome)
    /\ pc[p] = "fail" =>
         c.current \in DOMAIN attempts /\ draft[p] = Failed(attempts, c.current)
    /\ pc[p] = "approve" =>
         /\ ApprovalAllowed(c.todo, c.view, attempts)
         /\ \A j \in DOMAIN attempts : j < nextId - Len(c.todo)
         /\ draft[p] = Approved(attempts, nextId - Len(c.todo), c.todo)
    /\ pc[p] = "record" =>
         /\ c.outcome = "approve" => ApprovalAllowed(<<c.todo[1]>>, c.view, attempts)
         /\ nextId - 1 \notin DOMAIN attempts
         /\ draft[p] = Add(attempts, nextId - 1, NewAttempt(c.todo[1],
                          IF c.outcome = "approve" THEN "approved" ELSE "auto_reviewed", "model"))
    /\ pc[p] = "clear" => p \in Resetters /\ draft[p] = Cleared(attempts, c.todo)

WriterInv == \A p \in Proc : phase[p] = "write" => DraftOf(p, ctx[p])

Quiet ==
    /\ UNCHANGED <<attempts, nextId>>
    /\ \A p \in Proc : phase'[p] # "out" =>
          /\ phase'[p] = phase[p] /\ pc'[p] = pc[p]
          /\ ctx'[p] = ctx[p] /\ draft'[p] = draft[p]

Enters(p) ==
    \/ Discard(p) \/ Begin(p) \/ Resume(p) \/ Finish(p) \/ Fail(p) \/ Approve(p) \/ Record(p)
    \/ p \in Resetters /\ Clear(p)

Replaces(p) ==
    /\ phase[p] = "write"
    /\ attempts' = draft[p]
    /\ UNCHANGED nextId
    /\ \A q \in Proc : phase'[q] = "out"

\* What the proofs below start from.
BaseInv == FileLockInv /\ WorktreeInv /\ DataInv /\ PhaseInv

LEMMA Base ==
    BaseInv => /\ Control /\ HistoryInv /\ MemoryInv
               /\ \A p \in Proc : ctx[p] \in Context /\ Memory(pc[p], ctx[p])
BY DEF BaseInv, FileLockInv, DataInv, MemoryInv

\* A step of a process that is outside Store.Update, and stays there.
LEMMA OutsideIsQuiet ==
    ASSUME BaseInv, NEW p \in Proc, pc[p] \notin Updates \/ phase[p] = "out",
           NEW step, NEW c, pc' = [pc EXCEPT ![p] = step], ctx' = [ctx EXCEPT ![p] = c],
           UNCHANGED <<attempts, nextId, phase, draft>>
    PROVE  Quiet
<1>1. phase[p] = "out"
  BY DEF BaseInv, PhaseInv
<1> QED
  BY <1>1, Base DEF Quiet, Control, MemoryInv

\* The end of an update, with or without a write.
LEMMA EndOfUpdate ==
    ASSUME BaseInv, NEW p \in Proc, phase[p] # "out", phase' = [phase EXCEPT ![p] = "out"],
           UNCHANGED nextId
    PROVE  /\ \A q \in Proc : phase'[q] = "out"
           /\ attempts' = attempts => Quiet
           /\ phase[p] = "write" /\ attempts' = draft[p] => Replaces(p)
<1>1. \A q \in Proc : q # p => phase[q] = "out"
  BY DEF BaseInv, FileLockInv, UpdatesAreExclusive
<1>2. \A q \in Proc : phase'[q] = "out"
  BY <1>1, Base DEF Control
<1> QED
  BY <1>2 DEF Quiet, Replaces

LEMMA MoveOutside ==
    ASSUME BaseInv, NEW p \in Proc, pc[p] \notin Updates \/ phase[p] = "out",
           NEW step, NEW c, Move(p, step, c), UNCHANGED <<attempts, nextId, phase, draft>>
    PROVE  Quiet
BY OutsideIsQuiet DEF Move

LEMMA StepKinds ==
    ASSUME BaseInv, [Next]_vars
    PROVE  Quiet \/ \E p \in Proc : Enters(p) \/ Replaces(p)
<1> USE DEF Reads, Goto, Updates
<1>1. ASSUME NEW p \in Reviewers, StartReview(p) \/ ReviewStep(p)
      PROVE  Quiet \/ Enters(p)
  <2>0. p \in Proc
    BY DEF Proc
  <2>1. CASE StartReview(p)
    BY <2>0, <2>1, OutsideIsQuiet DEF StartReview, Start
  <2>2. CASE PlanLoad(p)
    BY <2>0, <2>2, MoveOutside DEF PlanLoad
  <2>3. CASE SurveyHead(p) \/ SurveyLoad(p) \/ PlanHead(p) \/ Launch(p) \/ TuicrFails(p)
    BY <2>0, <2>3, MoveOutside DEF SurveyHead, SurveyLoad, PlanHead, Launch, TuicrFails
  <2>4. CASE LaunchFails(p) \/ TuicrQuits(p)
    BY <2>0, <2>4, MoveOutside DEF LaunchFails, TuicrQuits
  <2>5. CASE Discard(p) \/ Begin(p) \/ Resume(p) \/ Finish(p) \/ Fail(p)
    BY <2>5 DEF Enters
  <2> QED
    BY <1>1, <2>1, <2>2, <2>3, <2>4, <2>5 DEF ReviewStep
<1>2. ASSUME NEW p \in Approvers, StartApprove(p) \/ Approve(p) PROVE Quiet \/ Enters(p)
  <2>0. p \in Proc
    BY DEF Proc
  <2>1. CASE StartApprove(p)
    BY <2>0, <2>1, OutsideIsQuiet DEF StartApprove, Start
  <2> QED
    BY <1>2, <2>1 DEF Enters
<1>3. ASSUME NEW p \in Autos, StartAuto(p) \/ AutoStep(p) PROVE Quiet \/ Enters(p)
  <2>0. p \in Proc
    BY DEF Proc
  <2>1. CASE StartAuto(p)
    BY <2>0, <2>1, OutsideIsQuiet DEF StartAuto, Start
  <2>2. CASE SampleHead(p) \/ SampleLoad(p) \/ Evaluate(p) \/ SkipStack(p) \/ EndAuto(p)
    BY <2>0, <2>2, MoveOutside DEF SampleHead, SampleLoad, Evaluate, SkipStack, EndAuto
  <2> QED
    BY <1>3, <2>1, <2>2 DEF AutoStep, Enters
<1>4. ASSUME NEW p \in Resetters, StartReset(p) \/ ResetStep(p) PROVE Quiet \/ Enters(p)
  <2>0. p \in Proc
    BY DEF Proc
  <2>1. CASE StartReset(p)
    BY <2>0, <2>1, OutsideIsQuiet DEF StartReset, Start
  <2>2. CASE LockReset(p) /\ FlockFree
    <3>1. ctx' = [ctx EXCEPT ![p] = ctx[p]]
      BY <2>0, <2>2, Base DEF LockReset, MemoryInv
    <3> QED
      BY <2>0, <2>2, <3>1, OutsideIsQuiet DEF LockReset
  <2>3. CASE LockReset(p) /\ ~FlockFree
    BY <2>0, <2>3, MoveOutside DEF LockReset
  <2> QED
    BY <1>4, <2>1, <2>2, <2>3 DEF ResetStep, Enters
<1>5. ASSUME NEW p \in Proc, UpdateStep(p) \/ Crash(p) \/ OrphanQuits(p)
      PROVE  Quiet \/ Replaces(p)
  <2>1. CASE Busy(p)
    BY <2>1, MoveOutside DEF Busy
  <2>2. CASE Abort(p)
    BY <2>2, EndOfUpdate DEF Abort
  <2>3. CASE Write(p)
    BY <2>3, EndOfUpdate DEF Write
  <2>4. CASE Crash(p)
    <3>1. CASE phase[p] # "out"
      BY <2>4, <3>1, EndOfUpdate DEF Crash
    <3>2. CASE phase[p] = "out"
      <4>1. phase' = phase /\ attempts' = attempts
        BY <2>4, <3>2, Base DEF Crash, Control
      <4>2. \A q \in Proc : q # p => /\ pc'[q] = pc[q] /\ ctx'[q] = ctx[q]
                                     /\ draft'[q] = draft[q]
        BY <2>4, Base DEF Crash, Move, Control, MemoryInv, HistoryInv
      <4> QED
        BY <2>4, <3>2, <4>1, <4>2 DEF Crash, Quiet
    <3> QED
      BY <3>1, <3>2
  <2>5. CASE OrphanQuits(p)
    BY <2>5 DEF OrphanQuits, Quiet
  <2> QED
    BY <1>5, <2>1, <2>2, <2>3, <2>4, <2>5 DEF UpdateStep
<1>6. CASE Rewrite \/ RemoveLock
  BY <1>6 DEF Rewrite, RemoveLock, Quiet
<1>7. CASE UNCHANGED vars
  BY <1>7 DEF vars, Quiet
<1>8. Reviewers \cup Approvers \cup Autos \cup Resetters = Proc
  BY DEF Proc
<1> QED
  BY <1>1, <1>2, <1>3, <1>4, <1>5, <1>6, <1>7, <1>8 DEF Next

LEMMA PhaseInvStep == BaseInv /\ [Next]_vars => PhaseInv'
<1> SUFFICES ASSUME BaseInv, [Next]_vars PROVE PhaseInv'
  OBVIOUS
<1>1. CASE Quiet
  BY <1>1 DEF Quiet, PhaseInv, BaseInv
<1>2. ASSUME NEW p \in Proc, Enters(p) PROVE PhaseInv'
  <2>1. \E step \in Updates : \E allowed, edited, added : Enter(p, step, allowed, edited, added)
    BY <1>2 DEF Enters, Discard, Begin, Resume, Finish, Fail, Approve, Record, Clear, Updates
  <2>2. PICK step \in Updates : \E allowed, edited, added : Enter(p, step, allowed, edited, added)
    BY <2>1
  <2> PICK allowed, edited, added : Enter(p, step, allowed, edited, added)
    BY <2>2
  <2> QED
    BY Base DEF Enter, Edited, PhaseInv, BaseInv, Control
<1>3. ASSUME NEW p \in Proc, Replaces(p) PROVE PhaseInv'
  BY <1>3 DEF Replaces, PhaseInv
<1> QED
  BY <1>1, <1>2, <1>3, StepKinds

\* Entering Store.Update prepares the draft of one process and nothing else.
LEMMA EnterIsAlone ==
    ASSUME BaseInv, NEW p \in Proc, NEW step, NEW allowed, NEW edited, NEW added,
           Enter(p, step, allowed, edited, added)
    PROVE  \A q \in Proc : phase[q] = "out" /\ (q # p => phase'[q] = "out")
BY Base, ProcAssumption DEF BaseInv, FileLockInv, UpdatesAreExclusive, Enter, Edited, Control

LEMMA EnterKeepsContext ==
    ASSUME BaseInv, NEW p \in Proc, NEW step, NEW allowed, NEW edited, NEW added,
           Enter(p, step, allowed, edited, added), step # "begin"
    PROVE  ctx' = ctx
<1>1. ctx' = [ctx EXCEPT ![p].current = ctx[p].current]
  BY DEF Enter, Edited
<1>2. ctx[p] = [ctx[p] EXCEPT !.current = ctx[p].current]
  BY Base DEF Context
<1> QED
  BY <1>1, <1>2, Base DEF MemoryInv

LEMMA WriterInvStep == BaseInv /\ WriterInv /\ [Next]_vars => WriterInv'
<1> SUFFICES ASSUME BaseInv, WriterInv, [Next]_vars PROVE WriterInv'
  OBVIOUS
<1>1. CASE Quiet
  <2> SUFFICES ASSUME NEW p \in Proc, phase'[p] = "write" PROVE DraftOf(p, ctx[p])'
    BY DEF WriterInv
  <2>1. /\ attempts' = attempts /\ nextId' = nextId /\ phase[p] = "write"
        /\ pc'[p] = pc[p] /\ ctx'[p] = ctx[p] /\ draft'[p] = draft[p]
    BY <1>1 DEF Quiet
  <2>2. DraftOf(p, ctx[p])
    BY <2>1 DEF WriterInv
  <2> QED
    BY <2>1, <2>2 DEF DraftOf
<1>2. ASSUME NEW p \in Proc, Replaces(p) PROVE WriterInv'
  BY <1>2 DEF Replaces, WriterInv
<1>3. ASSUME NEW p \in Proc, Enters(p) PROVE WriterInv'
  <2> SUFFICES ASSUME phase'[p] = "write" PROVE DraftOf(p, ctx[p])'
    <3>1. PICK step, allowed, edited, added : Enter(p, step, allowed, edited, added)
      BY <1>3 DEF Enters, Discard, Begin, Resume, Finish, Fail, Approve, Record, Clear
    <3>2. \A q \in Proc : q # p => phase'[q] = "out"
      BY <3>1, EnterIsAlone
    <3> QED
      BY <3>2 DEF WriterInv
  <2> DEFINE c == ctx[p]
  <2> USE DEF Enter, Edited
  <2>0. /\ phase \in [Proc -> {"out", "write", "abort"}]
        /\ DOMAIN draft = Proc /\ DOMAIN ctx = Proc /\ c \in Context
    BY Base DEF Control, HistoryInv, MemoryInv
  <2>1. CASE Discard(p)
    <3>1. ctx' = ctx
      BY <2>1, EnterKeepsContext DEF Discard
    <3> QED
      BY <2>0, <2>1, <3>1 DEF Discard, DraftOf
  <2>2. CASE Begin(p)
    <3>1. /\ UNCHANGED <<attempts, pc>> /\ pc[p] = "begin"
          /\ OnlyActive(c.view, attempts, c.prior)
          /\ draft'[p] = Begun(attempts, c.prior, nextId, c.todo[1])
          /\ ctx'[p] = [c EXCEPT !.current = nextId]
      BY <2>0, <2>2 DEF Begin
    <3>2. /\ ctx'[p].view = c.view /\ ctx'[p].prior = c.prior /\ ctx'[p].todo = c.todo
          /\ ctx'[p].current = nextId
      BY <2>0, <3>1 DEF Context
    <3>3. nextId \in Nat \ (DOMAIN attempts \cup {None})
      BY FreePosition, Base DEF BaseInv, HistoryInv, None
    <3> QED
      BY <3>1, <3>2, <3>3 DEF DraftOf
  <2>3. CASE Resume(p)
    <3>1. ctx' = ctx
      BY <2>3, EnterKeepsContext DEF Resume
    <3> QED
      BY <2>0, <2>3, <3>1 DEF Resume, DraftOf
  <2>4. CASE Finish(p)
    <3>1. ctx' = ctx
      BY <2>4, EnterKeepsContext DEF Finish
    <3> QED
      BY <2>0, <2>4, <3>1 DEF Finish, DraftOf
  <2>5. CASE Fail(p)
    <3>1. ctx' = ctx
      BY <2>5, EnterKeepsContext DEF Fail
    <3> QED
      BY <2>0, <2>5, <3>1 DEF Fail, DraftOf
  <2>6. CASE Approve(p)
    <3>1. ctx' = ctx
      BY <2>6, EnterKeepsContext DEF Approve
    <3>2. /\ UNCHANGED <<attempts, pc>> /\ pc[p] = "approve"
          /\ ApprovalAllowed(c.todo, c.view, attempts)
          /\ draft'[p] = Approved(attempts, nextId, c.todo) /\ nextId' = nextId + Len(c.todo)
      BY <2>0, <2>6 DEF Approve
    <3>3. nextId' - Len(c.todo) = nextId
      <4>1. c.todo \in Seq(Stacks) /\ nextId \in Nat
        BY <2>0, Base DEF Context, HistoryInv
      <4>2. Len(c.todo) \in Nat
        BY <4>1
      <4> QED
        BY <3>2, <4>1, <4>2
    <3>4. \A j \in DOMAIN attempts : j < nextId
      BY Base DEF HistoryInv, IsHistory
    <3> QED
      BY <3>1, <3>2, <3>3, <3>4 DEF DraftOf
  <2>7. CASE Record(p)
    <3>1. ctx' = ctx
      BY <2>7, EnterKeepsContext DEF Record
    <3>2. /\ UNCHANGED <<attempts, pc>> /\ pc[p] = "record"
          /\ c.outcome = "approve" => ApprovalAllowed(<<c.todo[1]>>, c.view, attempts)
          /\ draft'[p] = Add(attempts, nextId, NewAttempt(c.todo[1],
                IF c.outcome = "approve" THEN "approved" ELSE "auto_reviewed", "model"))
          /\ nextId' = nextId + 1
      BY <2>0, <2>7 DEF Record
    <3>3. nextId' - 1 = nextId /\ nextId \notin DOMAIN attempts
      BY <3>2, FreePosition, Base DEF BaseInv, HistoryInv
    <3> QED
      BY <3>1, <3>2, <3>3 DEF DraftOf
  <2>8. CASE p \in Resetters /\ Clear(p)
    <3>1. ctx' = ctx
      BY <2>8, EnterKeepsContext DEF Clear
    <3> QED
      BY <2>0, <2>8, <3>1 DEF Clear, DraftOf
  <2> QED
    BY <1>3, <2>1, <2>2, <2>3, <2>4, <2>5, <2>6, <2>7, <2>8 DEF Enters
<1> QED
  BY <1>1, <1>2, <1>3, StepKinds

LEMMA WriterInvariant == Spec => [](BaseInv /\ WriterInv)
<1>1. Init => PhaseInv /\ WriterInv
  BY DEF Init, PhaseInv, WriterInv
<1>2. FileLockInv /\ WorktreeInv /\ DataInv /\ PhaseInv <=> BaseInv
  BY DEF BaseInv
<1>3. BaseInv /\ [Next]_vars => PhaseInv'
  BY PhaseInvStep
<1> QED
  BY <1>1, <1>2, <1>3, WriterInvStep, FileLockInvariant, WorktreeInvariant, DataInvariant, PTL
     DEF Spec

\* An open attempt of a stack of the view counts as active there: its commits are
\* those of one stack of the view, and no stack of the view extends that one.
LEMMA KeyInViewIsUsable ==
    ASSUME NEW v \in Views, NEW s \in Range(v), NEW a, a.stack \in Stacks,
           Key(a.stack) = Key(s)
    PROVE  ~Superseded(a, v) /\ ~Lost(a, v)
<1> DEFINE old == a.stack.commits
           new == s.commits
<1>1. PICK i \in DOMAIN v : v[i] = s
  BY DEF Range
<1>2. v \in Seq(Stacks) /\ s \in Stacks
  BY <1>1, ViewTyped
<1>3. /\ old \in Seq(STRING) /\ old # <<>> /\ new \in Seq(STRING) /\ new # <<>>
      /\ \A k, l \in DOMAIN new : new[k] = new[l] => k = l
  BY <1>2, ViewsAssumption, CommitsAssumption
<1>4. old[1] = new[1] /\ old[Len(old)] = new[Len(new)]
  BY DEF Key, Last
<1>5. ~Lost(a, v)
  BY <1>1, <1>4 DEF Lost, SharesLineage
<1>6. ASSUME NEW j \in DOMAIN v, ExtendsStack(a.stack, v[j]) PROVE FALSE
  <2> DEFINE ext == v[j].commits
  <2>1. ext \in Seq(STRING) /\ ext # <<>>
    BY <1>2, ViewsAssumption, CommitsAssumption
  <2>2. Len(ext) > Len(old) /\ SubSeq(ext, 1, Len(old)) = old
    BY <1>6 DEF ExtendsStack
  <2>3. /\ Len(old) \in Nat /\ Len(old) >= 1
        /\ \A k \in 1 .. Len(old) : old[k] = ext[k]
    <3> HIDE DEF old, ext
    <3> QED
      BY <1>3, <2>1, <2>2
  <2>4. ext[1] = new[1]
    BY <1>4, <2>3
  <2>5. j = i
    BY <1>1, <2>4, CommitsAssumption
  <2>6. ext = new
    BY <1>1, <2>5
  <2>7. new[Len(old)] = new[Len(new)]
    BY <1>4, <2>3, <2>6
  <2> QED
    <3> HIDE DEF old, new, ext
    <3> QED
      BY <1>3, <2>1, <2>2, <2>3, <2>6, <2>7
<1> QED
  BY <1>5, <1>6 DEF Superseded

LEMMA SameStackSameKey ==
    ASSUME NEW s, NEW t, SameStack(s, t) PROVE Key(s) = Key(t) /\ SameStack(t, s)
BY DEF SameStack, Key

\* Stacks that a command selected from its view.
LEMMA SelectedInView ==
    ASSUME BaseInv, NEW p \in Proc, pc[p] \in {"approve", "record", "clear"}
    PROVE  /\ ctx[p].view \in Views
           /\ Range(ctx[p].todo) \subseteq Range(ctx[p].view)
           /\ ctx[p].todo \in Seq(Stacks)
           /\ pc[p] # "clear" => ctx[p].todo # <<>>
<1>1. ctx[p].view \in Views /\ ctx[p].todo \in Seq(Stacks)
  BY Base DEF Memory, Context
<1>2. CASE pc[p] = "record"
  BY <1>1, <1>2, Base DEF Memory
<1>3. CASE pc[p] # "record" /\ ctx[p].todo \in Ranges(ctx[p].view)
  BY <1>1, <1>3, ViewTyped, RangesTyped
<1>4. CASE pc[p] # "record" /\ ctx[p].todo \notin Ranges(ctx[p].view)
  <2>1. pc[p] = "clear" /\ ctx[p].todo = <<>>
    BY <1>4, Base DEF Memory
  <2> QED
    BY <1>1, <2>1 DEF Range
<1> QED
  BY <1>2, <1>3, <1>4

\* A draft drops or changes an approval only when it is that of a reset that selects it.
LEMMA DraftKeepsApprovals ==
    ASSUME BaseInv, WriterInv, NEW p \in Proc, phase[p] = "write",
           NEW i \in DOMAIN attempts, attempts[i].status = "approved"
    PROVE  \/ i \in DOMAIN draft[p] /\ draft[p][i] = attempts[i]
           \/ p \in Resetters /\ ResetsAttempt(attempts[i], ctx[p].todo)
<1> DEFINE c == ctx[p]
<1>1. pc[p] \in Updates /\ DraftOf(p, c)
  BY DEF BaseInv, PhaseInv, WriterInv
<1> HIDE DEF c
<1>2. CASE pc[p] = "discard"
  BY <1>1, <1>2 DEF DraftOf, Discarded, Restrict, Unusable, Unfinished
<1>3. CASE pc[p] = "begin"
  BY <1>1, <1>3 DEF DraftOf, Begun, Add
<1>4. CASE pc[p] = "resume"
  <2>1. c.seen # "approved"
    BY <1>4, Base DEF Memory, c
  <2> QED
    BY <1>1, <1>4, <2>1 DEF DraftOf, WithStatus
<1>5. CASE pc[p] = "finish"
  BY <1>1, <1>5 DEF DraftOf, Finished, WithStatus, Restrict
<1>6. CASE pc[p] = "fail"
  BY <1>1, <1>6 DEF DraftOf, Failed, WithStatus
<1>7. CASE pc[p] = "approve"
  BY <1>1, <1>7 DEF DraftOf, Approved
<1>8. CASE pc[p] = "record"
  BY <1>1, <1>8 DEF DraftOf, Add
<1>9. CASE pc[p] = "clear"
  <2>1. p \in Resetters /\ draft[p] = Cleared(attempts, c.todo)
    BY <1>1, <1>9 DEF DraftOf
  <2> QED
    BY <2>1 DEF Cleared, Restrict, c
<1> QED
  BY <1>1, <1>2, <1>3, <1>4, <1>5, <1>6, <1>7, <1>8, <1>9 DEF Updates

\* A new approval in a draft is of a stack that waits for nothing.
LEMMA DraftApprovesFreely ==
    ASSUME BaseInv, WriterInv, NEW p \in Proc, phase[p] = "write",
           NEW i \in DOMAIN draft[p] \ DOMAIN attempts, draft[p][i].status = "approved"
    PROVE  LET s == draft[p][i].stack
           IN  /\ StatusOf(attempts, s) # "feedback"
               /\ \A j \in DOMAIN attempts :
                     attempts[j].status = "reviewing" => ~SameStack(attempts[j].stack, s)
<1> DEFINE c == ctx[p]
<1>1. pc[p] \in Updates /\ DraftOf(p, c)
  BY DEF BaseInv, PhaseInv, WriterInv
<1>2. ASSUME NEW v \in Views, NEW s \in Range(v), NEW selected, s \in Range(selected),
             ApprovalAllowed(selected, v, attempts)
      PROVE  /\ StatusOf(attempts, s) # "feedback"
             /\ \A j \in DOMAIN attempts :
                   attempts[j].status = "reviewing" => ~SameStack(attempts[j].stack, s)
  <2>1. StatusOf(attempts, s) # "feedback"
    BY <1>2 DEF ApprovalAllowed, Range
  <2>2. ASSUME NEW j \in DOMAIN attempts, attempts[j].status = "reviewing",
               SameStack(attempts[j].stack, s)
        PROVE  FALSE
    <3>1. attempts[j].stack \in Stacks
      BY Base DEF HistoryInv, IsHistory, Attempt
    <3>2. ~Unusable(attempts[j], v)
      BY <2>2, <3>1, SameStackSameKey, KeyInViewIsUsable DEF Unusable
    <3> QED
      BY <1>2, <2>2, <3>2 DEF ApprovalAllowed, ActiveAttempts
  <2> QED
    BY <2>1, <2>2
<1> HIDE DEF c
<1>3. CASE pc[p] \in {"discard", "resume", "finish", "fail", "clear"}
  <2>1. DOMAIN draft[p] \subseteq DOMAIN attempts
    BY <1>1, <1>3 DEF DraftOf, Discarded, WithStatus, Finished, Failed, Cleared, Restrict
  <2> QED
    BY <2>1
<1>4. CASE pc[p] = "begin"
  <2> DEFINE new == NewAttempt(c.todo[1], "reviewing", "")
             replaced == [j \in DOMAIN attempts |->
                            IF j = c.prior /\ attempts[j].status = "reviewing"
                              THEN [attempts[j] EXCEPT !.status = "incomplete"] ELSE attempts[j]]
  <2>1. draft[p] = Add(replaced, c.current, new) /\ DOMAIN replaced = DOMAIN attempts
    BY <1>1, <1>4 DEF DraftOf, Begun
  <2>2. new.status = "reviewing"
    BY DEF NewAttempt
  <2> HIDE DEF new, replaced
  <2>3. draft[p][i] = new
    BY <2>1 DEF Add
  <2> QED
    BY <2>2, <2>3
<1>5. CASE pc[p] = "approve"
  <2> DEFINE first == nextId - Len(c.todo)
  <2>1. /\ ApprovalAllowed(c.todo, c.view, attempts)
        /\ draft[p] = Approved(attempts, first, c.todo)
    BY <1>1, <1>5 DEF DraftOf
  <2>2. c.view \in Views /\ Range(c.todo) \subseteq Range(c.view) /\ c.todo \in Seq(Stacks)
    BY <1>5, SelectedInView DEF c
  <2>3. nextId \in Nat /\ Len(c.todo) \in Nat
    BY <2>2, Base DEF HistoryInv
  <2>4. /\ i \in first .. (first + Len(c.todo) - 1)
        /\ draft[p][i] = NewAttempt(c.todo[i - first + 1], "approved", "user-command")
    BY <2>1 DEF Approved
  <2>5. i - first + 1 \in DOMAIN c.todo
    BY <2>2, <2>3, <2>4
  <2>6. draft[p][i].stack = c.todo[i - first + 1]
    BY <2>4 DEF NewAttempt
  <2>7. draft[p][i].stack \in Range(c.todo)
    BY <2>5, <2>6 DEF Range
  <2> QED
    BY <1>2, <2>1, <2>2, <2>7
<1>6. CASE pc[p] = "record"
  <2> DEFINE status == IF c.outcome = "approve" THEN "approved" ELSE "auto_reviewed"
  <2>1. /\ c.outcome = "approve" => ApprovalAllowed(<<c.todo[1]>>, c.view, attempts)
        /\ draft[p] = Add(attempts, nextId - 1, NewAttempt(c.todo[1], status, "model"))
    BY <1>1, <1>6 DEF DraftOf
  <2>2. draft[p][i] = NewAttempt(c.todo[1], status, "model")
    BY <2>1 DEF Add
  <2>3. c.outcome = "approve" /\ draft[p][i].stack = c.todo[1]
    BY <2>2 DEF NewAttempt
  <2>4. /\ c.view \in Views /\ Range(c.todo) \subseteq Range(c.view)
        /\ c.todo \in Seq(Stacks) /\ c.todo # <<>>
    BY <1>6, SelectedInView DEF c
  <2> DEFINE one == <<c.todo[1]>>
  <2>5. c.todo[1] \in Range(c.view)
    <3>1. 1 \in DOMAIN c.todo
      BY <2>4
    <3>2. c.todo[1] \in Range(c.todo)
      BY <3>1 DEF Range
    <3> QED
      BY <2>4, <3>2
  <2>6. 1 \in DOMAIN one /\ one[1] = c.todo[1]
    OBVIOUS
  <2>7. c.todo[1] \in Range(one)
    <3> HIDE DEF one
    <3> QED
      BY <2>6 DEF Range
  <2> QED
    BY <1>2, <2>1, <2>3, <2>4, <2>5, <2>7
<1> QED
  BY <1>1, <1>3, <1>4, <1>5, <1>6 DEF Updates

\* A recorded approval is never lost to another command, a rewrite or a crash: only
\* a reset that selects it removes it (Store.Update, Service.Reset).
THEOREM RecordedApprovalsPersist == Spec => ApprovalsPersist
<1>1. BaseInv /\ WriterInv /\ [Next]_vars => [KeepsApprovals]_attempts
  <2> SUFFICES ASSUME BaseInv, WriterInv, [Next]_vars, attempts' # attempts,
                      NEW i \in DOMAIN attempts, attempts[i].status = "approved"
               PROVE  \/ i \in DOMAIN attempts' /\ attempts'[i] = attempts[i]
                      \/ \E p \in Resetters :
                            phase[p] = "write" /\ ResetsAttempt(attempts[i], ctx[p].todo)
    BY DEF KeepsApprovals
  <2>1. PICK p \in Proc : Replaces(p)
    BY StepKinds DEF Quiet, Enters, Discard, Begin, Resume, Finish, Fail, Approve, Record, Clear,
                     Enter, Edited
  <2> QED
    BY <2>1, DraftKeepsApprovals DEF Replaces
<1> QED
  BY <1>1, WriterInvariant, PTL DEF Spec, ApprovalsPersist

\* No command approves a stack with pending feedback or with an open review, as the
\* history is when the approval enters it (Service.Approve, recordAssessment).
THEOREM NewApprovalsRespectReviews == Spec => ApprovalsRespectReviews
<1>1. BaseInv /\ WriterInv /\ [Next]_vars => [ApprovesFreely]_attempts
  <2> SUFFICES ASSUME BaseInv, WriterInv, [Next]_vars, attempts' # attempts,
                      NEW i \in DOMAIN attempts' \ DOMAIN attempts,
                      attempts'[i].status = "approved"
               PROVE  LET s == attempts'[i].stack
                      IN  /\ StatusOf(attempts, s) # "feedback"
                          /\ \A j \in DOMAIN attempts :
                                attempts[j].status = "reviewing" => ~SameStack(attempts[j].stack, s)
    BY DEF ApprovesFreely
  <2>1. PICK p \in Proc : Replaces(p)
    BY StepKinds DEF Quiet, Enters, Discard, Begin, Resume, Finish, Fail, Approve, Record, Clear,
                     Enter, Edited
  <2> QED
    BY <2>1, DraftApprovesFreely DEF Replaces
<1> QED
  BY <1>1, WriterInvariant, PTL DEF Spec, ApprovalsRespectReviews

-----------------------------------------------------------------------------
(***************************************************************************)
(* The loop of a review.  A running review relies on the attempt that it   *)
(* opened, and its loop on the keys that it has visited.  What keeps them  *)
(* true while other commands write is that no two open attempts have the   *)
(* same key and no open attempt is one that the loop has closed: only the  *)
(* owner of the worktree lock opens, reopens or removes an attempt, and a  *)
(* command without it only adds approvals.                                 *)
(***************************************************************************)
\* The places of a review: a process there holds the worktree lock.
ReviewPlaces == {"survey", "surveyed", "discard", "plan", "planned", "begin", "resume",
                 "launch", "tuicr", "finish"}

\* No two open attempts are of stacks with the same key.
OneReviewPerKey(h) ==
    \A i, j \in DOMAIN h :
        /\ h[i].status = "reviewing" /\ h[j].status = "reviewing"
        /\ Key(h[i].stack) = Key(h[j].stack)
        => i = j

\* The open attempts are of stacks that this review has not opened yet.
NotVisited(c, h) ==
    \A i \in DOMAIN h : h[i].status = "reviewing" => Key(h[i].stack) \notin c.visited

\* The attempt that the review opened is in the history and open.
Intact(c, h) ==
    /\ c.current \in DOMAIN h
    /\ h[c.current].status = "reviewing"
    /\ SameStack(h[c.current].stack, c.todo[1])

\* What a process at a step, with context c, relies on in the history h.
Sound(step, c, h) ==
    /\ step \in ReviewPlaces => NotVisited(c, h)
    /\ step \in ReviewPlaces => (c.option.stack # "" => c.visited = {})
    /\ step \in {"begin", "resume", "launch"} => Key(c.todo[1]) \notin c.visited
    /\ step = "begin" => c.todo[1] \in Range(c.view)
    /\ step = "resume" =>
         /\ c.current = c.prior
         /\ c.prior \in DOMAIN h
         /\ h[c.prior].status = c.seen
         /\ SameStack(h[c.prior].stack, c.todo[1])
         /\ c.seen = "reviewing" \/ c.todo[1] \in Range(c.view)
    /\ step \in {"launch", "tuicr", "finish"} => Intact(c, h)

SessionInv ==
    /\ OneReviewPerKey(attempts)
    /\ \A p \in Proc : Sound(pc[p], ctx[p], attempts)

LEMMA OutsideIsSound ==
    ASSUME NEW step, step \notin ReviewPlaces, NEW c, NEW h PROVE Sound(step, c, h)
BY DEF Sound, ReviewPlaces

\* Closed attempts may be added under a running review.
LEMMA GrowthIsSound ==
    ASSUME NEW step, NEW c, NEW h, NEW g, Sound(step, c, h),
           \A i \in DOMAIN h : i \in DOMAIN g /\ g[i] = h[i],
           \A i \in DOMAIN g \ DOMAIN h : g[i].status # "reviewing"
    PROVE  Sound(step, c, g)
<1>1. NotVisited(c, h) => NotVisited(c, g)
  BY DEF NotVisited
<1>2. Intact(c, h) => Intact(c, g)
  BY DEF Intact
<1> QED
  BY <1>1, <1>2 DEF Sound

\* Another process than the writer: if it is in a review, the writer only approves.
LEMMA OthersStaySound ==
    ASSUME BaseInv, WriterInv, SessionInv, NEW p \in Proc, phase[p] = "write",
           NEW q \in Proc, q # p
    PROVE  Sound(pc[q], ctx[q], draft[p])
<1>1. CASE pc[q] \notin ReviewPlaces
  BY <1>1, OutsideIsSound
<1>2. CASE pc[q] \in ReviewPlaces
  <2>1. pc[p] = "approve"
    <3>1. q \in flock /\ p \notin flock
      BY <1>2 DEF BaseInv, WorktreeInv, WorktreeExclusive, ReviewPlaces, Lockless
    <3> QED
      BY <3>1 DEF BaseInv, WorktreeInv, PhaseInv, Updates, Lockless
  <2> DEFINE first == nextId - Len(ctx[p].todo)
  <2>2. /\ \A j \in DOMAIN attempts : j < first
        /\ draft[p] = Approved(attempts, first, ctx[p].todo)
    BY <2>1 DEF WriterInv, DraftOf
  <2> HIDE DEF first
  <2>3. \A i \in DOMAIN attempts : i \in DOMAIN draft[p] /\ draft[p][i] = attempts[i]
    BY <2>2 DEF Approved
  <2>4. ASSUME NEW i \in DOMAIN draft[p] \ DOMAIN attempts
        PROVE  draft[p][i].status # "reviewing"
    <3>1. draft[p][i] = NewAttempt(ctx[p].todo[i - first + 1], "approved", "user-command")
      BY <2>2 DEF Approved
    <3> QED
      BY <3>1 DEF NewAttempt
  <2> QED
    BY <2>3, <2>4, GrowthIsSound DEF SessionInv
<1> QED
  BY <1>1, <1>2

\* A process goes to another place, in a history that stays sound for the others.
LEMMA GoKeepsSession ==
    ASSUME BaseInv, NEW p \in Proc, NEW step, NEW c,
           pc' = [pc EXCEPT ![p] = step], ctx' = [ctx EXCEPT ![p] = c],
           OneReviewPerKey(attempts'), Sound(step, c, attempts'),
           \A q \in Proc : q # p => Sound(pc[q], ctx[q], attempts')
    PROVE  SessionInv'
<1>1. \A q \in Proc : pc'[q] = (IF q = p THEN step ELSE pc[q])
                      /\ ctx'[q] = (IF q = p THEN c ELSE ctx[q])
  BY Base DEF MemoryInv, Control
<1>2. ASSUME NEW q \in Proc PROVE Sound(pc'[q], ctx'[q], attempts')
  <2>1. CASE q = p
    BY <1>1, <2>1
  <2>2. CASE q # p
    BY <1>1, <2>2
  <2> QED
    BY <2>1, <2>2
<1> QED
  BY <1>2 DEF SessionInv

LEMMA MoveKeepsSession ==
    ASSUME BaseInv, NEW p \in Proc, NEW step, NEW c \in Context, Move(p, step, c),
           OneReviewPerKey(attempts'), step = "idle" \/ Sound(step, c, attempts'),
           \A q \in Proc : q # p => Sound(pc[q], ctx[q], attempts')
    PROVE  SessionInv'
<1>1. CASE step = "idle"
  <2>1. ctx' = [ctx EXCEPT ![p] = Blank]
    BY <1>1 DEF Move
  <2>2. Sound(step, Blank, attempts')
    BY <1>1, OutsideIsSound DEF ReviewPlaces
  <2> QED
    BY <2>1, <2>2, GoKeepsSession DEF Move
<1>2. CASE step = "plan"
  <2> DEFINE d == [c EXCEPT !.view = <<>>]
  <2>1. ctx' = [ctx EXCEPT ![p] = d]
    BY <1>2 DEF Move
  <2>2. d.visited = c.visited /\ d.option = c.option
    BY DEF Context
  <2> HIDE DEF d
  <2>3. Sound(step, d, attempts')
    BY <1>2, <2>2 DEF Sound, NotVisited
  <2> QED
    BY <2>1, <2>3, GoKeepsSession DEF Move
<1>3. CASE step \notin {"idle", "plan"}
  <2>1. ctx' = [ctx EXCEPT ![p] = c]
    BY <1>3 DEF Move
  <2> QED
    BY <1>3, <2>1, GoKeepsSession DEF Move
<1> QED
  BY <1>1, <1>2, <1>3

\* A step that only reads.
LEMMA ReadKeepsSession ==
    ASSUME BaseInv, SessionInv, NEW p \in Proc, NEW step, NEW c \in Context, Move(p, step, c),
           UNCHANGED attempts, step \notin ReviewPlaces \/ Sound(step, c, attempts)
    PROVE  SessionInv'
<1>1. Sound(step, c, attempts')
  BY OutsideIsSound
<1> QED
  BY <1>1, MoveKeepsSession DEF SessionInv

LEMMA StartKeepsSession ==
    ASSUME BaseInv, SessionInv, NEW p \in Proc, NEW step, NEW locks, NEW c,
           Start(p, step, locks, c), Sound(step, c, attempts)
    PROVE  SessionInv'
BY GoKeepsSession DEF Start, SessionInv

LEMMA EnterKeepsSession ==
    ASSUME BaseInv, SessionInv, NEW p \in Proc, NEW step, NEW allowed, NEW edited, NEW added,
           Enter(p, step, allowed, edited, added)
    PROVE  SessionInv'
<1> DEFINE c == ctx[p]
           d == [c EXCEPT !.current = IF allowed /\ step = "begin" THEN nextId ELSE @]
<1>1. /\ pc' = pc /\ attempts' = attempts /\ pc[p] = step
      /\ ctx' = [ctx EXCEPT ![p] = d]
  BY DEF Enter, Edited
<1>2. pc' = [pc EXCEPT ![p] = step]
  BY <1>1, Base DEF Control
<1>3. /\ d.visited = c.visited /\ d.option = c.option /\ d.todo = c.todo /\ d.view = c.view
      /\ d.prior = c.prior /\ d.seen = c.seen /\ (step # "begin" => d.current = c.current)
  BY Base DEF Context
<1>4. Sound(step, c, attempts)
  BY <1>1 DEF SessionInv
<1> HIDE DEF c, d
<1>5. Sound(step, d, attempts)
  <2>1. NotVisited(c, attempts) => NotVisited(d, attempts)
    BY <1>3 DEF NotVisited
  <2>2. step # "begin" /\ Intact(c, attempts) => Intact(d, attempts)
    BY <1>3 DEF Intact
  <2> QED
    BY <1>3, <1>4, <2>1, <2>2 DEF Sound
<1> QED
  BY <1>1, <1>2, <1>5, GoKeepsSession DEF SessionInv

LEMMA InViewIsStack == ASSUME NEW v \in Seq(Stacks) PROVE Range(v) \subseteq Stacks
BY DEF Range

\* A plan takes up an open attempt of the view, or a stack of the view that the
\* loop has not opened.
LEMMA PlanKeepsSession ==
    ASSUME BaseInv, SessionInv, NEW p \in Proc, PlanLoad(p) PROVE SessionInv'
<1> DEFINE c == ctx[p]
           active == ActiveAttempts(c.view, attempts)
<1>1. /\ c \in Context /\ c.view \in Seq(Stacks) /\ attempts' = attempts
      /\ NotVisited(c, attempts) /\ (c.option.stack # "" => c.visited = {})
  <2>1. c \in Context /\ Memory("planned", c) /\ attempts' = attempts /\ pc[p] = "planned"
    BY Base DEF PlanLoad, Reads
  <2>2. Sound("planned", c, attempts)
    BY <2>1 DEF SessionInv
  <2> QED
    BY <2>1, <2>2, ViewTyped DEF Memory, Sound, ReviewPlaces
<1>2. PICK stack, prior :
        /\ stack = Planned(c.view, attempts, c.option, c.visited)
        /\ prior = IF stack = NoStack THEN None ELSE PlannedPrior(c.view, attempts, stack)
        /\ LET resumes == prior # None /\ SameStack(attempts[prior].stack, stack)
               opened  == IF resumes \/ stack = NoStack
                            THEN stack ELSE ReplacementStack(c.view, stack)
           IN  \/ /\ opened # NoStack
                  /\ Move(p, IF resumes THEN "resume" ELSE "begin",
                       [c EXCEPT !.todo = <<opened>>, !.prior = prior,
                                 !.seen = IF prior = None THEN "" ELSE attempts[prior].status,
                                 !.current = IF resumes THEN prior ELSE None])
               \/ /\ opened = NoStack \/ resumes
                  /\ Goto(p, "idle")
  BY DEF PlanLoad
<1> DEFINE resumes == prior # None /\ SameStack(attempts[prior].stack, stack)
           opened  == IF resumes \/ stack = NoStack
                        THEN stack ELSE ReplacementStack(c.view, stack)
           seen    == IF prior = None THEN "" ELSE attempts[prior].status
           current == IF resumes THEN prior ELSE None
           next    == [c EXCEPT !.todo = <<opened>>, !.prior = prior, !.seen = seen,
                                !.current = current]
<1>3. CASE Goto(p, "idle")
  BY <1>1, <1>3, ReadKeepsSession DEF Goto, ReviewPlaces
<1>4. CASE opened # NoStack /\ Move(p, IF resumes THEN "resume" ELSE "begin", next)
  <2>1. stack # NoStack
    BY <1>4
  <2>2. /\ DOMAIN attempts \subseteq 1 .. (nextId - 1) /\ nextId - 1 \in Nat
        /\ prior = PlannedPrior(c.view, attempts, stack)
        /\ prior \in DOMAIN attempts \cup {None}
    BY <1>2, <2>1, FreePosition, PlannedPriorPicks, Base DEF BaseInv, HistoryInv, IsHistory
  <2>3. \/ active # {} /\ prior = Newest(active) /\ stack = attempts[prior].stack
           /\ prior \in active
        \/ stack \in Range(c.view) /\ Key(stack) \notin c.visited
    <3>1. \/ c.option.stack # "" /\ stack \in Range(c.view)
          \/ active # {} /\ stack = attempts[Newest(active)].stack
          \/ stack \in Range(c.view) /\ Key(stack) \notin c.visited
      <4>1. Planned(c.view, attempts, c.option, c.visited) # NoStack
        BY <1>2, <2>1
      <4> DEFINE v == c.view
                 o == c.option
                 visited == c.visited
      <4> HIDE DEF v, o, visited
      <4>2. LET s == Planned(v, attempts, o, visited)
                open == ActiveAttempts(v, attempts)
            IN  \/ o.stack # "" /\ s \in Range(v)
                \/ o.stack = "" /\ open # {} /\ s = attempts[Newest(open)].stack
                \/ o.stack = "" /\ open = {} /\ s \in Range(v) /\ Key(s) \notin visited
        <5>1. v \in Seq(Stacks) /\ Planned(v, attempts, o, visited) # NoStack
          BY <1>1, <4>1 DEF v, o, visited
        <5> HIDE DEF c
        <5> QED
          BY <5>1, PlannedPicks
      <4> QED
        BY <1>2, <4>2 DEF v, o, visited
    <3>2. c.option.stack # "" => Key(stack) \notin c.visited
      BY <1>1
    <3>3. active # {} => prior = Newest(active) /\ prior \in active
      BY <2>2, NewestActive DEF PlannedPrior
    <3> HIDE DEF active
    <3> QED
      BY <3>1, <3>2, <3>3
  <2>4. Key(stack) \notin c.visited
    BY <1>1, <2>3 DEF NotVisited, ActiveAttempts
  <2>5. resumes \/ stack \in Range(c.view)
    <3>1. prior \in active => prior \in DOMAIN attempts
      BY DEF ActiveAttempts
    <3>2. 0 \notin DOMAIN attempts
      BY <2>2
    <3> QED
      BY <2>3, <3>1, <3>2 DEF SameStack, None
  <2>6. resumes => /\ opened = stack /\ prior \in DOMAIN attempts
                   /\ seen = "reviewing" \/ stack \in Range(c.view)
    <3>1. prior \in active => attempts[prior].status = "reviewing"
      BY DEF ActiveAttempts
    <3> HIDE DEF active
    <3> QED
      BY <2>2, <2>3, <3>1
  <2>7. ~resumes => opened \in Range(c.view) /\ Key(opened) = Key(stack)
    <3> SUFFICES ASSUME ~resumes PROVE opened \in Range(c.view) /\ Key(opened) = Key(stack)
      OBVIOUS
    <3>1. opened = ReplacementStack(c.view, stack) /\ opened # NoStack
      BY <1>4, <2>1
    <3>2. opened \in Range(c.view) /\ SameStack(opened, stack)
      BY <1>1, <2>5, <3>1, ReplacementPicks
    <3> QED
      BY <3>2, SameStackSameKey
  <2>8. resumes => seen = attempts[prior].status /\ SameStack(attempts[prior].stack, opened)
                   /\ current = prior
    BY <2>6
  <2> HIDE DEF resumes, opened, seen, current, active
  <2>9. /\ next.todo[1] = opened /\ next.prior = prior /\ next.seen = seen
        /\ next.current = current /\ next.view = c.view /\ next.visited = c.visited
        /\ next.option = c.option
    BY <1>1 DEF Context
  <2>10. next \in Context
    <3>1. opened \in Stacks
      <4>1. resumes \/ opened \in Range(c.view)
        BY <2>7
      <4>2. prior \in DOMAIN attempts => attempts[prior].stack \in Stacks
        BY Base DEF HistoryInv, IsHistory, Attempt
      <4>3. stack \in Stacks
        BY <1>1, <2>3, <4>2, InViewIsStack DEF active, ActiveAttempts
      <4> QED
        BY <1>1, <2>6, <4>1, <4>3, InViewIsStack
    <3>2. <<opened>> \in Seq(Stacks)
      BY <3>1
    <3>3. prior \in Nat /\ current \in Nat
      BY <2>2 DEF current, None
    <3>4. seen \in Statuses \cup {""}
      BY <2>2, Base DEF seen, HistoryInv, IsHistory, Attempt
    <3> QED
      BY <1>1, <3>2, <3>3, <3>4 DEF Context
  <2> HIDE DEF next, c
  <2>11. NotVisited(next, attempts)
    BY <1>1, <2>9 DEF NotVisited
  <2>12. CASE resumes
    <3>1. Sound("resume", next, attempts)
      BY <1>1, <2>4, <2>6, <2>8, <2>9, <2>11, <2>12 DEF Sound
    <3> QED
      BY <1>1, <1>4, <2>10, <2>12, <3>1, ReadKeepsSession
  <2>13. CASE ~resumes
    <3>1. Sound("begin", next, attempts)
      BY <1>1, <2>4, <2>7, <2>9, <2>11, <2>13 DEF Sound
    <3> QED
      BY <1>1, <1>4, <2>10, <2>13, <3>1, ReadKeepsSession
  <2> QED
    BY <2>12, <2>13
<1> QED
  BY <1>2, <1>3, <1>4

\* Where no attempt is open that was not, nothing new competes.
LEMMA ClosingKeepsOneReview ==
    ASSUME NEW h, NEW g, OneReviewPerKey(h),
           \A i \in DOMAIN g : g[i].status = "reviewing" =>
              i \in DOMAIN h /\ h[i].status = "reviewing" /\ h[i].stack = g[i].stack
    PROVE  OneReviewPerKey(g) /\ \A c : NotVisited(c, h) => NotVisited(c, g)
BY DEF OneReviewPerKey, NotVisited

\* An attempt i is open in g for a stack s of the view, and it was the only one
\* there that could be.
LEMMA OpeningKeepsOneReview ==
    ASSUME NEW h, NEW g, NEW i \in DOMAIN g, NEW prior, NEW v \in Views, NEW s \in Range(v),
           OneReviewPerKey(h), OnlyActive(v, h, prior),
           \A j \in DOMAIN h : h[j].stack \in Stacks,
           Key(g[i].stack) = Key(s),
           \A j \in DOMAIN g \ {i} : g[j].status = "reviewing" =>
              j # prior /\ j \in DOMAIN h /\ h[j].status = "reviewing" /\ h[j].stack = g[j].stack
    PROVE  /\ OneReviewPerKey(g)
           /\ \A c : NotVisited(c, h) /\ Key(s) \notin c.visited => NotVisited(c, g)
<1>1. ASSUME NEW j \in DOMAIN g \ {i}, g[j].status = "reviewing"
      PROVE  Key(g[j].stack) # Key(s)
  <2>1. j # prior /\ j \in DOMAIN h /\ h[j].status = "reviewing" /\ h[j].stack = g[j].stack
    BY <1>1
  <2>2. j \notin ActiveAttempts(v, h)
    BY <2>1 DEF OnlyActive
  <2>3. Unusable(h[j], v)
    BY <2>1, <2>2 DEF ActiveAttempts
  <2>4. h[j].stack \in Stacks
    BY <2>1
  <2> QED
    BY <2>1, <2>3, <2>4, KeyInViewIsUsable DEF Unusable
<1>2. OneReviewPerKey(g)
  <2> SUFFICES ASSUME NEW j \in DOMAIN g, NEW k \in DOMAIN g, g[j].status = "reviewing",
                      g[k].status = "reviewing", Key(g[j].stack) = Key(g[k].stack), j # k
               PROVE  FALSE
    BY DEF OneReviewPerKey
  <2>1. j # i /\ k # i
    BY <1>1
  <2> QED
    BY <2>1 DEF OneReviewPerKey
<1>3. ASSUME NEW c, NotVisited(c, h), Key(s) \notin c.visited PROVE NotVisited(c, g)
  BY <1>3 DEF NotVisited
<1> QED
  BY <1>2, <1>3

\* What a write of p leaves for p itself.
LEMMA WriterStaysSound ==
    ASSUME BaseInv, WriterInv, SessionInv, NEW p \in Proc, phase[p] = "write"
    PROVE  /\ OneReviewPerKey(draft[p])
           /\ LET step == Written(pc[p], ctx[p])
              IN  step = "idle" \/ Sound(step, Remembered(pc[p], ctx[p]), draft[p])
<1> DEFINE c == ctx[p]
           h == attempts
           g == draft[p]
           next == Remembered(pc[p], c)
           step == Written(pc[p], c)
<1>1. /\ pc[p] \in Updates /\ DraftOf(p, c) /\ OneReviewPerKey(h) /\ Sound(pc[p], c, h)
      /\ c \in Context /\ Memory(pc[p], c) /\ \A j \in DOMAIN h : h[j] \in Attempt(Stacks)
  BY Base DEF BaseInv, PhaseInv, WriterInv, SessionInv, HistoryInv, IsHistory
<1>2. \A j \in DOMAIN h : h[j].stack \in Stacks /\ h[j].status \in Statuses
  BY <1>1 DEF Attempt
<1> HIDE DEF c, h
<1>3. CASE pc[p] = "discard"
  <2>1. g = Discarded(h, c.view) /\ step = "plan" /\ next = c
    BY <1>1, <1>3 DEF DraftOf, Written, Remembered, h
  <2>2. \A i \in DOMAIN g : i \in DOMAIN h /\ g[i] = h[i]
    BY <2>1 DEF Discarded, Restrict
  <2> HIDE DEF g, step, next
  <2>3. OneReviewPerKey(g) /\ \A d : NotVisited(d, h) => NotVisited(d, g)
    BY <1>1, <2>2, ClosingKeepsOneReview
  <2>4. Sound("plan", c, g)
    BY <1>1, <1>3, <2>3 DEF Sound, ReviewPlaces
  <2> QED
    BY <2>1, <2>3, <2>4 DEF g, next, step, c
<1>4. CASE pc[p] = "begin"
  <2> DEFINE s == c.todo[1]
             new == NewAttempt(s, "reviewing", "")
             i == c.current
             replaced == [j \in DOMAIN h |-> IF j = c.prior /\ h[j].status = "reviewing"
                            THEN [h[j] EXCEPT !.status = "incomplete"] ELSE h[j]]
  <2>1. /\ OnlyActive(c.view, h, c.prior) /\ i \notin DOMAIN h
        /\ g = Begun(h, c.prior, i, s) /\ step = "launch" /\ next = c
    BY <1>1, <1>4 DEF DraftOf, Written, Remembered, h
  <2>2. c.view \in Views /\ s \in Range(c.view) /\ Key(s) \notin c.visited /\ NotVisited(c, h)
        /\ (c.option.stack # "" => c.visited = {})
    BY <1>1, <1>4 DEF Memory, Sound, ReviewPlaces
  <2>3. /\ new.status = "reviewing" /\ new.stack = s
        /\ g = Add(replaced, i, new) /\ DOMAIN replaced = DOMAIN h
    BY <2>1 DEF NewAttempt, Begun
  <2>4. ASSUME NEW j \in DOMAIN h, replaced[j].status = "reviewing"
        PROVE  j # c.prior /\ h[j].status = "reviewing" /\ h[j].stack = replaced[j].stack
    <3>1. CASE j = c.prior /\ h[j].status = "reviewing"
      <4>1. replaced[j] = [h[j] EXCEPT !.status = "incomplete"] /\ h[j] \in Attempt(Stacks)
        BY <1>1, <3>1
      <4>2. replaced[j].status = "incomplete"
        BY <4>1 DEF Attempt
      <4> QED
        BY <2>4, <4>2
    <3>2. CASE ~(j = c.prior /\ h[j].status = "reviewing")
      <4>1. replaced[j] = h[j]
        BY <3>2
      <4> QED
        BY <2>4, <3>2, <4>1
    <3> QED
      BY <3>1, <3>2
  <2> HIDE DEF replaced, new, g, step, next
  <2>5. DOMAIN g = DOMAIN h \cup {i} /\ g[i] = new /\ \A j \in DOMAIN g \ {i} : g[j] = replaced[j]
    BY <2>3 DEF Add
  <2>6. i \in DOMAIN g /\ g[i].status = "reviewing" /\ g[i].stack = s
    BY <2>3, <2>5
  <2>7. \A j \in DOMAIN g \ {i} : g[j].status = "reviewing" =>
           j # c.prior /\ j \in DOMAIN h /\ h[j].status = "reviewing" /\ h[j].stack = g[j].stack
    BY <2>4, <2>5
  <2> HIDE DEF s, i
  <2>8. OneReviewPerKey(g) /\ \A d : NotVisited(d, h) /\ Key(s) \notin d.visited => NotVisited(d, g)
    <3>1. /\ i \in DOMAIN g /\ c.view \in Views /\ s \in Range(c.view) /\ OneReviewPerKey(h)
          /\ OnlyActive(c.view, h, c.prior) /\ Key(g[i].stack) = Key(s)
          /\ \A j \in DOMAIN h : h[j].stack \in Stacks
      BY <1>1, <1>2, <2>1, <2>2, <2>6
    <3> QED
      BY <2>7, <3>1, OpeningKeepsOneReview
  <2>9. Sound("launch", c, g)
    <3>1. Intact(c, g)
      BY <2>6 DEF Intact, SameStack, s, i
    <3>2. NotVisited(c, g)
      BY <2>2, <2>8
    <3> QED
      BY <2>2, <3>1, <3>2 DEF Sound, s
  <2> QED
    BY <2>1, <2>8, <2>9 DEF g, next, step, c
<1>5. CASE pc[p] = "resume"
  <2> DEFINE s == c.todo[1]
             i == c.prior
  <2>1. /\ OnlyActive(c.view, h, i) /\ i \in DOMAIN h
        /\ h[i].status = c.seen /\ g = WithStatus(h, i, "reviewing")
        /\ step = "launch" /\ next = c
    BY <1>1, <1>5 DEF DraftOf, Written, Remembered, h
  <2>2. /\ c.view \in Views /\ Key(s) \notin c.visited /\ NotVisited(c, h)
        /\ (c.option.stack # "" => c.visited = {}) /\ c.current = i
        /\ SameStack(h[i].stack, s) /\ (c.seen = "reviewing" \/ s \in Range(c.view))
    BY <1>1, <1>5 DEF Memory, Sound, ReviewPlaces
  <2>3. /\ DOMAIN g = DOMAIN h /\ g[i] = [h[i] EXCEPT !.status = "reviewing"]
        /\ \A j \in DOMAIN g \ {i} : g[j] = h[j]
    BY <2>1 DEF WithStatus
  <2>4. g[i].status = "reviewing" /\ g[i].stack = h[i].stack
    <3>1. h[i] \in Attempt(Stacks)
      BY <1>1, <2>1
    <3> HIDE DEF g, i
    <3> QED
      BY <2>3, <3>1 DEF Attempt
  <2>5. Key(g[i].stack) = Key(s)
    BY <2>2, <2>4, SameStackSameKey
  <2> HIDE DEF s, i, g, step, next
  <2>6. OneReviewPerKey(g) /\ NotVisited(c, g)
    <3>1. CASE c.seen = "reviewing"
      <4>1. \A j \in DOMAIN g : g[j].status = "reviewing" =>
               j \in DOMAIN h /\ h[j].status = "reviewing" /\ h[j].stack = g[j].stack
        BY <2>1, <2>3, <2>4, <3>1
      <4> QED
        BY <1>1, <2>2, <4>1, ClosingKeepsOneReview
    <3>2. CASE s \in Range(c.view)
      <4>1. i \in DOMAIN g /\ \A j \in DOMAIN h : h[j].stack \in Stacks
        BY <1>2, <2>1, <2>3
      <4>2. \A j \in DOMAIN g \ {i} : g[j].status = "reviewing" =>
               j # i /\ j \in DOMAIN h /\ h[j].status = "reviewing" /\ h[j].stack = g[j].stack
        BY <2>3
      <4>3. OneReviewPerKey(g) /\ \A d : NotVisited(d, h) /\ Key(s) \notin d.visited => NotVisited(d, g)
        <5>1. /\ c.view \in Views /\ s \in Range(c.view) /\ OneReviewPerKey(h)
              /\ OnlyActive(c.view, h, i) /\ Key(g[i].stack) = Key(s)
          BY <1>1, <2>1, <2>2, <2>5, <3>2
        <5> QED
          BY <4>1, <4>2, <5>1, OpeningKeepsOneReview
      <4> QED
        BY <2>2, <4>3
    <3> QED
      BY <2>2, <3>1, <3>2
  <2>7. Intact(c, g)
    BY <2>1, <2>2, <2>3, <2>4 DEF Intact, s
  <2>8. Sound("launch", c, g)
    BY <2>2, <2>6, <2>7 DEF Sound, s
  <2> QED
    BY <2>1, <2>6, <2>8 DEF g, next, step, c
<1>6. CASE pc[p] = "finish"
  <2> DEFINE i == c.current
             key == Key(c.todo[1])
             visited == c.visited \cup {key}
  <2>1. /\ i \in DOMAIN h /\ h[i].status = "reviewing" /\ g = Finished(h, i, c.outcome)
        /\ step = IF Continues(c) THEN "plan" ELSE "idle"
        /\ next = [Blank EXCEPT !.option = c.option, !.visited = visited]
    BY <1>1, <1>6 DEF DraftOf, Written, Remembered, h
  <2>2. c.outcome \in Outcomes /\ NotVisited(c, h) /\ Key(h[i].stack) = key
    BY <1>1, <1>6, SameStackSameKey DEF Memory, Sound, ReviewPlaces, Intact
  <2>3. \A j \in DOMAIN g \ {i} : j \in DOMAIN h /\ g[j] = h[j]
    BY <2>1 DEF Finished, WithStatus, Restrict
  <2>4. i \in DOMAIN g => g[i].status # "reviewing"
    <3> SUFFICES ASSUME i \in DOMAIN g PROVE g[i].status # "reviewing"
      OBVIOUS
    <3>1. c.outcome # "untouched" /\ g[i] = [h[i] EXCEPT !.status = c.outcome]
      BY <2>1 DEF Finished, WithStatus, Restrict
    <3>2. h[i] \in Attempt(Stacks)
      BY <1>1, <2>1
    <3>3. g[i].status = c.outcome
      <4> HIDE DEF g, i
      <4> QED
        BY <3>1, <3>2 DEF Attempt
    <3> QED
      BY <2>2, <3>3 DEF Outcomes
  <2> HIDE DEF g, i, step
  <2>5. OneReviewPerKey(g) /\ NotVisited(c, g)
    BY <1>1, <2>2, <2>3, <2>4, ClosingKeepsOneReview
  <2>6. \A j \in DOMAIN g : g[j].status = "reviewing" => Key(g[j].stack) \notin visited
    <3> SUFFICES ASSUME NEW j \in DOMAIN g, g[j].status = "reviewing", Key(g[j].stack) = key
                 PROVE  FALSE
      BY <2>5 DEF NotVisited
    <3>1. j # i /\ j \in DOMAIN h /\ g[j] = h[j]
      BY <2>3, <2>4
    <3> HIDE DEF key
    <3> QED
      BY <1>1, <2>1, <2>2, <3>1 DEF OneReviewPerKey
  <2> HIDE DEF visited
  <2>7. next.visited = visited /\ next.option = c.option
    BY <2>1 DEF Blank
  <2> HIDE DEF next
  <2>8. step = "idle" \/ Sound(step, next, g)
    <3> SUFFICES ASSUME step = "plan" PROVE Sound("plan", next, g)
      BY <2>1
    <3>1. next.option.stack = ""
      BY <2>1, <2>7 DEF Continues
    <3> QED
      BY <2>6, <2>7, <3>1 DEF Sound, NotVisited
  <2> QED
    BY <2>5, <2>8 DEF g, next, step, c
<1>7. CASE pc[p] = "fail"
  <2>1. c.current \in DOMAIN h /\ g = Failed(h, c.current) /\ step = "idle"
    BY <1>1, <1>7 DEF DraftOf, Written, h
  <2>2. \A i \in DOMAIN g : g[i].status = "reviewing" => i \in DOMAIN h /\ g[i] = h[i]
    <3>1. h[c.current] \in Attempt(Stacks)
      BY <1>1, <2>1
    <3>2. [h[c.current] EXCEPT !.status = "incomplete"].status = "incomplete"
      BY <3>1 DEF Attempt
    <3> QED
      BY <2>1, <3>2 DEF Failed, WithStatus
  <2>3. OneReviewPerKey(g)
    <3> HIDE DEF g
    <3> QED
      BY <1>1, <2>2, ClosingKeepsOneReview
  <2> QED
    BY <2>1, <2>3 DEF c
<1>8. CASE pc[p] \in {"approve", "record"}
  <2>1. \A i \in DOMAIN h : i \in DOMAIN g /\ g[i] = h[i]
    <3>1. pc[p] = "approve" => g = Approved(h, nextId - Len(c.todo), c.todo)
      BY <1>1 DEF DraftOf, h
    <3>2. pc[p] = "record" => nextId - 1 \notin DOMAIN h /\ \E a : g = Add(h, nextId - 1, a)
      BY <1>1 DEF DraftOf, h
    <3> QED
      BY <1>8, <3>1, <3>2 DEF Approved, Add
  <2>2. \A i \in DOMAIN g \ DOMAIN h : g[i].status # "reviewing"
    <3> SUFFICES ASSUME NEW i \in DOMAIN g \ DOMAIN h PROVE g[i].status # "reviewing"
      OBVIOUS
    <3>1. CASE pc[p] = "approve"
      <4>1. \E s : g[i] = NewAttempt(s, "approved", "user-command")
        BY <1>1, <3>1 DEF DraftOf, h, Approved
      <4> QED
        BY <4>1 DEF NewAttempt
    <3>2. CASE pc[p] = "record"
      <4> DEFINE a == NewAttempt(c.todo[1],
                         IF c.outcome = "approve" THEN "approved" ELSE "auto_reviewed", "model")
      <4>1. a.status # "reviewing"
        BY DEF NewAttempt
      <4> HIDE DEF a
      <4>2. g = Add(h, nextId - 1, a)
        BY <1>1, <3>2 DEF DraftOf, h, a
      <4> QED
        BY <4>1, <4>2 DEF Add
    <3> QED
      BY <1>8, <3>1, <3>2
  <2>3. OneReviewPerKey(g)
    <3> HIDE DEF g
    <3> QED
      BY <1>1, <2>1, <2>2, ClosingKeepsOneReview
  <2>4. step \in {"idle", "evaluate"}
    BY <1>8 DEF Written
  <2>5. step \notin ReviewPlaces
    BY <2>4 DEF ReviewPlaces
  <2> QED
    BY <2>3, <2>5, OutsideIsSound DEF c
<1>9. CASE pc[p] = "clear"
  <2>1. g = Cleared(h, c.todo) /\ step = "idle"
    BY <1>1, <1>9 DEF DraftOf, Written, h
  <2>2. \A i \in DOMAIN g : i \in DOMAIN h /\ g[i] = h[i]
    BY <2>1 DEF Cleared, Restrict
  <2>3. OneReviewPerKey(g)
    <3> HIDE DEF g
    <3> QED
      BY <1>1, <2>2, ClosingKeepsOneReview
  <2> QED
    BY <2>1, <2>3 DEF c
<1> QED
  BY <1>1, <1>3, <1>4, <1>5, <1>6, <1>7, <1>8, <1>9 DEF Updates

\* The steps of a review that read, up to the end of tuicr.
LEMMA ReviewKeepsSession ==
    ASSUME BaseInv, SessionInv, NEW p \in Proc,
           \/ StartReview(p) \/ SurveyHead(p) \/ SurveyLoad(p) \/ PlanHead(p)
           \/ Launch(p) \/ LaunchFails(p) \/ TuicrQuits(p) \/ TuicrFails(p)
    PROVE  SessionInv'
<1> DEFINE c == ctx[p]
<1>1. c \in Context /\ Sound(pc[p], c, attempts)
  BY Base DEF SessionInv
<1>2. CASE StartReview(p)
  <2>1. PICK o \in Options : Start(p, "survey", TRUE, [Blank EXCEPT !.option = o])
    BY <1>2 DEF StartReview
  <2>2. Sound("survey", [Blank EXCEPT !.option = o], attempts)
    BY DEF Sound, NotVisited, Blank
  <2> QED
    BY <2>1, <2>2, StartKeepsSession
<1>3. CASE SurveyHead(p) \/ PlanHead(p)
  <2> DEFINE seen == [c EXCEPT !.view = head]
  <2>1. seen \in Context /\ seen.visited = c.visited /\ seen.option = c.option
    BY <1>1, Base DEF Context, HistoryInv
  <2>2. PICK step \in {"surveyed", "planned"} : Move(p, step, seen)
    BY <1>3 DEF SurveyHead, PlanHead
  <2>3. attempts' = attempts /\ pc[p] \in {"survey", "plan"}
    BY <1>3 DEF SurveyHead, PlanHead, Reads
  <2> HIDE DEF seen, c
  <2>4. Sound(step, seen, attempts)
    BY <1>1, <2>1, <2>2, <2>3 DEF Sound, NotVisited, ReviewPlaces
  <2> QED
    BY <2>1, <2>2, <2>3, <2>4, ReadKeepsSession
<1>4. CASE SurveyLoad(p)
  <2>1. PICK step \in {"plan", "discard"} : Move(p, step, c)
    BY <1>4 DEF SurveyLoad, Goto
  <2>2. attempts' = attempts /\ pc[p] = "surveyed"
    BY <1>4 DEF SurveyLoad, Reads
  <2>3. Sound(step, c, attempts)
    BY <1>1, <2>1, <2>2 DEF Sound, ReviewPlaces
  <2> QED
    BY <1>1, <2>1, <2>2, <2>3, ReadKeepsSession
<1>5. CASE Launch(p)
  <2>1. Move(p, "tuicr", c) /\ attempts' = attempts /\ pc[p] = "launch"
    BY <1>5 DEF Launch, Goto
  <2>2. Sound("tuicr", c, attempts)
    BY <1>1, <2>1 DEF Sound, ReviewPlaces
  <2> QED
    BY <1>1, <2>1, <2>2, ReadKeepsSession
<1>6. CASE LaunchFails(p) \/ TuicrFails(p)
  <2>1. Move(p, "fail", c) /\ attempts' = attempts
    BY <1>6 DEF LaunchFails, TuicrFails, Goto, Reads
  <2> QED
    BY <1>1, <2>1, ReadKeepsSession DEF ReviewPlaces
<1>7. CASE TuicrQuits(p)
  <2>1. PICK outcome \in Outcomes : Move(p, "finish", [c EXCEPT !.outcome = outcome])
    BY <1>7 DEF TuicrQuits
  <2> DEFINE d == [c EXCEPT !.outcome = outcome]
  <2>2. d \in Context /\ d.visited = c.visited /\ d.option = c.option
        /\ d.current = c.current /\ d.todo = c.todo
    BY <1>1 DEF Context
  <2>3. attempts' = attempts /\ pc[p] = "tuicr"
    BY <1>7 DEF TuicrQuits
  <2> HIDE DEF d, c
  <2>4. Sound("finish", d, attempts)
    BY <1>1, <2>2, <2>3 DEF Sound, NotVisited, Intact, ReviewPlaces
  <2> QED
    BY <2>1, <2>2, <2>3, <2>4, ReadKeepsSession DEF d
<1> QED
  BY <1>2, <1>3, <1>4, <1>5, <1>6, <1>7

LEMMA WriteKeepsSession ==
    ASSUME BaseInv, WriterInv, SessionInv, NEW p \in Proc, Write(p) PROVE SessionInv'
<1> DEFINE step == Written(pc[p], ctx[p])
           c == Remembered(pc[p], ctx[p])
<1>1. phase[p] = "write" /\ attempts' = draft[p] /\ Move(p, step, c)
  BY DEF Write
<1>2. c \in Context
  BY RememberedTyped, Base
<1>3. \A q \in Proc : q # p => Sound(pc[q], ctx[q], attempts')
  BY <1>1, OthersStaySound
<1>4. OneReviewPerKey(attempts') /\ (step = "idle" \/ Sound(step, c, attempts'))
  BY <1>1, WriterStaysSound
<1> HIDE DEF step, c
<1> QED
  BY <1>1, <1>2, <1>3, <1>4, MoveKeepsSession

LEMMA SessionInvStep ==
    BaseInv /\ WriterInv /\ SessionInv /\ [Next]_vars => SessionInv'
<1> SUFFICES ASSUME BaseInv, WriterInv, SessionInv, [Next]_vars PROVE SessionInv'
  OBVIOUS
<1>0. \A p \in Proc : ctx[p] \in Context
  BY Base
<1>1. ASSUME NEW p \in Reviewers, StartReview(p) \/ ReviewStep(p) PROVE SessionInv'
  <2>0. p \in Proc
    BY DEF Proc
  <2>1. CASE \/ StartReview(p) \/ SurveyHead(p) \/ SurveyLoad(p) \/ PlanHead(p)
             \/ Launch(p) \/ LaunchFails(p) \/ TuicrQuits(p) \/ TuicrFails(p)
    BY <2>0, <2>1, ReviewKeepsSession
  <2>2. CASE PlanLoad(p)
    BY <2>0, <2>2, PlanKeepsSession
  <2>3. CASE Discard(p) \/ Begin(p) \/ Resume(p) \/ Finish(p) \/ Fail(p)
    BY <2>0, <2>3, EnterKeepsSession DEF Discard, Begin, Resume, Finish, Fail
  <2> QED
    BY <1>1, <2>1, <2>2, <2>3 DEF ReviewStep
<1>2. ASSUME NEW p \in Approvers, StartApprove(p) \/ Approve(p) PROVE SessionInv'
  <2>0. p \in Proc
    BY DEF Proc
  <2>1. CASE StartApprove(p)
    <3>1. PICK c : Start(p, "approve", FALSE, c)
      BY <2>1 DEF StartApprove
    <3> QED
      BY <2>0, <3>1, StartKeepsSession, OutsideIsSound DEF ReviewPlaces
  <2>2. CASE Approve(p)
    BY <2>0, <2>2, EnterKeepsSession DEF Approve
  <2> QED
    BY <1>2, <2>1, <2>2
<1>3. ASSUME NEW p \in Autos, StartAuto(p) \/ AutoStep(p) PROVE SessionInv'
  <2>0. p \in Proc /\ ctx[p] \in Context
    BY <1>0 DEF Proc
  <2>1. CASE StartAuto(p)
    BY <2>0, <2>1, StartKeepsSession, OutsideIsSound DEF StartAuto, ReviewPlaces
  <2>2. CASE Record(p)
    BY <2>0, <2>2, EnterKeepsSession DEF Record
  <2>3. CASE SampleHead(p) \/ SampleLoad(p) \/ Evaluate(p) \/ SkipStack(p) \/ EndAuto(p)
    <3>1. /\ attempts' = attempts
          /\ \E step \in {"sampled", "idle", "evaluate", "record"} : \E c : Move(p, step, c)
      BY <2>3 DEF SampleHead, SampleLoad, Evaluate, SkipStack, EndAuto, Goto, Reads
    <3>2. PICK step \in {"sampled", "idle", "evaluate", "record"} : \E c : Move(p, step, c)
      BY <3>1
    <3> PICK c : Move(p, step, c)
      BY <3>2
    <3>3. CASE step = "idle"
      <4>1. Move(p, "idle", ctx[p])
        BY <3>2, <3>3 DEF Move
      <4> QED
        BY <2>0, <3>1, <4>1, ReadKeepsSession DEF ReviewPlaces
    <3>4. CASE step # "idle"
      <4>1. pc' = [pc EXCEPT ![p] = step] /\ ctx' = [ctx EXCEPT ![p] = c]
        BY <3>2, <3>4 DEF Move
      <4>2. Sound(step, c, attempts')
        BY <3>2, OutsideIsSound DEF ReviewPlaces
      <4> QED
        BY <2>0, <3>1, <4>1, <4>2, GoKeepsSession DEF SessionInv
    <3> QED
      BY <3>3, <3>4
  <2> QED
    BY <1>3, <2>1, <2>2, <2>3 DEF AutoStep
<1>4. ASSUME NEW p \in Resetters, StartReset(p) \/ ResetStep(p) PROVE SessionInv'
  <2>0. p \in Proc /\ ctx[p] \in Context
    BY <1>0 DEF Proc
  <2>1. CASE StartReset(p)
    <3>1. PICK c : Start(p, "lock", FALSE, c)
      BY <2>1 DEF StartReset
    <3> QED
      BY <2>0, <3>1, StartKeepsSession, OutsideIsSound DEF ReviewPlaces
  <2>2. CASE LockReset(p) /\ FlockFree
    <3>1. pc' = [pc EXCEPT ![p] = "clear"] /\ ctx' = [ctx EXCEPT ![p] = ctx[p]]
          /\ attempts' = attempts
      BY <2>0, <2>2, Base DEF LockReset, MemoryInv, Reads
    <3> QED
      BY <2>0, <3>1, GoKeepsSession, OutsideIsSound DEF ReviewPlaces, SessionInv
  <2>3. CASE LockReset(p) /\ ~FlockFree
    BY <2>0, <2>3, ReadKeepsSession DEF LockReset, Goto, Reads, ReviewPlaces
  <2>4. CASE Clear(p)
    BY <2>0, <2>4, EnterKeepsSession DEF Clear
  <2> QED
    BY <1>4, <2>1, <2>2, <2>3, <2>4 DEF ResetStep
<1>5. ASSUME NEW p \in Proc, UpdateStep(p) \/ Crash(p) \/ OrphanQuits(p) PROVE SessionInv'
  <2> DEFINE c == ctx[p]
  <2>0. c \in Context
    BY <1>0
  <2>1. CASE Busy(p) \/ Abort(p)
    <3>1. Move(p, Refused(pc[p]), c) /\ attempts' = attempts /\ Sound(pc[p], c, attempts)
      BY <2>1 DEF Busy, Abort, Goto, SessionInv
    <3>2. Refused(pc[p]) \in {"plan", "fail", "idle"} /\ (Refused(pc[p]) = "plan" => pc[p] = "discard")
      BY DEF Refused
    <3>3. Refused(pc[p]) = "plan" => Sound("plan", c, attempts)
      BY <3>1, <3>2 DEF Sound, ReviewPlaces
    <3>4. Refused(pc[p]) \notin ReviewPlaces \/ Sound(Refused(pc[p]), c, attempts)
      BY <3>2, <3>3 DEF ReviewPlaces
    <3> QED
      BY <2>0, <3>1, <3>4, ReadKeepsSession
  <2>2. CASE Write(p)
    BY <2>2, WriteKeepsSession
  <2>3. CASE Crash(p)
    <3>1. CASE attempts' = attempts
      BY <2>0, <2>3, <3>1, ReadKeepsSession DEF Crash, Goto, ReviewPlaces
    <3>2. CASE phase[p] = "write" /\ attempts' = draft[p]
      <4>1. Move(p, "idle", c)
        BY <2>3 DEF Crash, Goto
      <4>2. /\ OneReviewPerKey(attempts')
            /\ \A q \in Proc : q # p => Sound(pc[q], ctx[q], attempts')
        BY <3>2, OthersStaySound, WriterStaysSound
      <4> QED
        BY <2>0, <4>1, <4>2, MoveKeepsSession
    <3> QED
      BY <2>3, <3>1, <3>2 DEF Crash
  <2>4. CASE OrphanQuits(p)
    BY <2>4 DEF OrphanQuits, SessionInv
  <2> QED
    BY <1>5, <2>1, <2>2, <2>3, <2>4 DEF UpdateStep
<1>6. CASE Rewrite \/ RemoveLock
  BY <1>6 DEF Rewrite, RemoveLock, SessionInv
<1>7. CASE UNCHANGED vars
  BY <1>7 DEF vars, SessionInv
<1>8. Reviewers \cup Approvers \cup Autos \cup Resetters = Proc
  BY DEF Proc
<1> QED
  BY <1>1, <1>2, <1>3, <1>4, <1>5, <1>6, <1>7 DEF Next

LEMMA SessionInvariant == Spec => [](BaseInv /\ WriterInv /\ SessionInv)
<1>1. Init => SessionInv
  BY DEF Init, SessionInv, OneReviewPerKey, Sound, ReviewPlaces
<1> QED
  BY <1>1, SessionInvStep, WriterInvariant, PTL DEF Spec

\* In one invocation of timber review commits, no stack is opened twice
\* (Reviewer.Review, "Each eligible stack opens once per invocation").
THEOREM ReviewsOpenOnce == Spec => []OpensOnce
<1>1. SessionInv => OpensOnce
  BY DEF SessionInv, Sound, OpensOnce, Proc
<1> QED
  BY <1>1, SessionInvariant, PTL

\* Whatever the other commands do, the attempt of a review that runs is in the
\* history and open until its result is recorded (Reviewer.finish).
THEOREM RunningAttemptsStay == Spec => []RunningAttemptIntact
<1>1. SessionInv => RunningAttemptIntact
  BY DEF SessionInv, Sound, Intact, RunningAttemptIntact, Proc
<1> QED
  BY <1>1, SessionInvariant, PTL

\* A new review leaves itself as the only open attempt of its view (beginAttempt).
THEOREM BeginClosesThePrior == Spec => BeginLeavesOneActive
<1>1. BaseInv /\ WriterInv /\ SessionInv /\ [Next]_vars => [LeavesOneActive]_attempts
  <2> SUFFICES ASSUME BaseInv, WriterInv, SessionInv, [Next]_vars, NEW p \in Reviewers,
                      pc[p] = "begin", phase[p] = "write", attempts' # attempts
               PROVE  ActiveAttempts(ctx[p].view, attempts') = {ctx[p].current}
    BY DEF LeavesOneActive
  <2> DEFINE c == ctx[p]
             s == c.todo[1]
             new == NewAttempt(s, "reviewing", "")
             i == c.current
             h == attempts
             g == attempts'
             replaced == [j \in DOMAIN h |-> IF j = c.prior /\ h[j].status = "reviewing"
                            THEN [h[j] EXCEPT !.status = "incomplete"] ELSE h[j]]
  <2>1. p \in Proc
    BY DEF Proc
  <2>2. g = draft[p]
    <3>1. PICK q \in Proc : Replaces(q)
      BY StepKinds DEF Quiet, Enters, Discard, Begin, Resume, Finish, Fail, Approve, Record,
                       Clear, Enter, Edited
    <3>2. q = p
      BY <2>1, <3>1 DEF Replaces, BaseInv, FileLockInv, UpdatesAreExclusive
    <3> QED
      BY <3>1, <3>2 DEF Replaces
  <2>3. /\ OnlyActive(c.view, h, c.prior) /\ i \notin DOMAIN h
        /\ g = Begun(h, c.prior, i, s) /\ c.view \in Views /\ s \in Range(c.view)
    BY <2>1, <2>2, Base DEF WriterInv, DraftOf, SessionInv, Sound, Memory
  <2>4. /\ new.status = "reviewing" /\ new.stack = s
        /\ g = Add(replaced, i, new) /\ DOMAIN replaced = DOMAIN h
    BY <2>3 DEF NewAttempt, Begun
  <2>5. \A j \in DOMAIN h : h[j] \in Attempt(Stacks)
    BY Base DEF HistoryInv, IsHistory
  <2>6. ASSUME NEW j \in DOMAIN h PROVE replaced[j].status = "reviewing" =>
            j # c.prior /\ replaced[j] = h[j]
    <3>1. CASE j = c.prior /\ h[j].status = "reviewing"
      <4>1. replaced[j] = [h[j] EXCEPT !.status = "incomplete"] /\ h[j] \in Attempt(Stacks)
        BY <2>5, <3>1
      <4>2. replaced[j].status = "incomplete"
        BY <4>1 DEF Attempt
      <4> QED
        BY <4>2
    <3>2. CASE ~(j = c.prior /\ h[j].status = "reviewing")
      BY <3>2
    <3> QED
      BY <3>1, <3>2
  <2> HIDE DEF replaced, new, g
  <2>7. DOMAIN g = DOMAIN h \cup {i} /\ g[i] = new /\ \A j \in DOMAIN g \ {i} : g[j] = replaced[j]
    BY <2>4 DEF Add
  <2>8. i \in ActiveAttempts(c.view, g)
    <3>1. s \in Stacks
      BY <2>3, ViewTyped, InViewIsStack
    <3>2. ~Unusable(g[i], c.view)
      BY <2>3, <2>4, <2>7, <3>1, KeyInViewIsUsable DEF Unusable
    <3> QED
      BY <2>4, <2>7, <3>2 DEF ActiveAttempts
  <2>9. ASSUME NEW j \in ActiveAttempts(c.view, g), j # i PROVE FALSE
    <3>1. j \in DOMAIN h /\ g[j] = replaced[j] /\ g[j].status = "reviewing"
          /\ ~Unusable(g[j], c.view)
      BY <2>7, <2>9 DEF ActiveAttempts
    <3>2. j # c.prior /\ g[j] = h[j]
      BY <2>6, <3>1
    <3>3. j \in ActiveAttempts(c.view, h)
      BY <3>1, <3>2 DEF ActiveAttempts
    <3> QED
      BY <2>3, <3>2, <3>3 DEF OnlyActive
  <2> QED
    <3>1. ActiveAttempts(c.view, g) = {i}
      <4> HIDE DEF i, c
      <4> QED
        BY <2>8, <2>9
    <3> QED
      BY <3>1 DEF g
<1> QED
  BY <1>1, SessionInvariant, PTL DEF Spec, BeginLeavesOneActive

-----------------------------------------------------------------------------
(***************************************************************************)
(* Results that follow their patch.                                        *)
(***************************************************************************)
NoneAddressed == \A i \in DOMAIN attempts : attempts[i].status # "addressed"

\* The attempts that decide for a stack are those of its patch.
LEMMA DecidesByPatch ==
    ASSUME NEW s \in Stacks, s.patch # "",
           NEW a, a.stack \in Stacks, a.status # "addressed"
    PROVE  /\ ~Resets(a, s)
           /\ Decides(a, s) <=> a.stack.patch = s.patch
BY FingerprintsAssumption DEF Decides, Resets, Matches, SamePatch

LEMMA UserResultMatches ==
    ASSUME NEW a, NEW s, a.source # "model", Matches(a, s)
    PROVE  SameStack(a.stack, s) \/ (SamePatch(a.stack, s) /\ SameMessage(a.stack, s))
<1>1. \/ SameStack(a.stack, s)
      \/ /\ a.status \in {"approved", "feedback", "auto_reviewed"}
         /\ SamePatch(a.stack, s)
         /\ SameMessage(a.stack, s)
  BY Zenon DEF Matches
<1> QED
  BY <1>1

LEMMA ResultFollowsPatch ==
    ASSUME NEW n \in Nat, NEW h, DOMAIN h \subseteq 1 .. n,
           \A i \in DOMAIN h : h[i].stack \in Stacks /\ h[i].status # "addressed",
           NEW s \in Stacks, NEW t \in Stacks, SamePatch(s, t), SameMessage(s, t),
           Latest(h, s) # None, h[Latest(h, s)].status \in UserResults,
           h[Latest(h, s)].source # "model"
    PROVE  Latest(h, t) = Latest(h, s)
<1> DEFINE last(u) == Newest({i \in DOMAIN h : Decides(h[i], u)})
           a == Latest(h, s)
<1>1. \A u : Latest(h, u) = IF last(u) = None \/ Resets(h[last(u)], u) \/ ~Matches(h[last(u)], u)
                              THEN None ELSE last(u)
  BY DEF Latest
<1>2. last(t) = last(s)
  <2>1. s.patch = t.patch /\ s.patch # ""
    BY DEF SamePatch
  <2>2. \A i \in DOMAIN h : Decides(h[i], s) <=> Decides(h[i], t)
    BY <2>1, DecidesByPatch
  <2>3. {i \in DOMAIN h : Decides(h[i], s)} = {i \in DOMAIN h : Decides(h[i], t)}
    BY <2>2
  <2> QED
    BY <2>3
<1>3. a \in DOMAIN h /\ Matches(h[a], s) /\ last(s) = a /\ a # None
  <2>1. a \in DOMAIN h /\ Matches(h[a], s)
    BY LatestPicks
  <2> HIDE DEF last
  <2> QED
    BY <1>1, <2>1
<1>4. Matches(h[a], t)
  <2> DEFINE b == h[a]
  <2>1. SamePatch(b.stack, s) /\ SameMessage(b.stack, s)
    <3>1. b.stack \in Stacks /\ b.source # "model" /\ Matches(b, s)
      BY <1>3
    <3> HIDE DEF b
    <3>2. SameStack(b.stack, s) \/ (SamePatch(b.stack, s) /\ SameMessage(b.stack, s))
      BY <3>1, UserResultMatches
    <3> QED
      BY <3>1, <3>2, FingerprintsAssumption DEF SamePatch, SameMessage
  <2>2. SamePatch(b.stack, t) /\ SameMessage(b.stack, t)
    BY <2>1 DEF SamePatch, SameMessage
  <2> QED
    BY <2>2 DEF Matches, UserResults
<1>5. ~Resets(h[a], t)
  BY <1>3 DEF Resets
<1> HIDE DEF last, a
<1>6. Latest(h, t) = a
  BY <1>1, <1>2, <1>3, <1>4, <1>5
<1> QED
  BY <1>6 DEF a

\* No command writes the status "addressed".
LEMMA NoneAddressedStep ==
    BaseInv /\ WriterInv /\ NoneAddressed /\ [Next]_vars => NoneAddressed'
<1> SUFFICES ASSUME BaseInv, WriterInv, NoneAddressed, [Next]_vars PROVE NoneAddressed'
  OBVIOUS
<1>1. CASE attempts' = attempts
  BY <1>1 DEF NoneAddressed
<1>2. ASSUME NEW p \in Proc, Replaces(p) PROVE NoneAddressed'
  <2> DEFINE c == ctx[p]
             h == attempts
  <2>1. /\ pc[p] \in Updates /\ DraftOf(p, c) /\ Memory(pc[p], c) /\ attempts' = draft[p]
        /\ \A j \in DOMAIN h : h[j] \in Attempt(Stacks)
    BY <1>2, Base DEF Replaces, BaseInv, PhaseInv, WriterInv, HistoryInv, IsHistory
  <2>2. \A j \in DOMAIN h : h[j].status # "addressed"
    BY DEF NoneAddressed
  <2>3. ASSUME NEW i, NEW status, i \in DOMAIN h, status # "addressed",
               NEW g, g = WithStatus(h, i, status)
        PROVE  \A j \in DOMAIN g : g[j].status # "addressed"
    <3>1. h[i] \in Attempt(Stacks)
      BY <2>1, <2>3
    <3>2. [h[i] EXCEPT !.status = status].status = status
      BY <3>1 DEF Attempt
    <3> QED
      BY <2>2, <2>3, <3>2 DEF WithStatus
  <2>4. \A s, status, source : NewAttempt(s, status, source).status = status
    BY DEF NewAttempt
  <2> HIDE DEF c, h
  <2> SUFFICES \A j \in DOMAIN draft[p] : draft[p][j].status # "addressed"
    BY <2>1 DEF NoneAddressed
  <2>5. CASE pc[p] \in {"discard", "clear"}
    <3>1. draft[p] = Discarded(h, c.view) \/ draft[p] = Cleared(h, c.todo)
      BY <2>1, <2>5 DEF DraftOf, h
    <3> QED
      BY <2>2, <3>1 DEF Discarded, Cleared, Restrict
  <2>6. CASE pc[p] = "begin"
    <3> DEFINE new == NewAttempt(c.todo[1], "reviewing", "")
               replaced == [j \in DOMAIN h |-> IF j = c.prior /\ h[j].status = "reviewing"
                              THEN [h[j] EXCEPT !.status = "incomplete"] ELSE h[j]]
    <3>1. draft[p] = Add(replaced, c.current, new)
      BY <2>1, <2>6 DEF DraftOf, Begun, h
    <3>2. DOMAIN replaced = DOMAIN h /\ \A j \in DOMAIN h : replaced[j].status # "addressed"
      <4> SUFFICES ASSUME NEW j \in DOMAIN h PROVE replaced[j].status # "addressed"
        OBVIOUS
      <4>1. [h[j] EXCEPT !.status = "incomplete"].status = "incomplete"
        BY <2>1 DEF Attempt, h
      <4> QED
        BY <2>2, <4>1
    <3>3. new.status = "reviewing"
      BY <2>4
    <3> HIDE DEF new, replaced
    <3> QED
      BY <3>1, <3>2, <3>3 DEF Add
  <2>7. CASE pc[p] = "resume"
    BY <2>1, <2>3, <2>7 DEF DraftOf, h
  <2>8. CASE pc[p] = "finish"
    <3>1. c.current \in DOMAIN h /\ draft[p] = Finished(h, c.current, c.outcome)
          /\ c.outcome \in Outcomes
      BY <2>1, <2>8 DEF DraftOf, Memory, h
    <3>2. CASE c.outcome = "untouched"
      BY <2>2, <3>1, <3>2 DEF Finished, Restrict
    <3>3. CASE c.outcome # "untouched"
      BY <2>3, <3>1, <3>3 DEF Finished, Outcomes
    <3> QED
      BY <3>2, <3>3
  <2>9. CASE pc[p] = "fail"
    <3>1. c.current \in DOMAIN h /\ draft[p] = Failed(h, c.current)
      BY <2>1, <2>9 DEF DraftOf, h
    <3> QED
      BY <2>2, <2>3, <3>1 DEF Failed
  <2>10. CASE pc[p] = "approve"
    BY <2>1, <2>2, <2>4, <2>10 DEF DraftOf, Approved, h
  <2>11. CASE pc[p] = "record"
    <3> DEFINE status == IF c.outcome = "approve" THEN "approved" ELSE "auto_reviewed"
    <3>1. draft[p] = Add(h, nextId - 1, NewAttempt(c.todo[1], status, "model"))
      BY <2>1, <2>11 DEF DraftOf, h
    <3>2. status # "addressed"
      OBVIOUS
    <3> HIDE DEF status
    <3> QED
      BY <2>2, <2>4, <3>1, <3>2 DEF Add
  <2> QED
    BY <2>1, <2>5, <2>6, <2>7, <2>8, <2>9, <2>10, <2>11 DEF Updates
<1> QED
  BY <1>1, <1>2, StepKinds DEF Quiet, Enters, Discard, Begin, Resume, Finish, Fail, Approve, Record,
                               Clear, Enter, Edited

\* A rewrite that keeps the patch and the message of a stack keeps the result that
\* the user gave it (State.latest, matches).
THEOREM UserReviewsFollowPatches == Spec => RebaseKeepsUserReview
<1>1. Init => NoneAddressed
  BY DEF Init, NoneAddressed
<1>2. BaseInv /\ WriterInv /\ NoneAddressed /\ [Next]_vars => [KeepsUserReview]_head
  <2> SUFFICES ASSUME BaseInv, WriterInv, NoneAddressed, [Next]_vars,
                      NEW i \in DOMAIN head, NEW j \in DOMAIN head',
                      SamePatch(head[i], head'[j]), SameMessage(head[i], head'[j]),
                      Latest(attempts, head[i]) # None,
                      attempts[Latest(attempts, head[i])].status \in UserResults,
                      attempts[Latest(attempts, head[i])].source # "model"
               PROVE  Latest(attempts, head'[j]) = Latest(attempts, head[i])
    BY DEF KeepsUserReview
  <2>1. head \in Seq(Stacks) /\ head' \in Seq(Stacks)
    <3>1. DataInv'
      BY DataInvStep, Base DEF BaseInv
    <3> QED
      BY <3>1, Base, ViewTyped DEF DataInv, HistoryInv
  <2>2. head[i] \in Stacks /\ head'[j] \in Stacks
    BY <2>1
  <2>3. DOMAIN attempts \subseteq 1 .. (nextId - 1) /\ nextId - 1 \in Nat
    BY FreePosition, Base DEF BaseInv, HistoryInv, IsHistory
  <2>4. \A k \in DOMAIN attempts : attempts[k].stack \in Stacks /\ attempts[k].status # "addressed"
    BY Base DEF HistoryInv, IsHistory, Attempt, NoneAddressed
  <2> QED
    BY <2>2, <2>3, <2>4, ResultFollowsPatch
<1> QED
  BY <1>1, <1>2, NoneAddressedStep, WriterInvariant, PTL DEF Spec, RebaseKeepsUserReview
=============================================================================

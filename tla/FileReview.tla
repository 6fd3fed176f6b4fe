----------------------------- MODULE FileReview -----------------------------
(***************************************************************************)
(* `timber review files`: check the scope, take the lock of the review     *)
(* worktree, run tuicr, and report the session that tuicr saved.  tuicr is *)
(* not told which session to write and does not say which one it wrote:    *)
(* Timber looks it up by the kind of the diff and the directory.  The lock *)
(* is inherited by tuicr, which can outlive Timber.                        *)
(*                                                                         *)
(* One worktree; the reviews of commits, which take the same lock, are in  *)
(* ReviewProtocol.                                                         *)
(***************************************************************************)
EXTENDS Integers, FiniteSets, Functions

CONSTANTS
    Reviewers,      \* processes
    NoReviewer,     \* not a process
    Dirs,           \* directories of the worktree; "." is its root
    MaxReviews,     \* bound on the reviews started
    MaxSaves,       \* bound on what tuicr writes
    MaxHead         \* bound on the commits of the branch

ASSUME FileReviewAssumption ==
    /\ NoReviewer \notin Reviewers /\ "." \in Dirs
    /\ {MaxReviews, MaxSaves, MaxHead} \subseteq Nat

VARIABLES
    store,      \* the sessions of tuicr: number |-> session
    reviewing,  \* who holds the lock of the review worktree
    tip,        \* the number of commits on the branch after the merge-base
    fileReview, \* what each process does
    reviews, saves

fileVars == <<store, reviewing, tip, fileReview, reviews, saves>>
----------------------------------------------------------------------------
(***************************************************************************)
(* Scopes and sessions.                                                    *)
(***************************************************************************)
DiffSources == {"pristine", "working_tree", "commit_range"}
Scopes == [source : DiffSources, root : Dirs, range : 0..MaxHead]

\* A path names a directory or a file in it.
NoPath == [there |-> FALSE, dir |-> ".", file |-> FALSE]
Paths == {NoPath} \cup [there : {TRUE}, dir : Dirs, file : BOOLEAN]
FilesOptions == [all : BOOLEAN, path : Paths, untracked : BOOLEAN, cwd : Dirs]

\* validateFileScope.
ConflictingScope(o) == (o.all /\ (o.untracked \/ o.path.there)) \/ (o.untracked /\ o.path.there)

ReviewsBranch(o) == ~o.all /\ ~o.untracked /\ ~o.path.there

\* fileSessionRoot: a file stands for its directory, no path for the current one.
FileSessionRoot(o) == IF o.path.there THEN o.path.dir ELSE o.cwd

\* A branch diff runs at the root, so its session has one name everywhere.
ScopeOf(o) ==
    IF ReviewsBranch(o) THEN [source |-> "commit_range", root |-> ".", range |-> tip]
    ELSE [source |-> IF o.all THEN "pristine" ELSE "working_tree",
          root |-> FileSessionRoot(o), range |-> 0]

\* marks: how many files are marked as reviewed; said: comments or notes.
Sessions == [scope : Scopes, marks : {"none", "some", "all"}, said : BOOLEAN, time : 1..MaxSaves]

\* SavedReview.Status.
SavedStatus(session) ==
    IF session.said THEN "feedback" ELSE IF session.marks = "all" THEN "approved" ELSE "incomplete"

\* untouchedFileReview.
Untouched(session) == SavedStatus(session) = "incomplete" /\ session.marks = "none"

\* fileReviewResult.
FileReviewResult(session) == IF Untouched(session) THEN "cancelled" ELSE SavedStatus(session)

\* matchFileSession, matchSession.
Matching(scope) == {n \in DOMAIN store : store[n].scope = scope}

\* newestCandidate: the last one in the index.
NewestCandidate(found) == CHOOSE n \in found : \A m \in found : store[n].time >= store[m].time

\* fileFeedbackSource: branch diffs of `files` are the ones at the root.
FeedbackSource(scope) == scope.source # "commit_range" \/ scope.root = "."

\* readFileFeedbackEntry.
HasFileFeedback(session) == FeedbackSource(session.scope) /\ SavedStatus(session) = "feedback"

\* SavedReader.FileFeedback, at the root of the worktree.
FileFeedback == {n \in DOMAIN store : HasFileFeedback(store[n])}
----------------------------------------------------------------------------
\* mine: the session that the tuicr of this review has written.
NoScope == [source |-> "working_tree", root |-> ".", range |-> 0]
NoFileReview == [step |-> "idle", scope |-> NoScope, mine |-> 0, session |-> 0, status |-> "none"]

FilesInit ==
    /\ store = <<>>
    /\ reviewing = NoReviewer
    /\ tip \in 0..MaxHead
    /\ fileReview = [r \in Reviewers |-> NoFileReview]
    /\ reviews = 0 /\ saves = 0

Step(r, step) == fileReview[r].step = step
Reported(r, session, status) ==
    fileReview' = [fileReview EXCEPT ![r].step = "done", ![r].session = session, ![r].status = status]

StartFiles(r) ==
    /\ Step(r, "idle") /\ reviews < MaxReviews
    /\ reviews' = reviews + 1
    /\ \E o \in FilesOptions :
         IF ConflictingScope(o)
         THEN Reported(r, 0, "error")
         ELSE fileReview' = [fileReview EXCEPT ![r].step = "lock", ![r].scope = ScopeOf(o)]
    /\ UNCHANGED <<store, reviewing, tip, saves>>

\* A mutant of LockReview: two reviews may run at once.
LockAlways(r) ==
    /\ Step(r, "lock")
    /\ fileReview' = [fileReview EXCEPT ![r].step = "launch"]
    /\ UNCHANGED <<store, reviewing, tip, reviews, saves>>

\* lockReview: it does not wait.
LockReview(r) ==
    /\ Step(r, "lock")
    /\ IF reviewing = NoReviewer
       THEN reviewing' = r /\ fileReview' = [fileReview EXCEPT ![r].step = "launch"]
       ELSE Reported(r, 0, "error") /\ UNCHANGED reviewing
    /\ UNCHANGED <<store, tip, reviews, saves>>

Release(r) == reviewing' = IF reviewing = r THEN NoReviewer ELSE reviewing

\* reviewBranchDiff reads the branch now; without commits there is nothing to
\* review, without one merge-base with an upstream it fails.
Launch(r) ==
    LET branch == fileReview[r].scope.source = "commit_range"
    IN  /\ Step(r, "launch")
        /\ \/ /\ branch => tip > 0
              /\ fileReview' = [fileReview EXCEPT ![r].step = "tuicr",
                                                  ![r].scope.range = IF branch THEN tip ELSE 0]
              /\ UNCHANGED reviewing
           \/ /\ branch /\ tip = 0
              /\ Reported(r, 0, "cancelled") /\ Release(r)
           \/ /\ branch
              /\ Reported(r, 0, "error") /\ Release(r)
        /\ UNCHANGED <<store, tip, reviews, saves>>

\* tuicr continues a session of its scope or begins one, and keeps to it.
TuicrSaves(r) ==
    LET mine  == fileReview[r].mine
        fresh == saves + 1
    IN  /\ fileReview[r].step \in {"tuicr", "orphan"} /\ saves < MaxSaves
        /\ saves' = saves + 1
        /\ \E n \in IF mine # 0 THEN {mine} ELSE Matching(fileReview[r].scope) \cup {fresh},
              marks \in {"none", "some", "all"}, said \in BOOLEAN :
             /\ store' = [m \in DOMAIN store \cup {n} |->
                            IF m = n THEN [scope |-> fileReview[r].scope, marks |-> marks,
                                           said |-> said, time |-> fresh]
                            ELSE store[m]]
             /\ fileReview' = [fileReview EXCEPT ![r].mine = n]
        /\ UNCHANGED <<reviewing, tip, reviews>>

\* An interrupted tuicr is an error, whatever it saved.
TuicrExits(r) ==
    /\ Step(r, "tuicr")
    /\ \/ fileReview' = [fileReview EXCEPT ![r].step = "read"] /\ UNCHANGED reviewing
       \/ Reported(r, 0, "error") /\ Release(r)
    /\ UNCHANGED <<store, tip, reviews, saves>>

\* readFileStore or readStore, then fileReviewResult.
ReadFiles(r) ==
    LET found  == Matching(fileReview[r].scope)
        newest == NewestCandidate(found)
    IN  /\ Step(r, "read")
        /\ IF found = {}
           THEN Reported(r, 0, "cancelled")
           ELSE Reported(r, newest, FileReviewResult(store[newest]))
        /\ Release(r)
        /\ UNCHANGED <<store, tip, reviews, saves>>

EndFiles(r) ==
    /\ Step(r, "done")
    /\ fileReview' = [fileReview EXCEPT ![r] = NoFileReview]
    /\ UNCHANGED <<store, reviewing, tip, reviews, saves>>

\* Timber dies; tuicr, when it runs, goes on and keeps the lock.
DieInFiles(r) ==
    /\ fileReview[r].step \in {"launch", "tuicr", "read"}
    /\ IF Step(r, "tuicr")
       THEN fileReview' = [fileReview EXCEPT ![r].step = "orphan"] /\ UNCHANGED reviewing
       ELSE fileReview' = [fileReview EXCEPT ![r] = NoFileReview] /\ Release(r)
    /\ UNCHANGED <<store, tip, reviews, saves>>

OrphanExits(r) ==
    /\ Step(r, "orphan")
    /\ fileReview' = [fileReview EXCEPT ![r] = NoFileReview]
    /\ Release(r)
    /\ UNCHANGED <<store, tip, reviews, saves>>

\* The user commits, or drops commits, while a review runs.
MoveTip ==
    /\ tip' \in (0..MaxHead) \ {tip}
    /\ UNCHANGED <<store, reviewing, fileReview, reviews, saves>>

FilesNext ==
    \/ MoveTip
    \/ \E r \in Reviewers : \/ StartFiles(r) \/ LockReview(r) \/ Launch(r) \/ TuicrSaves(r)
                            \/ TuicrExits(r) \/ ReadFiles(r) \/ EndFiles(r)
                            \/ DieInFiles(r) \/ OrphanExits(r)

FilesSpec == FilesInit /\ [][FilesNext]_fileVars
----------------------------------------------------------------------------
FilesTypeOK ==
    /\ DOMAIN store \subseteq 1..MaxSaves /\ IsInjective([n \in DOMAIN store |-> store[n].time])
    /\ \A n \in DOMAIN store : store[n] \in Sessions
    /\ reviewing \in Reviewers \cup {NoReviewer}
    /\ tip \in 0..MaxHead
    /\ \A r \in Reviewers :
         /\ fileReview[r].scope \in Scopes
         /\ {fileReview[r].mine, fileReview[r].session} \subseteq 0..MaxSaves
         /\ fileReview[r].status \in {"none", "error", "cancelled", "incomplete", "approved", "feedback"}

\* A review that ends without an error reports the session that its own tuicr
\* wrote, if it wrote one, although other reviews of the same scope, tuicr
\* processes that outlive Timber, and older sessions use the same store; and the
\* feedback that it reports is listed by `timber review feedback` (ReadFiles,
\* FileFeedback).
ReportsItsOwnSession ==
    [][\A r \in Reviewers :
         fileReview[r].step = "read" /\ fileReview'[r].step = "done" =>
           /\ fileReview[r].mine # 0 => fileReview'[r].session = fileReview[r].mine
           /\ fileReview'[r].status = "feedback" => fileReview'[r].session \in FileFeedback]_fileVars
=============================================================================

--------------------------- MODULE SavedSessions ---------------------------
(***************************************************************************)
(* The saved sessions of tuicr and what Timber does to them (saved.go,     *)
(* carry.go, and the cleanup and reset that use them in run.go and         *)
(* service.go).                                                            *)
(*                                                                         *)
(* A session is a file, and index.json names the files.  Timber finds a    *)
(* session by the commits in its file; tuicr finds it by the name in the   *)
(* index, which holds the endpoints of the range.  tuicr stores the range  *)
(* newest first.  A review first carries the sessions of rewritten stacks  *)
(* over to the current stacks (file, then index), then deletes the         *)
(* sessions of stacks that are gone (index, then files), then opens tuicr. *)
(* A reset deletes the sessions of the stacks that it clears.              *)
(*                                                                         *)
(* Review and reset hold the worktree lock (ReviewProtocol), so one of     *)
(* them runs at a time; a process can die between any two writes.          *)
(***************************************************************************)
EXTENDS ReviewHistory

CONSTANTS
    Views,        \* the views that the branch can have
    MaxSessions,  \* bound on the session files written
    MaxRewrites,  \* bound on the rewrites of the branch
    MaxCrashes    \* bound on the deaths of a Timber process

Stacks == UNION {Range(v) : v \in Views}

ASSUME SessionBoundsAssumption ==
    MaxSessions \in Nat /\ MaxRewrites \in Nat /\ MaxCrashes \in Nat
\* A commit is in one stack of a branch (CommitStacks).
ASSUME ViewsAssumption ==
    /\ Views \subseteq Seq(Stacks)
    /\ \A s \in Stacks : s.commits \in Seq(STRING) \ {<<>>}
    /\ \A v \in Views : \A i, j \in DOMAIN v : v[i].commits[1] = v[j].commits[1] => i = j
\* A commit ID is a hash of the content and of the parent, so the commits of a stack
\* or their endpoints give all of it, while git keeps its settings (PatchCache).
ASSUME ContentAssumption ==
    \A s, t \in Stacks :
        Range(s.commits) = Range(t.commits) \/ Key(s) = Key(t) =>
            /\ SameStack(s, t)
            /\ s.patch = t.patch
            /\ s.message = t.message

VARIABLES
    history,   \* the attempts of the branch
    head,      \* the current view
    files,     \* the session files: number |-> [range, marks]
    index,     \* the rows of index.json: number of a file |-> [name, time]
    clock,     \* the time that the next row gets
    step,      \* what the running command does next, "idle" without one
    work,      \* what it remembers
    rewrites, crashes

vars == <<history, head, files, index, clock, step, work, rewrites, crashes>>

\* The work of a command: its view, the stacks still to treat, the step after
\* them, the file in move, and the files to unlink.
NoWork == [view |-> <<>>, queue |-> <<>>, after |-> "idle", moved |-> None, doomed |-> {}]

\* The name under which tuicr keeps the session of a stack (sessionSlug).
NameOf(s) == Key(s)

\* matchSession: the session shows exactly the commits of the stack, in any order.
Describes(file, s) == Range(files[file].range) = Range(s.commits)

\* SavedReader.Read: the newest session in the index that describes the stack.
Saved(s) ==
    LET found == {f \in DOMAIN index : f \in DOMAIN files /\ Describes(f, s)}
    IN  IF found = {} THEN None
        ELSE CHOOSE f \in found : \A g \in found : index[f].time >= index[g].time

\* The session that tuicr opens for a stack.
Opened(s) ==
    LET named == {f \in DOMAIN index : f \in DOMAIN files /\ index[f].name = NameOf(s)}
    IN  IF named = {} THEN None
        ELSE CHOOSE f \in named : \A g \in named : index[f].time >= index[g].time

Run(next, w) == step' = next /\ work' = IF next = "idle" THEN NoWork ELSE w

Environment == <<head, rewrites, crashes>>
----------------------------------------------------------------------------
(***************************************************************************)
(* Carrying sessions over (carrySavedReviews).                             *)
(***************************************************************************)
StartReview ==
    /\ step = "idle"
    /\ Run("carry", [NoWork EXCEPT !.view = head, !.queue = head])
    /\ UNCHANGED <<history, files, index, clock, Environment>>

\* Mutant: a mark on the message survives a reword.
CarriedWhole(session, from, to) ==
    [range |-> Reverse(to.commits), marks |-> session.marks]

\* Only marks on the message are lost, and only when the message is another one.
Carried(session, from, to) ==
    [range |-> Reverse(to.commits),
     marks |-> IF SameMessage(from, to) THEN session.marks ELSE session.marks \cap {to.patch}]

CarryFile ==
    LET to    == work.queue[1]
        prior == CarryablePrior(history, to)
        from  == history[prior].stack
        rest  == [work EXCEPT !.queue = Tail(@)]
    IN  /\ step = "carry"
        /\ work.queue # <<>>
        /\ IF prior = None \/ (prior # None /\ Saved(from) = None) \/ Saved(to) # None
             THEN Run("carry", rest) /\ UNCHANGED files
             ELSE /\ files' = [files EXCEPT ![Saved(from)] = Carried(@, from, to)]
                  /\ Run("carryIndex", [work EXCEPT !.moved = Saved(from)])
        /\ UNCHANGED <<history, index, clock, Environment>>

\* Mutant: the moved session keeps the name of the old range.
CarryTime ==
    /\ step = "carryIndex"
    /\ index' = [index EXCEPT ![work.moved].time = clock]
    /\ clock' = clock + 1
    /\ Run("carry", [work EXCEPT !.queue = Tail(@), !.moved = None])
    /\ UNCHANGED <<history, files, Environment>>

CarryIndex ==
    /\ step = "carryIndex"
    /\ index' = [index EXCEPT ![work.moved] = [name |-> NameOf(work.queue[1]), time |-> clock]]
    /\ clock' = clock + 1
    /\ Run("carry", [work EXCEPT !.queue = Tail(@), !.moved = None])
    /\ UNCHANGED <<history, files, Environment>>
----------------------------------------------------------------------------
(***************************************************************************)
(* Deleting sessions (SavedWriter.Delete), for a cleanup and for a reset.  *)
(***************************************************************************)
\* discardUnusable: the stacks of the attempts that the view has no place for.
Discard ==
    LET stale == {i \in DOMAIN history : \/ Superseded(history[i], work.view)
                                        \/ Lost(history[i], work.view)}
        stacks == {history[i].stack : i \in stale}
    IN  /\ step = "carry"
        /\ work.queue = <<>>
        /\ history' = Discarded(history, work.view)
        /\ Run("delete", [work EXCEPT !.queue = SetToSeq(stacks), !.after = "open"])
        /\ UNCHANGED <<files, index, clock, Environment>>

StartReset ==
    /\ step = "idle"
    /\ \E selected \in {head} \cup {<<head[i]>> : i \in DOMAIN head} :
         /\ history' = Cleared(history, selected)
         /\ Run("delete", [NoWork EXCEPT !.queue = selected, !.view = selected])
    /\ UNCHANGED <<files, index, clock, Environment>>

\* sessionCaptures compares the range in the order of the file.  A row without a
\* file matches every stack.
Captures(file, s) == file \notin DOMAIN files \/ files[file].range = s.commits

\* Mutant: the files go before the rows that name them.
DeleteFilesFirst ==
    LET matched == {f \in DOMAIN index : Captures(f, work.queue[1])}
    IN  /\ step = "delete"
        /\ work.queue # <<>>
        /\ IF matched \cap DOMAIN files # {}
             THEN /\ files' = Restrict(files, DOMAIN files \ matched)
                  /\ UNCHANGED <<index, step, work>>
             ELSE /\ index' = Restrict(index, DOMAIN index \ matched)
                  /\ Run("delete", [work EXCEPT !.queue = Tail(@)])
                  /\ UNCHANGED files
        /\ UNCHANGED <<history, clock, Environment>>

\* The index loses the rows, then the files are removed one by one.
DeleteRows ==
    LET matched == {f \in DOMAIN index : Captures(f, work.queue[1])}
    IN  /\ step = "delete"
        /\ work.queue # <<>>
        /\ index' = Restrict(index, DOMAIN index \ matched)
        /\ Run("unlink", [work EXCEPT !.doomed = matched \cap DOMAIN files])
        /\ UNCHANGED <<history, files, clock, Environment>>

Unlink ==
    /\ step = "unlink"
    /\ IF work.doomed = {}
         THEN Run("delete", [work EXCEPT !.queue = Tail(@)]) /\ UNCHANGED files
         ELSE \E f \in work.doomed : /\ files' = Restrict(files, DOMAIN files \ {f})
                                     /\ Run("unlink", [work EXCEPT !.doomed = @ \ {f}])
    /\ UNCHANGED <<history, index, clock, Environment>>

Deleted ==
    /\ step = "delete"
    /\ work.queue = <<>>
    /\ Run(work.after, work)
    /\ UNCHANGED <<history, files, index, clock, Environment>>

----------------------------------------------------------------------------
(***************************************************************************)
(* tuicr.  It opens the session with the name of the stack or a new one,   *)
(* and saves what the user has marked: the patch, the message or both.     *)
(* The attempt of the stack gets the result (ReviewProtocol).              *)
(***************************************************************************)
Reviewed(h, v, s, status) ==
    LET prior == PlannedPrior(v, h, s)
    IN  IF prior # None /\ SameStack(h[prior].stack, s)
          THEN WithStatus(h, prior, status)
          ELSE WithStatus(Begun(h, prior, clock, s), clock, status)

Review ==
    \E s \in Range(work.view) :
        LET file    == IF Opened(s) # None THEN Opened(s) ELSE clock
            earlier == IF Opened(s) # None THEN files[file].marks ELSE {}
        IN  /\ step = "open"
            /\ clock <= MaxSessions
            /\ \E marks \in SUBSET {s.patch, s.message} \ {{}} :
                 /\ earlier \subseteq marks
                 /\ files' = Add(files, file, [range |-> Reverse(s.commits), marks |-> marks])
                 /\ index' = Add(index, file, [name |-> NameOf(s), time |-> clock])
                 /\ history' = Reviewed(history, work.view, s,
                                  IF marks = {s.patch, s.message} THEN "approved" ELSE "incomplete")
            /\ clock' = clock + 1
            /\ Run("idle", work)
            /\ UNCHANGED Environment

\* Nothing waits for a review, or the user marks nothing.
Cancel ==
    /\ step = "open"
    /\ Run("idle", work)
    /\ UNCHANGED <<history, files, index, clock, Environment>>

Rewrite ==
    /\ rewrites < MaxRewrites
    /\ head' \in Views \ {head}
    /\ rewrites' = rewrites + 1
    /\ UNCHANGED <<history, files, index, clock, step, work, crashes>>

Crash ==
    /\ step # "idle"
    /\ crashes < MaxCrashes
    /\ crashes' = crashes + 1
    /\ Run("idle", work)
    /\ UNCHANGED <<history, head, files, index, clock, rewrites>>

Init ==
    /\ history = <<>>
    /\ head \in Views
    /\ files = <<>>
    /\ index = <<>>
    /\ clock = 1
    /\ step = "idle"
    /\ work = NoWork
    /\ rewrites = 0
    /\ crashes = 0

Next ==
    \/ StartReview \/ CarryFile \/ CarryIndex \/ Discard
    \/ StartReset \/ DeleteRows \/ Unlink \/ Deleted
    \/ Review \/ Cancel \/ Rewrite \/ Crash

Spec == Init /\ [][Next]_vars
----------------------------------------------------------------------------
(***************************************************************************)
(* Properties.                                                             *)
(***************************************************************************)
\* "A failure leaves an unused file and never an entry without a file" (saved.go):
\* wherever a command dies, every row of the index names a file.
EntriesHaveFiles == DOMAIN index \subseteq DOMAIN files

\* A mark on a session says that the user has read what the session shows: no
\* rewrite, and no death in the middle of a carry, moves a mark to a patch or a
\* message that the user has not marked (moveCarriedSession, keepMessage).
MarksAreCurrent ==
    \A f \in DOMAIN index, s \in Stacks :
        Describes(f, s) => files[f].marks \subseteq {s.patch, s.message}

\* A rewrite that keeps the patch reopens its review (carrySavedReviews), in three
\* steps.  No two stacks of the view have the same patch: when all are carried, a
\* stack whose earlier version has a session has one too.
OnePatchEach(v) == \A i, j \in DOMAIN v : SamePatch(v[i], v[j]) => i = j

HasCarried(s) ==
    LET prior == CarryablePrior(history, s)
    IN  prior # None /\ Saved(history[prior].stack) # None => Saved(s) # None

CarriesAll ==
    step = "carry" /\ work.queue = <<>> /\ OnePatchEach(work.view) =>
        \A s \in Range(work.view) : HasCarried(s)

\* The cleanup that follows deletes none of these sessions (discardUnusable).
CleanupSpares ==
    step \in {"delete", "unlink"} /\ work.after = "open" =>
        \A s \in Range(work.view), q \in Range(work.queue), f \in DOMAIN index :
            Describes(f, s) => ~Captures(f, q)

\* And tuicr, which goes by the name, opens the session that Timber finds by its
\* commits.  Not so after a death in the middle of a carry: the session that was in
\* move keeps its old name and hides the stack from the next carry.
OpensWhatIsSaved ==
    step = "open" /\ crashes = 0 => \A s \in Range(work.view) : Opened(s) = Saved(s)

RewriteReopensReviews == CarriesAll /\ CleanupSpares /\ OpensWhatIsSaved
----------------------------------------------------------------------------
(***************************************************************************)
(* Statements of the documentation that the code does not keep.            *)
(***************************************************************************)
Cleaned == step = "delete" /\ work.queue = <<>> /\ work.after = "idle"

\* "Saved sessions for the cleared stacks are deleted" (the help of timber review
\* reset, internal/cli/review/reset/reset.go).
ResetDeletesSessions == Cleaned => \A s \in Range(work.view) : Saved(s) = None
============================================================================

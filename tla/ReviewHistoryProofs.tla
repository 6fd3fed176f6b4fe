------------------------ MODULE ReviewHistoryProofs ------------------------
(***************************************************************************)
(* Facts about the rules of ReviewHistory, for every history.  A history   *)
(* of at most n attempts is what the state file can hold before the        *)
(* attempt with number n + 1 is added.                                     *)
(***************************************************************************)
EXTENDS ReviewHistory, TLAPS, SequenceTheorems, WellFoundedInduction, NaturalsInduction

IsHistory(h, n, Stack) ==
    /\ DOMAIN h \subseteq 1 .. n
    /\ h \in [DOMAIN h -> Attempt(Stack)]

-----------------------------------------------------------------------------
(***************************************************************************)
(* The newest and the oldest position of a set.                            *)
(***************************************************************************)
LEMMA BoundedMax ==
    ASSUME NEW n \in Nat, NEW S \in SUBSET (1 .. n), S # {}
    PROVE  Max(S) \in S /\ \A x \in S : x <= Max(S)
<1> DEFINE T == {n - x : x \in S}
<1>1. T \subseteq Nat /\ T # {}
  <2>1. ASSUME NEW x \in S PROVE n - x \in Nat
    BY x \in 1 .. n
  <2>2. T \subseteq Nat
    BY <2>1
  <2>3. PICK x \in S : TRUE
    OBVIOUS
  <2>4. n - x \in T
    OBVIOUS
  <2> QED
    BY <2>2, <2>4
<1>2. \E t \in T : \A y \in T : ~ (<<y, t>> \in OpToRel(<, Nat))
  <2> DEFINE R == OpToRel(<, Nat)
  <2>1. IsWellFoundedOn(R, Nat)
    BY NatLessThanWellFounded
  <2> HIDE DEF R, T
  <2>2. \E t \in T : \A y \in T : ~ (<<y, t>> \in R)
    BY <1>1, <2>1, WFMin
  <2> QED
    BY <2>2 DEF R
<1>3. PICK t \in T : \A y \in T : ~ (y < t)
  <2> HIDE DEF T
  <2> QED
    BY <1>1, <1>2 DEF OpToRel
<1>4. PICK m \in S : t = n - m
  BY <1>3
<1>5. \A x \in S : m >= x
  <2> SUFFICES ASSUME NEW x \in S PROVE m >= x
    OBVIOUS
  <2>1. ~ (n - x < t)
    BY <1>3
  <2> QED
    BY <2>1, <1>4
<1>6. Max(S) \in S /\ \A x \in S : Max(S) >= x
  BY <1>5, <1>4 DEF Max
<1> QED
  BY <1>6

LEMMA BoundedMin ==
    ASSUME NEW S \in SUBSET Nat, S # {}
    PROVE  Min(S) \in S /\ \A y \in S : Min(S) <= y
<1>1. \E t \in S : \A y \in S : ~ (<<y, t>> \in OpToRel(<, Nat))
  <2> DEFINE R == OpToRel(<, Nat)
  <2>1. IsWellFoundedOn(R, Nat)
    BY NatLessThanWellFounded
  <2> HIDE DEF R
  <2>2. \E t \in S : \A y \in S : ~ (<<y, t>> \in R)
    BY <2>1, WFMin
  <2> QED
    BY <2>2 DEF R
<1>2. PICK t \in S : \A y \in S : ~ (y < t)
  BY <1>1 DEF OpToRel
<1>3. \A y \in S : t <= y
  <2> SUFFICES ASSUME NEW y \in S PROVE t <= y
    OBVIOUS
  <2>1. ~ (y < t) /\ y \in Nat /\ t \in Nat
    BY <1>2
  <2> QED
    BY <2>1
<1> QED
  BY <1>3 DEF Min

LEMMA NewestInSet ==
    ASSUME NEW n \in Nat, NEW S \in SUBSET (1 .. n)
    PROVE  /\ S = {} => Newest(S) = None
           /\ S # {} => Newest(S) \in S /\ \A x \in S : x <= Newest(S)
BY BoundedMax DEF Newest, None

LEMMA OldestInView ==
    ASSUME NEW Stack, NEW v \in Seq(Stack), NEW S \in SUBSET DOMAIN v
    PROVE  /\ Oldest(v, S) \in Stack \cup {NoStack}
           /\ Oldest(v, S) # NoStack => \E i \in S : Oldest(v, S) = v[i]
<1>1. CASE S = {}
  BY <1>1 DEF Oldest
<1>2. CASE S # {}
  <2>1. S \in SUBSET Nat
    OBVIOUS
  <2>2. Min(S) \in S
    BY <2>1, <1>2, BoundedMin
  <2> QED
    BY <1>2, <2>2 DEF Oldest
<1> QED
  BY <1>1, <1>2

-----------------------------------------------------------------------------
(***************************************************************************)
(* What the rules pick.                                                    *)
(***************************************************************************)
LEMMA LatestPicks ==
    ASSUME NEW n \in Nat, NEW h, DOMAIN h \subseteq 1 .. n, NEW s
    PROVE  /\ Latest(h, s) \in DOMAIN h \cup {None}
           /\ Latest(h, s) # None =>
                /\ Matches(h[Latest(h, s)], s)
                /\ Decides(h[Latest(h, s)], s)
                /\ \A i \in DOMAIN h : i > Latest(h, s) => ~Decides(h[i], s)
<1> DEFINE D == {i \in DOMAIN h : Decides(h[i], s)}
           last == Newest(D)
<1>1. D \in SUBSET (1 .. n)
  OBVIOUS
<1>2. /\ D = {} => last = None
      /\ D # {} => last \in D /\ \A x \in D : x <= last
  <2> HIDE DEF D
  <2> QED
    BY <1>1, NewestInSet
<1>3. Latest(h, s) = IF last = None \/ Resets(h[last], s) \/ ~Matches(h[last], s)
                       THEN None ELSE last
  BY DEF Latest
<1>4. last \in D \/ last = None
  BY <1>2
<1>5. last \in D => \A i \in DOMAIN h : i > last => ~Decides(h[i], s)
  <2> SUFFICES ASSUME last \in D, NEW i \in DOMAIN h, i > last, Decides(h[i], s) PROVE FALSE
    OBVIOUS
  <2>1. i \in D
    OBVIOUS
  <2>2. i <= last
    BY <2>1, <1>2
  <2>3. i \in Nat /\ last \in Nat
    BY <1>1, <2>1
  <2> HIDE DEF last, D
  <2> QED
    BY <2>2, <2>3
<1> QED
  <2>1. last \in D => last \in DOMAIN h /\ Decides(h[last], s)
    OBVIOUS
  <2> HIDE DEF last, D
  <2> QED
    BY <2>1, <1>3, <1>4, <1>5

LEMMA PreviousPicks ==
    ASSUME NEW n \in Nat, NEW h, DOMAIN h \subseteq 1 .. n, NEW s
    PROVE  Previous(h, s) \in DOMAIN h \cup {None}
<1> DEFINE D == {i \in DOMAIN h : ~Matches(h[i], s) /\ SharesLineage(h[i].stack, s)}
<1>1. D \in SUBSET (1 .. n)
  OBVIOUS
<1>2. Newest(D) \in D \cup {None}
  <2> HIDE DEF D
  <2> QED
    BY <1>1, NewestInSet
<1> QED
  BY <1>2 DEF Previous

LEMMA NewestActive ==
    ASSUME NEW n \in Nat, NEW h, DOMAIN h \subseteq 1 .. n, NEW v
    PROVE  IF ActiveAttempts(v, h) = {}
             THEN Newest(ActiveAttempts(v, h)) = None
             ELSE Newest(ActiveAttempts(v, h)) \in ActiveAttempts(v, h)
<1>1. ActiveAttempts(v, h) \in SUBSET (1 .. n)
  BY DEF ActiveAttempts
<1> QED
  BY <1>1, NewestInSet

\* A review never reopens or replaces an attempt that the user approved.
LEMMA PlannedPriorPicks ==
    ASSUME NEW n \in Nat, NEW h, DOMAIN h \subseteq 1 .. n, NEW v, NEW s
    PROVE  /\ PlannedPrior(v, h, s) \in DOMAIN h \cup {None}
           /\ PlannedPrior(v, h, s) # None =>
                LET a == h[PlannedPrior(v, h, s)]
                IN  a.status # "approved" /\ (a.status = "reviewing" \/ a.source # "model")
<1>1. CASE ActiveAttempts(v, h) # {}
  <2>1. Newest(ActiveAttempts(v, h)) \in ActiveAttempts(v, h)
    BY <1>1, NewestActive
  <2> QED
    BY <1>1, <2>1 DEF PlannedPrior, ActiveAttempts
<1>2. CASE ActiveAttempts(v, h) = {}
  <2>1. Latest(h, s) \in DOMAIN h \cup {None}
    BY LatestPicks
  <2>2. Previous(h, s) \in DOMAIN h \cup {None}
    BY PreviousPicks
  <2> QED
    BY <1>2, <2>1, <2>2 DEF PlannedPrior, RecoverablePrior, Recoverable
<1> QED
  BY <1>1, <1>2

-----------------------------------------------------------------------------
(***************************************************************************)
(* What the rules promise.                                                 *)
(***************************************************************************)
\* In every history, an approval that is shown is newer than every unfinished
\* review of the same patch (State.latest).
THEOREM NewerReviewHidesApproval ==
    ASSUME NEW n \in Nat, NEW h, DOMAIN h \subseteq 1 .. n, NEW s
    PROVE  ApprovalIsNewest(h, s)
<1> SUFFICES ASSUME StatusOf(h, s) = "approved", NEW i \in DOMAIN h,
                    i > Latest(h, s), Unfinished(h[i])
             PROVE  ~SamePatch(h[i].stack, s)
  BY DEF ApprovalIsNewest
<1>1. Latest(h, s) # None
  BY DEF StatusOf
<1>2. ~Decides(h[i], s)
  BY <1>1, LatestPicks
<1> QED
  BY <1>2 DEF Decides, Unfinished

\* A reset of a whole view leaves no result, no earlier version, no open review and
\* nothing to recover for any stack of the view (resetsAttempt).
THEOREM ResetsLeaveNothing ==
    ASSUME NEW n \in Nat, NEW h, DOMAIN h \subseteq 1 .. n, NEW v
    PROVE  ResetEmpties(h, v)
<1> DEFINE left == Cleared(h, v)
<1>1. /\ DOMAIN left \subseteq 1 .. n
      /\ \A j \in DOMAIN left : ~ResetsAttempt(left[j], v)
  BY DEF Cleared, Restrict
<1> HIDE DEF left
<1>2. ActiveAttempts(v, left) = {}
  <2> SUFFICES ASSUME NEW j \in ActiveAttempts(v, left) PROVE FALSE
    OBVIOUS
  <2>1. j \in DOMAIN left /\ ~Lost(left[j], v)
    BY DEF ActiveAttempts, Unusable, Unfinished
  <2>2. PICK i \in DOMAIN v : \/ SameStack(left[j].stack, v[i])
                              \/ SharesLineage(left[j].stack, v[i])
    BY <2>1 DEF Lost
  <2> QED
    BY <1>1, <2>1, <2>2 DEF ResetsAttempt
<1>3. ASSUME NEW i \in DOMAIN v
      PROVE  Latest(left, v[i]) = None /\ Previous(left, v[i]) = None
  <2>1. Latest(left, v[i]) = None
    BY <1>1, LatestPicks DEF ResetsAttempt
  <2>2. \A j \in DOMAIN left : ~SharesLineage(left[j].stack, v[i])
    BY <1>1 DEF ResetsAttempt
  <2>3. {j \in DOMAIN left : ~Matches(left[j], v[i]) /\ SharesLineage(left[j].stack, v[i])} = {}
    BY <2>2
  <2>4. Previous(left, v[i]) = None
    BY <2>3 DEF Previous, Newest
  <2> QED
    BY <2>1, <2>4
<1>4. ASSUME NEW i \in DOMAIN v PROVE PlannedPrior(v, left, v[i]) = None
  BY <1>2, <1>3 DEF PlannedPrior, RecoverablePrior
<1> QED
  BY <1>2, <1>3, <1>4 DEF ResetEmpties, left

-----------------------------------------------------------------------------
(***************************************************************************)
(* Every edit leaves a history that the state file can hold.               *)
(***************************************************************************)
LEMMA NewAttemptTyped ==
    ASSUME NEW Stack, NEW s \in Stack, NEW status \in Statuses, NEW source \in Sources,
           IF source = "model" THEN status \in {"approved", "auto_reviewed"}
                               ELSE status # "auto_reviewed"
    PROVE  NewAttempt(s, status, source) \in Attempt(Stack)
BY DEF NewAttempt, Attempt

LEMMA StatusTyped ==
    ASSUME NEW Stack, NEW a \in Attempt(Stack), a.status \notin {"approved", "auto_reviewed"},
           NEW status \in Statuses \ {"auto_reviewed"}
    PROVE  [a EXCEPT !.status = status] \in Attempt(Stack)
BY DEF Attempt

LEMMA AddTyped ==
    ASSUME NEW Stack, NEW n \in Nat, NEW h, IsHistory(h, n, Stack), NEW a \in Attempt(Stack)
    PROVE  IsHistory(Add(h, n + 1, a), n + 1, Stack)
BY DEF IsHistory, Add

LEMMA RestrictTyped ==
    ASSUME NEW Stack, NEW n \in Nat, NEW h, IsHistory(h, n, Stack), NEW D \in SUBSET DOMAIN h
    PROVE  IsHistory(Restrict(h, D), n, Stack)
BY DEF IsHistory, Restrict

LEMMA WithStatusTyped ==
    ASSUME NEW Stack, NEW n \in Nat, NEW h, IsHistory(h, n, Stack), NEW i \in DOMAIN h,
           h[i].status \notin {"approved", "auto_reviewed"},
           NEW status \in Statuses \ {"auto_reviewed"}
    PROVE  IsHistory(WithStatus(h, i, status), n, Stack)
<1>1. [h[i] EXCEPT !.status = status] \in Attempt(Stack)
  BY StatusTyped DEF IsHistory
<1> QED
  BY <1>1 DEF IsHistory, WithStatus

LEMMA DiscardedTyped ==
    ASSUME NEW Stack, NEW n \in Nat, NEW h, IsHistory(h, n, Stack), NEW v
    PROVE  IsHistory(Discarded(h, v), n, Stack)
BY RestrictTyped DEF Discarded

LEMMA ClearedTyped ==
    ASSUME NEW Stack, NEW n \in Nat, NEW h, IsHistory(h, n, Stack), NEW selected
    PROVE  IsHistory(Cleared(h, selected), n, Stack)
BY RestrictTyped DEF Cleared

LEMMA BegunTyped ==
    ASSUME NEW Stack, NEW n \in Nat, NEW h, IsHistory(h, n, Stack), NEW prior, NEW s \in Stack
    PROVE  IsHistory(Begun(h, prior, n + 1, s), n + 1, Stack)
<1> DEFINE replaced == [j \in DOMAIN h |->
                          IF j = prior /\ h[j].status = "reviewing"
                            THEN [h[j] EXCEPT !.status = "incomplete"] ELSE h[j]]
<1>1. \A j \in DOMAIN h : h[j].status = "reviewing" =>
                             [h[j] EXCEPT !.status = "incomplete"] \in Attempt(Stack)
  BY StatusTyped DEF IsHistory, Statuses
<1>2. IsHistory(replaced, n, Stack)
  BY <1>1 DEF IsHistory
<1>3. NewAttempt(s, "reviewing", "") \in Attempt(Stack)
  BY NewAttemptTyped DEF Statuses, Sources
<1> HIDE DEF replaced
<1>4. IsHistory(Add(replaced, n + 1, NewAttempt(s, "reviewing", "")), n + 1, Stack)
  BY <1>2, <1>3, AddTyped
<1> QED
  BY <1>4 DEF Begun, replaced

LEMMA FinishedTyped ==
    ASSUME NEW Stack, NEW n \in Nat, NEW h, IsHistory(h, n, Stack), NEW i \in DOMAIN h,
           h[i].status = "reviewing", NEW outcome \in Outcomes
    PROVE  IsHistory(Finished(h, i, outcome), n, Stack)
<1>1. CASE outcome = "untouched"
  BY <1>1, RestrictTyped DEF Finished
<1>2. CASE outcome # "untouched"
  BY <1>2, WithStatusTyped DEF Finished, Outcomes, Statuses
<1> QED
  BY <1>1, <1>2

LEMMA ApprovedTyped ==
    ASSUME NEW Stack, NEW n \in Nat, NEW h, IsHistory(h, n, Stack), NEW selected \in Seq(Stack)
    PROVE  IsHistory(Approved(h, n + 1, selected), n + Len(selected), Stack)
<1>1. \A k \in DOMAIN selected :
         NewAttempt(selected[k], "approved", "user-command") \in Attempt(Stack)
  <2> SUFFICES ASSUME NEW k \in DOMAIN selected
               PROVE  NewAttempt(selected[k], "approved", "user-command") \in Attempt(Stack)
    OBVIOUS
  <2>1. selected[k] \in Stack
    OBVIOUS
  <2>2. "approved" \in Statuses /\ "user-command" \in Sources
    BY DEF Statuses, Sources
  <2> QED
    BY <2>1, <2>2, NewAttemptTyped
<1>2. \A j \in ((n + 1) .. (n + 1 + Len(selected) - 1)) : j - (n + 1) + 1 \in DOMAIN selected
  OBVIOUS
<1> QED
  BY <1>1, <1>2 DEF IsHistory, Approved

-----------------------------------------------------------------------------
(***************************************************************************)
(* The stack that a review takes up is a stack of the view or of an        *)
(* attempt.                                                                *)
(***************************************************************************)
LEMMA EndpointInView ==
    ASSUME NEW Stack, NEW v \in Seq(Stack), NEW commit, NEW default
    PROVE  IF commit = "" THEN Endpoint(v, commit, default) = default
                          ELSE Endpoint(v, commit, default) \in DOMAIN v \cup {None}
<1> DEFINE D == {i \in DOMAIN v : commit \in Range(v[i].commits)}
<1>1. D \in SUBSET (1 .. Len(v)) /\ Len(v) \in Nat
  OBVIOUS
<1>2. Newest(D) \in D \cup {None}
  <2> HIDE DEF D
  <2> QED
    BY <1>1, NewestInSet
<1>3. Newest(D) \in DOMAIN v \cup {None}
  BY <1>2
<1> QED
  BY <1>3 DEF Endpoint

LEMMA BoundedInView ==
    ASSUME NEW Stack, NEW v \in Seq(Stack), NEW o, BoundsValid(v, o)
    PROVE  Bounded(v, o) \in Seq(Stack)
<1> DEFINE start == Endpoint(v, o.first, 1)
           end   == Endpoint(v, o.last, Len(v))
<1>1. start \in DOMAIN v \/ start = 1
  <2>1. IF o.first = "" THEN start = 1 ELSE start \in DOMAIN v \cup {None}
    BY EndpointInView
  <2> QED
    BY <2>1 DEF BoundsValid
<1>2. end \in DOMAIN v \/ end = Len(v)
  <2>1. IF o.last = "" THEN end = Len(v) ELSE end \in DOMAIN v \cup {None}
    BY EndpointInView
  <2> QED
    BY <2>1 DEF BoundsValid
<1>3. start \in Int /\ end \in Int /\ start >= 1 /\ end <= Len(v)
  <2> HIDE DEF start, end
  <2> QED
    BY <1>1, <1>2
<1>4. \A i \in start .. end : v[i] \in Stack
  <2> HIDE DEF start, end
  <2> QED
    BY <1>3
<1>5. SubSeq(v, start, end) \in Seq(Stack)
  <2> HIDE DEF start, end
  <2> QED
    BY <1>3, <1>4, SubSeqProperties
<1> QED
  BY <1>5 DEF Bounded

LEMMA ActiveTyped ==
    ASSUME NEW Stack, NEW n \in Nat, NEW h, IsHistory(h, n, Stack), NEW v,
           ActiveAttempts(v, h) # {}
    PROVE  h[Newest(ActiveAttempts(v, h))].stack \in Stack
<1>1. Newest(ActiveAttempts(v, h)) \in DOMAIN h
  BY NewestActive DEF IsHistory, ActiveAttempts
<1> QED
  BY <1>1 DEF IsHistory, Attempt

LEMMA PlannedTyped ==
    ASSUME NEW Stack, NEW n \in Nat, NEW h, IsHistory(h, n, Stack), NEW v \in Seq(Stack),
           NEW o, NEW visited
    PROVE  Planned(v, h, o, visited) \in Stack \cup {NoStack}
<1>1. SelectStack(v, o.stack) \in Stack \cup {NoStack}
  BY OldestInView DEF SelectStack
<1>2. ASSUME BoundsValid(v, o)
      PROVE  NextStack(Bounded(v, o), h, visited) \in Stack \cup {NoStack}
  <2> DEFINE w == Bounded(v, o)
             S == {i \in DOMAIN w :
                     LET a == Latest(h, w[i])
                     IN  /\ Key(w[i]) \notin visited
                         /\ a # None => h[a].status # "approved" /\ ~h[a].deferred}
  <2>1. w \in Seq(Stack)
    BY <1>2, BoundedInView
  <2>2. S \in SUBSET DOMAIN w
    OBVIOUS
  <2>3. Oldest(w, S) \in Stack \cup {NoStack}
    <3> HIDE DEF w, S
    <3> QED
      BY <2>1, <2>2, OldestInView
  <2> QED
    BY <2>3 DEF NextStack
<1>3. ASSUME ActiveAttempts(v, h) # {}
      PROVE  h[Newest(ActiveAttempts(v, h))].stack \in Stack
  BY <1>3, ActiveTyped
<1> QED
  BY <1>1, <1>2, <1>3 DEF Planned

LEMMA ReplacementTyped ==
    ASSUME NEW Stack, NEW v \in Seq(Stack), NEW s
    PROVE  ReplacementStack(v, s) \in Stack \cup {NoStack}
BY OldestInView DEF ReplacementStack
LEMMA EmptyTyped ==
    ASSUME NEW Stack, NEW n \in Nat
    PROVE  IsHistory(<<>>, n, Stack)
BY DEF IsHistory

LEMMA RangesTyped ==
    ASSUME NEW Stack, NEW v \in Seq(Stack), NEW w \in Ranges(v)
    PROVE  w \in Seq(Stack) /\ w # <<>> /\ Range(w) \subseteq Range(v)
<1>1. PICK i \in DOMAIN v, j \in DOMAIN v : w = SubSeq(v, i, j)
  BY DEF Ranges
<1>2. i \in Int /\ j \in Int /\ \A k \in i .. j : k \in DOMAIN v /\ v[k] \in Stack
  OBVIOUS
<1>3. w \in Seq(Stack) /\ Len(w) = (IF i <= j THEN j - i + 1 ELSE 0)
  BY <1>1, <1>2, SubSeqProperties
<1>4. \A k \in 1 .. j - i + 1 : w[k] = v[i + k - 1]
  BY <1>1, <1>2, SubSeqProperties
<1>5. ASSUME NEW k \in DOMAIN w PROVE w[k] \in Range(v)
  <2>1. k \in 1 .. j - i + 1 /\ i + k - 1 \in DOMAIN v
    BY <1>3
  <2> QED
    BY <1>4, <2>1 DEF Range
<1> QED
  BY <1>3, <1>5 DEF Ranges, Range

LEMMA WholeIsRange ==
    ASSUME NEW Stack, NEW v \in Seq(Stack)
    PROVE  v \in Ranges(v) \cup {<<>>}
<1>1. CASE v = <<>>
  BY <1>1
<1>2. CASE v # <<>>
  <2>1. 1 \in DOMAIN v /\ Len(v) \in DOMAIN v
    BY <1>2
  <2>2. SubSeq(v, 1, Len(v)) = v
    BY SubSeqFull
  <2> QED
    BY <1>2, <2>1, <2>2 DEF Ranges
<1> QED
  BY <1>1, <1>2

LEMMA SingleIsRange ==
    ASSUME NEW Stack, NEW v \in Seq(Stack), NEW i \in DOMAIN v
    PROVE  <<v[i]>> \in Ranges(v)
<1>1. SubSeq(v, i, i) = <<v[i]>>
  <2>1. i \in Int /\ \A k \in i .. i : v[k] \in Stack
    OBVIOUS
  <2>2. /\ SubSeq(v, i, i) \in Seq(Stack)
        /\ Len(SubSeq(v, i, i)) = 1
        /\ SubSeq(v, i, i)[1] = v[i]
    BY <2>1, SubSeqProperties
  <2>3. <<v[i]>> \in Seq(Stack) /\ Len(<<v[i]>>) = 1
    OBVIOUS
  <2>4. \A k \in 1 .. Len(SubSeq(v, i, i)) : SubSeq(v, i, i)[k] = <<v[i]>>[k]
    BY <2>2
  <2> QED
    BY <2>2, <2>3, <2>4, SeqEqual
<1> QED
  BY <1>1 DEF Ranges

LEMMA TailTyped ==
    ASSUME NEW Stack, NEW v \in Seq(Stack), v # <<>>
    PROVE  Tail(v) \in Seq(Stack) /\ Range(Tail(v)) \subseteq Range(v)
<1>1. /\ Tail(v) \in Seq(Stack)
      /\ Len(Tail(v)) = Len(v) - 1
      /\ \A i \in 1 .. Len(Tail(v)) : Tail(v)[i] = v[i + 1]
  BY HeadTailProperties
<1>2. ASSUME NEW i \in DOMAIN Tail(v) PROVE Tail(v)[i] \in Range(v)
  <2>1. i \in 1 .. Len(Tail(v)) /\ i + 1 \in DOMAIN v
    BY <1>1
  <2> QED
    BY <1>1, <2>1 DEF Range
<1> QED
  BY <1>1, <1>2 DEF Range

\* The stack of a plan is the one that the user names, that of the open attempt, or
\* one of the view that this invocation has not opened.
LEMMA PlannedPicks ==
    ASSUME NEW Stack, NEW v \in Seq(Stack), NEW h, NEW o, NEW visited,
           Planned(v, h, o, visited) # NoStack
    PROVE  LET s == Planned(v, h, o, visited)
               active == ActiveAttempts(v, h)
           IN  \/ o.stack # "" /\ s \in Range(v)
               \/ o.stack = "" /\ active # {} /\ s = h[Newest(active)].stack
               \/ o.stack = "" /\ active = {} /\ s \in Range(v) /\ Key(s) \notin visited
<1> DEFINE s == Planned(v, h, o, visited)
           active == ActiveAttempts(v, h)
           w == Bounded(v, o)
           S == {i \in DOMAIN w :
                   LET a == Latest(h, w[i])
                   IN  /\ Key(w[i]) \notin visited
                       /\ a # None => h[a].status # "approved" /\ ~h[a].deferred}
<1>1. BoundsValid(v, o) /\ s = IF o.stack # "" THEN SelectStack(v, o.stack)
                               ELSE IF active # {} THEN h[Newest(active)].stack
                               ELSE NextStack(w, h, visited)
  BY DEF Planned
<1>2. v \in Seq(Range(v))
  BY DEF Range
<1>3. CASE o.stack # ""
  <2> DEFINE D == {i \in DOMAIN v : o.stack \in Range(v[i].commits)}
  <2>1. s = Oldest(v, D) /\ D \in SUBSET DOMAIN v
    BY <1>1, <1>3 DEF SelectStack
  <2>2. \E i \in D : s = v[i]
    <3> HIDE DEF D
    <3> QED
      BY <2>1, OldestInView
  <2> QED
    BY <1>3, <2>2 DEF Range
<1>4. CASE o.stack = "" /\ active # {}
  BY <1>1, <1>4
<1>5. CASE o.stack = "" /\ active = {}
  <2>1. w \in Seq(Range(v))
    <3> DEFINE R == Range(v)
    <3>1. v \in Seq(R)
      BY <1>2
    <3> HIDE DEF R
    <3>2. w \in Seq(R)
      BY <1>1, <3>1, BoundedInView
    <3> QED
      BY <3>2 DEF R
  <2>2. s = Oldest(w, S) /\ S \in SUBSET DOMAIN w
    BY <1>1, <1>5 DEF NextStack
  <2>3. \E i \in S : s = w[i]
    <3> HIDE DEF w, S
    <3> QED
      BY <2>1, <2>2, OldestInView
  <2>4. s \in Range(v) /\ Key(s) \notin visited
    <3>1. PICK i \in S : s = w[i]
      BY <2>3
    <3>2. i \in DOMAIN w /\ Key(w[i]) \notin visited
      OBVIOUS
    <3> HIDE DEF w, S
    <3> QED
      BY <2>1, <3>1, <3>2
  <2> QED
    BY <1>5, <2>4
<1> QED
  BY <1>3, <1>4, <1>5

\* A stack of the view is replaced by itself.
LEMMA ReplacementPicks ==
    ASSUME NEW Stack, NEW v \in Seq(Stack), NEW s, ReplacementStack(v, s) # NoStack
    PROVE  /\ ReplacementStack(v, s) \in Range(v)
           /\ s \in Range(v) => SameStack(ReplacementStack(v, s), s)
<1> DEFINE same == {i \in DOMAIN v : SameStack(v[i], s)}
           kin  == {i \in DOMAIN v : SharesLineage(v[i], s)}
<1>1. ReplacementStack(v, s) = IF same # {} THEN Oldest(v, same) ELSE Oldest(v, kin)
  BY DEF ReplacementStack
<1>2. CASE same # {}
  <2>1. \E i \in same : ReplacementStack(v, s) = v[i]
    <3>1. same \in SUBSET DOMAIN v
      OBVIOUS
    <3> HIDE DEF same, kin
    <3> QED
      BY <1>1, <1>2, <3>1, OldestInView
  <2> QED
    BY <2>1 DEF Range
<1>3. CASE same = {}
  <2>1. \E i \in kin : ReplacementStack(v, s) = v[i]
    <3>1. kin \in SUBSET DOMAIN v
      OBVIOUS
    <3> HIDE DEF same, kin
    <3> QED
      BY <1>1, <1>3, <3>1, OldestInView
  <2>2. s \notin Range(v)
    BY <1>3 DEF Range, SameStack
  <2> QED
    BY <2>1, <2>2 DEF Range
<1> QED
  BY <1>2, <1>3
==============================================================================

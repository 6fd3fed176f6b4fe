------------------------ MODULE SavedSessionsProofs ------------------------
(***************************************************************************)
(* Theorems about SavedSessions, for all stacks, views and bounds.  First  *)
(* the types of the history, the work and the store, in which the marks of *)
(* a session are on what it shows; then what the names in the index say,   *)
(* what a carry has done for the stacks it has passed, and for which       *)
(* stacks a cleanup deletes.                                               *)
(***************************************************************************)
EXTENDS SavedSessions, ReviewHistoryProofs, FiniteSetTheorems

-----------------------------------------------------------------------------
(***************************************************************************)
(* Sequences.                                                              *)
(***************************************************************************)
LEMMA ReverseKeepsRange ==
    ASSUME NEW S, NEW c \in Seq(S)
    PROVE  Range(Reverse(c)) = Range(c)
<1>1. Len(c) \in Nat /\ DOMAIN c = 1 .. Len(c)
  OBVIOUS
<1>2. \A i \in 1 .. Len(c) : (Len(c) - i) + 1 \in 1 .. Len(c)
  BY <1>1
<1>3. \A i \in 1 .. Len(c) : c[i] = c[(Len(c) - ((Len(c) - i) + 1)) + 1]
  BY <1>1
<1>4. DOMAIN Reverse(c) = 1 .. Len(c) /\ \A i \in 1 .. Len(c) : Reverse(c)[i] = c[(Len(c) - i) + 1]
  BY DEF Reverse
<1>5. Range(Reverse(c)) \subseteq Range(c)
  BY <1>1, <1>2, <1>4 DEF Range
<1>6. ASSUME NEW i \in 1 .. Len(c) PROVE c[i] \in Range(Reverse(c))
  <2>1. (Len(c) - i) + 1 \in DOMAIN Reverse(c)
    BY <1>2, <1>4
  <2>2. Reverse(c)[(Len(c) - i) + 1] = c[i]
    BY <1>2, <1>3, <1>4
  <2> QED
    BY <2>1, <2>2 DEF Range
<1> QED
  BY <1>1, <1>5, <1>6 DEF Range

LEMMA SetToSeqTyped ==
    ASSUME NEW S, IsFiniteSet(S)
    PROVE  SetToSeq(S) \in Seq(S) /\ Range(SetToSeq(S)) \subseteq S
<1>1. Cardinality(S) \in Nat /\ ExistsBijection(1 .. Cardinality(S), S)
  BY FS_CardinalityType
<1>2. \E f \in [1 .. Cardinality(S) -> S] : IsInjective(f)
  BY <1>1 DEF ExistsBijection, Bijection, Injection
<1>3. SetToSeq(S) \in [1 .. Cardinality(S) -> S]
  BY <1>2 DEF SetToSeq
<1>4. SetToSeq(S) \in Seq(S)
  BY <1>1, <1>3
<1> QED
  BY <1>3, <1>4 DEF Range

LEMMA HeadAndTail ==
    ASSUME NEW S, NEW q \in Seq(S), q # <<>>
    PROVE  /\ q[1] \in S /\ q[1] \in Range(q)
           /\ Tail(q) \in Seq(S)
           /\ Range(q) = {q[1]} \cup Range(Tail(q))
<1>1. /\ Tail(q) \in Seq(S)
      /\ Len(Tail(q)) = Len(q) - 1
      /\ \A i \in 1 .. Len(Tail(q)) : Tail(q)[i] = q[i + 1]
  BY HeadTailProperties
<1>2. Len(q) \in Nat /\ Len(q) >= 1 /\ DOMAIN q = 1 .. Len(q)
  BY EmptySeq
<1>3. q[1] \in Range(q) /\ q[1] \in S
  BY <1>2 DEF Range
<1>4. Range(Tail(q)) \subseteq Range(q)
  BY TailTyped
<1>5. ASSUME NEW i \in 1 .. Len(q), i # 1 PROVE q[i] \in Range(Tail(q))
  <2> DEFINE k == i - 1
  <2>0. k \in 1 .. Len(q) - 1 /\ k + 1 = i
    BY <1>2, <1>5
  <2> HIDE DEF k
  <2>1. k \in DOMAIN Tail(q) /\ q[i] = Tail(q)[k]
    BY <1>1, <2>0
  <2> QED
    BY <1>1, <2>1 DEF Range
<1>6. \A x \in Range(q) : x = q[1] \/ x \in Range(Tail(q))
  <2> SUFFICES ASSUME NEW i \in 1 .. Len(q) PROVE q[i] = q[1] \/ q[i] \in Range(Tail(q))
    BY <1>2 DEF Range
  <2> QED
    BY <1>5
<1> QED
  BY <1>1, <1>3, <1>4, <1>6

-----------------------------------------------------------------------------
(***************************************************************************)
(* The views.                                                              *)
(***************************************************************************)
LEMMA ViewStacks ==
    /\ \A v \in Views : v \in Seq(Stacks) /\ Range(v) \subseteq Stacks
    /\ \A v \in Seq(Stacks) : Range(v) \subseteq Stacks
    /\ \A s \in Stacks : s.commits \in Seq(STRING) /\ s.commits # <<>>
<1>1. \A v \in Seq(Stacks) : Range(v) \subseteq Stacks
  BY DEF Range
<1> QED
  BY <1>1, ViewsAssumption

LEMMA SameCommits ==
    ASSUME NEW s \in Stacks, NEW t \in Stacks, Range(s.commits) = Range(t.commits) \/ Key(s) = Key(t)
    PROVE  SameStack(s, t) /\ s.commits = t.commits /\ s.patch = t.patch /\ s.message = t.message
BY ContentAssumption DEF SameStack

-----------------------------------------------------------------------------
(***************************************************************************)
(* The history and the work of the running command.                        *)
(***************************************************************************)
StepNames == {"idle", "carry", "carryIndex", "delete", "unlink", "open"}

Work == [view : Seq(Stacks), queue : Seq(Stacks), after : {"idle", "open"},
         moved : Nat, doomed : SUBSET Nat]

HistInv ==
    /\ clock \in Nat \ {0}
    /\ IsHistory(history, clock - 1, Stacks)
    /\ head \in Views
    /\ step \in StepNames
    /\ work \in Work
    /\ step \in {"carry", "carryIndex"} => work.view \in Views

LEMMA StaleTyped ==
    ASSUME NEW n \in Nat, NEW h, IsHistory(h, n, Stacks), NEW D \in SUBSET DOMAIN h
    PROVE  SetToSeq({h[i].stack : i \in D}) \in Seq(Stacks)
           /\ Range(SetToSeq({h[i].stack : i \in D})) \subseteq {h[i].stack : i \in D}
<1> DEFINE T == {h[i].stack : i \in D}
           f == [i \in D |-> h[i].stack]
<1>1. IsFiniteSet(D)
  <2>1. IsFiniteSet(1 .. n)
    BY FS_Interval
  <2>2. D \in SUBSET (1 .. n)
    BY DEF IsHistory
  <2> QED
    BY <2>1, <2>2, FS_Subset
<1>2. f \in Surjection(D, T)
  BY DEF Surjection
<1>3. IsFiniteSet(T)
  <2> HIDE DEF f, T
  <2> QED
    BY <1>1, <1>2, FS_Surjection
<1>4. T \subseteq Stacks
  BY DEF IsHistory, Attempt
<1>5. SetToSeq(T) \in Seq(T) /\ Range(SetToSeq(T)) \subseteq T
  <2> HIDE DEF T
  <2> QED
    BY <1>3, SetToSeqTyped
<1>6. SetToSeq(T) \in Seq(Stacks)
  <2> HIDE DEF T
  <2> QED
    BY <1>4, <1>5
<1> QED
  BY <1>5, <1>6

LEMMA HistoryGrows ==
    ASSUME NEW Stack, NEW n \in Nat, NEW h, IsHistory(h, n, Stack)
    PROVE  IsHistory(h, n + 1, Stack)
BY DEF IsHistory

LEMMA ReviewedTyped ==
    ASSUME NEW n \in Nat, NEW h, IsHistory(h, n, Stacks), NEW v, NEW s \in Stacks,
           NEW status \in Statuses \ {"auto_reviewed"}, clock = n + 1
    PROVE  IsHistory(Reviewed(h, v, s, status), n + 1, Stacks)
<1> DEFINE prior == PlannedPrior(v, h, s)
<1>1. /\ prior \in DOMAIN h \cup {None}
      /\ prior # None => h[prior].status # "approved"
                         /\ (h[prior].status = "reviewing" \/ h[prior].source # "model")
  BY PlannedPriorPicks DEF IsHistory
<1>2. CASE prior # None /\ SameStack(h[prior].stack, s)
  <2>1. prior \in DOMAIN h /\ h[prior] \in Attempt(Stacks)
    BY <1>1, <1>2 DEF IsHistory
  <2>2. h[prior].status \notin {"approved", "auto_reviewed"}
    BY <1>1, <1>2, <2>1 DEF Attempt
  <2> HIDE DEF prior
  <2>3. IsHistory(WithStatus(h, prior, status), n + 1, Stacks)
    BY <2>1, <2>2, WithStatusTyped, HistoryGrows
  <2> QED
    BY <1>2, <2>3 DEF Reviewed, prior
<1>3. CASE ~(prior # None /\ SameStack(h[prior].stack, s))
  <2> DEFINE b == Begun(h, prior, n + 1, s)
  <2>1. IsHistory(b, n + 1, Stacks)
    <3> HIDE DEF prior
    <3> QED
      BY BegunTyped
  <2>2. n + 1 \in DOMAIN b /\ b[n + 1].status = "reviewing"
    BY DEF Begun, Add, NewAttempt
  <2> HIDE DEF b
  <2>3. IsHistory(WithStatus(b, n + 1, status), n + 1, Stacks)
    BY <2>1, <2>2, WithStatusTyped
  <2> QED
    BY <1>3, <2>3 DEF Reviewed, b
<1> QED
  BY <1>2, <1>3

LEMMA QueueMoves ==
    ASSUME NEW w \in Work, w.queue # <<>>
    PROVE  /\ w.queue[1] \in Stacks
           /\ Tail(w.queue) \in Seq(Stacks)
           /\ Range(w.queue) = {w.queue[1]} \cup Range(Tail(w.queue))
<1>1. w.queue \in Seq(Stacks)
  BY DEF Work
<1> QED
  BY <1>1, HeadAndTail

LEMMA NoWorkTyped == NoWork \in Work
BY DEF NoWork, Work, None

LEMMA WorkStep == HistInv /\ [Next]_vars => step' \in StepNames /\ head' \in Views
<1> SUFFICES ASSUME HistInv, [Next]_vars PROVE step' \in StepNames /\ head' \in Views
  OBVIOUS
<1> USE DEF HistInv, StepNames, Run, Environment
<1>1. CASE StartReview
  BY <1>1 DEF StartReview
<1>2. CASE CarryFile
  BY <1>2 DEF CarryFile
<1>3. CASE CarryIndex
  BY <1>3 DEF CarryIndex
<1>4. CASE Discard
  BY <1>4 DEF Discard
<1>5. CASE StartReset
  BY <1>5 DEF StartReset
<1>6. CASE DeleteRows
  BY <1>6 DEF DeleteRows
<1>7. CASE Unlink
  BY <1>7 DEF Unlink
<1>8. CASE Deleted
  BY <1>8 DEF Deleted, Work
<1>9. CASE Review
  BY <1>9 DEF Review
<1>10. CASE Cancel
  BY <1>10 DEF Cancel
<1>11. CASE Rewrite
  BY <1>11 DEF Rewrite
<1>12. CASE Crash
  BY <1>12 DEF Crash
<1>13. CASE UNCHANGED vars
  BY <1>13 DEF vars
<1> QED
  BY <1>1, <1>2, <1>3, <1>4, <1>5, <1>6, <1>7, <1>8, <1>9, <1>10, <1>11, <1>12, <1>13 DEF Next

LEMMA ClockStep ==
    ASSUME HistInv, [Next]_vars
    PROVE  /\ clock' \in Nat \ {0} /\ clock' >= clock
           /\ IsHistory(history', clock' - 1, Stacks)
<1> DEFINE n == clock - 1
<1>0. n \in Nat /\ clock = n + 1 /\ (clock + 1) - 1 = n + 1 /\ IsHistory(history, n, Stacks)
      /\ clock + 1 \in Nat \ {0}
  BY DEF HistInv
<1> HIDE DEF n
<1>1. CASE UNCHANGED <<history, clock>>
  BY <1>0, <1>1 DEF HistInv
<1>2. CASE CarryIndex
  <2>1. history' = history /\ clock' = clock + 1
    BY <1>2 DEF CarryIndex
  <2> QED
    BY <1>0, <2>1, HistoryGrows
<1>3. CASE Discard
  <2>1. history' = Discarded(history, work.view) /\ clock' = clock
    BY <1>3 DEF Discard
  <2> QED
    BY <1>0, <2>1, DiscardedTyped DEF HistInv
<1>4. CASE StartReset
  <2>1. PICK selected : history' = Cleared(history, selected) /\ clock' = clock
    BY <1>4 DEF StartReset
  <2> QED
    BY <1>0, <2>1, ClearedTyped DEF HistInv
<1>5. CASE Review
  <2>0. PICK s \in Range(work.view) :
          /\ \E marks \in SUBSET {s.patch, s.message} \ {{}} :
                history' = Reviewed(history, work.view, s,
                             IF marks = {s.patch, s.message} THEN "approved" ELSE "incomplete")
          /\ clock' = clock + 1
    BY <1>5 DEF Review
  <2>1. PICK marks \in SUBSET {s.patch, s.message} \ {{}} :
          history' = Reviewed(history, work.view, s,
                       IF marks = {s.patch, s.message} THEN "approved" ELSE "incomplete")
    BY <2>0
  <2> DEFINE status == IF marks = {s.patch, s.message} THEN "approved" ELSE "incomplete"
  <2>2. status \in Statuses \ {"auto_reviewed"}
    BY DEF Statuses
  <2>3. s \in Stacks
    BY ViewStacks DEF HistInv, Work
  <2>4. history' = Reviewed(history, work.view, s, status) /\ clock' = clock + 1
    BY <2>0, <2>1
  <2> HIDE DEF status
  <2>5. IsHistory(Reviewed(history, work.view, s, status), n + 1, Stacks)
    BY <1>0, <2>2, <2>3, ReviewedTyped
  <2> QED
    BY <1>0, <2>4, <2>5
<1>6. CASE StartReview \/ CarryFile \/ DeleteRows \/ Unlink \/ Deleted \/ Cancel \/ Rewrite \/ Crash
  BY <1>1, <1>6 DEF StartReview, CarryFile, DeleteRows, Unlink, Deleted, Cancel, Rewrite, Crash
<1> QED
  BY <1>1, <1>2, <1>3, <1>4, <1>5, <1>6 DEF Next, vars

LEMMA WorkTyped ==
    ASSUME HistInv, [Next]_vars, DOMAIN files \subseteq Nat, DOMAIN index \subseteq Nat,
           \A s \in Stacks : Saved(s) \in Nat
    PROVE  /\ work' \in Work
           /\ step' \in {"carry", "carryIndex"} => work'.view \in Views
<1> USE DEF HistInv, Run
<1>0. NoWork \in Work
  BY NoWorkTyped
<1>1. CASE StartReview
  <2>1. head \in Seq(Stacks)
    BY ViewStacks
  <2>2. work' = [NoWork EXCEPT !.view = head, !.queue = head]
    BY <1>1 DEF StartReview
  <2> QED
    BY <1>0, <2>1, <2>2 DEF Work
<1>2. CASE CarryFile
  <2>1. work.queue # <<>> /\ step = "carry" /\ work.view \in Views
    BY <1>2 DEF CarryFile
  <2>2. Tail(work.queue) \in Seq(Stacks)
    BY <2>1, QueueMoves
  <2> DEFINE prior == CarryablePrior(history, work.queue[1])
             from == history[prior].stack
  <2>3. \/ work' = [work EXCEPT !.queue = Tail(@)]
        \/ prior # None /\ work' = [work EXCEPT !.moved = Saved(from)]
    BY <1>2 DEF CarryFile
  <2>4. prior # None => from \in Stacks
    <3> SUFFICES ASSUME prior # None PROVE from \in Stacks
      OBVIOUS
    <3> DEFINE D == {i \in DOMAIN history :
                       /\ history[i].source # "model"
                       /\ ~SameStack(history[i].stack, work.queue[1])
                       /\ SamePatch(history[i].stack, work.queue[1])}
    <3>1. D \in SUBSET (1 .. (clock - 1)) /\ clock - 1 \in Nat
      BY DEF IsHistory
    <3>2. prior = Newest(D)
      BY DEF CarryablePrior
    <3>3. prior \in D
      <4> HIDE DEF D, prior
      <4> QED
        BY <3>1, <3>2, NewestInSet
    <3> QED
      BY <3>3 DEF IsHistory, Attempt
  <2> HIDE DEF from
  <2> QED
    BY <2>1, <2>2, <2>3, <2>4 DEF Work
<1>3. CASE CarryIndex
  <2>1. work.queue # <<>> => Tail(work.queue) \in Seq(Stacks)
    BY QueueMoves
  <2>2. work' = [work EXCEPT !.queue = Tail(@), !.moved = None] /\ step = "carryIndex"
    BY <1>3 DEF CarryIndex
  <2>3. Tail(work.queue) \in Seq(Stacks)
    <3>1. Tail(<<>>) = <<>>
      OBVIOUS
    <3> QED
      BY <2>1, <3>1 DEF Work
  <2> QED
    BY <2>2, <2>3 DEF Work, None
<1>4. CASE Discard
  <2> DEFINE stale == {i \in DOMAIN history : \/ Superseded(history[i], work.view)
                                               \/ Lost(history[i], work.view)}
             stacks == {history[i].stack : i \in stale}
  <2>1. SetToSeq(stacks) \in Seq(Stacks)
    <3>1. stale \in SUBSET DOMAIN history /\ clock - 1 \in Nat
      OBVIOUS
    <3> HIDE DEF stale
    <3> QED
      BY <3>1, StaleTyped
  <2>2. work' = [work EXCEPT !.queue = SetToSeq(stacks), !.after = "open"] /\ step' = "delete"
    BY <1>4 DEF Discard
  <2> HIDE DEF stacks
  <2> QED
    BY <2>1, <2>2 DEF Work
<1>5. CASE StartReset
  <2>1. PICK selected \in {head} \cup {<<head[i]>> : i \in DOMAIN head} :
           step' = "delete" /\ work' = [NoWork EXCEPT !.queue = selected, !.view = selected]
    BY <1>5 DEF StartReset
  <2>2. head \in Seq(Stacks)
    BY ViewStacks
  <2>3. \A i \in DOMAIN head : <<head[i]>> \in Seq(Stacks)
    BY <2>2
  <2>4. selected \in Seq(Stacks)
    BY <2>1, <2>2, <2>3
  <2> QED
    BY <1>0, <2>1, <2>4 DEF Work
<1>6. CASE DeleteRows
  <2>1. PICK D \in SUBSET DOMAIN files : step' = "unlink" /\ work' = [work EXCEPT !.doomed = D]
    BY <1>6 DEF DeleteRows
  <2> QED
    BY <2>1 DEF Work
<1>7. CASE Unlink
  <2>1. step \notin {"carry", "carryIndex"} /\ step' \in {"delete", "unlink"}
    BY <1>7 DEF Unlink
  <2>2. Tail(work.queue) \in Seq(Stacks)
    <3>1. Tail(<<>>) = <<>>
      OBVIOUS
    <3> QED
      BY QueueMoves, <3>1 DEF Work
  <2>3. \/ work' = [work EXCEPT !.queue = Tail(@)]
        \/ \E f \in work.doomed : work' = [work EXCEPT !.doomed = @ \ {f}]
    BY <1>7 DEF Unlink
  <2> QED
    BY <2>1, <2>2, <2>3 DEF Work
<1>8. CASE Deleted
  BY <1>0, <1>8 DEF Deleted, Work
<1>9. CASE Review
  BY <1>0, <1>9 DEF Review
<1>10. CASE Cancel
  BY <1>0, <1>10 DEF Cancel
<1>11. CASE Crash
  BY <1>0, <1>11 DEF Crash
<1>12. CASE UNCHANGED <<step, work>>
  BY <1>12
<1> QED
  BY <1>1, <1>2, <1>3, <1>4, <1>5, <1>6, <1>7, <1>8, <1>9, <1>10, <1>11, <1>12 DEF Next, vars, Rewrite

-----------------------------------------------------------------------------
(***************************************************************************)
(* The store.                                                              *)
(***************************************************************************)
Contents == UNION {{s.patch, s.message} : s \in Stacks}

\* A session shows a stack, and its marks are on what the stack holds.
Sessions ==
    {f \in [range : {Reverse(s.commits) : s \in Stacks}, marks : SUBSET Contents] :
        \A s \in Stacks : Range(f.range) = Range(s.commits) => f.marks \subseteq {s.patch, s.message}}

Rows(n) == [name : {Key(s) : s \in Stacks}, time : 1 .. n]

StoreInv ==
    /\ DOMAIN files \subseteq 1 .. (clock - 1)
    /\ files \in [DOMAIN files -> Sessions]
    /\ EntriesHaveFiles
    /\ index \in [DOMAIN index -> Rows(clock - 1)]
    /\ step = "unlink" => work.doomed \cap DOMAIN index = {}
    /\ step = "carryIndex" => /\ work.queue # <<>>
                              /\ work.moved \in DOMAIN index
                              /\ files[work.moved].range = Reverse(work.queue[1].commits)

\* The newest row of a set exists.
LEMMA NewestRow ==
    ASSUME HistInv, StoreInv, NEW found \in SUBSET DOMAIN index, found # {}
    PROVE  (CHOOSE f \in found : \A g \in found : index[f].time >= index[g].time) \in found
<1> DEFINE T == {index[f].time : f \in found}
           n == clock - 1
<1>1. n \in Nat /\ T \in SUBSET (1 .. n) /\ T # {}
  <2>1. \A f \in found : index[f].time \in 1 .. n
    BY DEF StoreInv, Rows
  <2> QED
    BY <2>1 DEF HistInv
<1>2. Max(T) \in T /\ \A x \in T : x <= Max(T)
  <2> HIDE DEF T, n
  <2> QED
    BY <1>1, BoundedMax
<1>3. PICK f \in found : Max(T) = index[f].time
  BY <1>2
<1>4. \A g \in found : index[f].time >= index[g].time
  <2> SUFFICES ASSUME NEW g \in found PROVE index[f].time >= index[g].time
    OBVIOUS
  <2>1. index[g].time \in T /\ index[f].time \in T
    OBVIOUS
  <2> HIDE DEF T, n
  <2> DEFINE a == index[g].time
             b == index[f].time
  <2> HIDE DEF a, b
  <2>0. a \in T /\ b \in T /\ b = Max(T)
    BY <2>1, <1>3 DEF a, b
  <2>2. a <= b /\ a \in Nat /\ b \in Nat
    BY <2>0, <1>1, <1>2
  <2> QED
    BY <2>2 DEF a, b
<1> DEFINE newest(e) == \A g \in found : index[e].time >= index[g].time
<1>5. newest(f)
  BY <1>4
<1> HIDE DEF newest
<1>6. (CHOOSE e \in found : newest(e)) \in found
  BY <1>5
<1> QED
  BY <1>6 DEF newest

HasSession(s) == \E f \in DOMAIN index : Describes(f, s)

LEMMA SavedPicks ==
    ASSUME HistInv, StoreInv, NEW s \in Stacks
    PROVE  /\ Saved(s) # None <=> HasSession(s)
           /\ Saved(s) # None => /\ Saved(s) \in DOMAIN index /\ Saved(s) \in DOMAIN files
                                 /\ Describes(Saved(s), s)
           /\ Saved(s) \in Nat
<1> DEFINE found == {f \in DOMAIN index : f \in DOMAIN files /\ Describes(f, s)}
<1>1. found \in SUBSET DOMAIN index /\ DOMAIN index \subseteq 1 .. (clock - 1)
  BY DEF StoreInv, EntriesHaveFiles
<1>2. found # {} <=> HasSession(s)
  BY DEF StoreInv, EntriesHaveFiles, HasSession
<1>3. Saved(s) = IF found = {} THEN None
                 ELSE CHOOSE f \in found : \A g \in found : index[f].time >= index[g].time
  BY DEF Saved
<1>4. found # {} => Saved(s) \in found
  <2> HIDE DEF found
  <2> QED
    BY <1>1, <1>3, NewestRow
<1>5. found # {} => Saved(s) \in 1 .. (clock - 1)
  BY <1>1, <1>4
<1>6. found # {} => Saved(s) # None /\ Saved(s) \in Nat
  BY <1>5 DEF None, HistInv
<1> QED
  BY <1>2, <1>3, <1>4, <1>6 DEF None

LEMMA CarryablePicks ==
    ASSUME NEW n \in Nat, NEW h, IsHistory(h, n, Stacks), NEW s, CarryablePrior(h, s) # None
    PROVE  LET prior == CarryablePrior(h, s)
           IN  /\ prior \in DOMAIN h /\ h[prior].stack \in Stacks
               /\ ~SameStack(h[prior].stack, s) /\ SamePatch(h[prior].stack, s)
<1> DEFINE prior == CarryablePrior(h, s)
           D == {i \in DOMAIN h : /\ h[i].source # "model"
                                  /\ ~SameStack(h[i].stack, s)
                                  /\ SamePatch(h[i].stack, s)}
<1>1. D \in SUBSET (1 .. n)
  BY DEF IsHistory
<1>2. prior = Newest(D) /\ prior # None
  BY DEF CarryablePrior
<1>3. prior \in D
  <2> HIDE DEF D, prior
  <2> QED
    BY <1>1, <1>2, NewestInSet
<1> QED
  BY <1>3 DEF IsHistory, Attempt

\* What a carry does for the first stack of the queue.
Skips(to) ==
    /\ HasSession(to) \/ (CarryablePrior(history, to) # None =>
                            ~HasSession(history[CarryablePrior(history, to)].stack))
    /\ step' = "carry" /\ work' = [work EXCEPT !.queue = Tail(@)]
    /\ files' = files

Moves(from, to, f) ==
    /\ from \in Stacks /\ SamePatch(from, to)
    /\ f \in DOMAIN index /\ f \in DOMAIN files /\ Describes(f, from)
    /\ ~HasSession(to)
    /\ files' = [files EXCEPT ![f] = Carried(files[f], from, to)]
    /\ step' = "carryIndex" /\ work' = [work EXCEPT !.moved = f]

LEMMA CarryKinds ==
    ASSUME HistInv, StoreInv, CarryFile
    PROVE  /\ step = "carry" /\ work.queue # <<>> /\ work.queue[1] \in Stacks
           /\ UNCHANGED <<history, index, clock, Environment>>
           /\ Skips(work.queue[1]) \/ \E from \in Stacks, f \in DOMAIN index : Moves(from, work.queue[1], f)
<1> DEFINE to    == work.queue[1]
           prior == CarryablePrior(history, to)
           from  == history[prior].stack
<1>1. /\ step = "carry" /\ work.queue # <<>>
      /\ UNCHANGED <<history, index, clock, Environment>>
      /\ IF prior = None \/ (prior # None /\ Saved(from) = None) \/ Saved(to) # None
           THEN Run("carry", [work EXCEPT !.queue = Tail(@)]) /\ UNCHANGED files
           ELSE /\ files' = [files EXCEPT ![Saved(from)] = Carried(@, from, to)]
                /\ Run("carryIndex", [work EXCEPT !.moved = Saved(from)])
  BY DEF CarryFile
<1>2. to \in Stacks
  BY <1>1, QueueMoves DEF HistInv
<1>3. prior # None => from \in Stacks /\ SamePatch(from, to)
  <2>1. clock - 1 \in Nat /\ IsHistory(history, clock - 1, Stacks)
    BY DEF HistInv
  <2> QED
    BY <2>1, CarryablePicks
<1>4. Saved(to) # None <=> HasSession(to)
  BY <1>2, SavedPicks
<1>5. prior # None => /\ Saved(from) # None <=> HasSession(from)
                      /\ Saved(from) # None => /\ Saved(from) \in DOMAIN index
                                               /\ Saved(from) \in DOMAIN files
                                               /\ Describes(Saved(from), from)
  <2> HIDE DEF from
  <2> QED
    BY <1>3, SavedPicks
<1>6. CASE prior = None \/ (prior # None /\ Saved(from) = None) \/ Saved(to) # None
  <2>1. Run("carry", [work EXCEPT !.queue = Tail(@)]) /\ UNCHANGED files
    BY <1>1, <1>6
  <2>2. HasSession(to) \/ (prior # None => ~HasSession(from))
    <3> HIDE DEF prior, from
    <3> QED
      BY <1>4, <1>5, <1>6
  <2>3. Skips(to)
    BY <2>1, <2>2 DEF Skips, Run
  <2> QED
    BY <1>1, <1>2, <2>3
<1>7. CASE ~(prior = None \/ (prior # None /\ Saved(from) = None) \/ Saved(to) # None)
  <2> DEFINE f == Saved(from)
  <2>1. /\ files' = [files EXCEPT ![f] = Carried(@, from, to)]
        /\ Run("carryIndex", [work EXCEPT !.moved = f])
    BY <1>1, <1>7
  <2>2. /\ prior # None /\ Saved(from) # None /\ ~HasSession(to)
        /\ from \in Stacks /\ SamePatch(from, to)
        /\ f \in DOMAIN index /\ f \in DOMAIN files /\ Describes(f, from)
    <3>1. prior # None /\ Saved(from) # None /\ Saved(to) = None
      BY <1>7
    <3> HIDE DEF prior, from, f
    <3>2. f = Saved(from)
      BY DEF f
    <3> QED
      BY <3>1, <3>2, <1>3, <1>4, <1>5
  <2>3. [files EXCEPT ![f] = Carried(@, from, to)] = [files EXCEPT ![f] = Carried(files[f], from, to)]
    BY <2>2
  <2> HIDE DEF f, from, prior
  <2>4. Moves(from, to, f)
    BY <2>1, <2>2, <2>3 DEF Moves, Run
  <2> QED
    BY <1>1, <1>2, <2>2, <2>4
<1> QED
  BY <1>6, <1>7

LEMMA RangeOfSession ==
    ASSUME NEW s \in Stacks
    PROVE  Range(Reverse(s.commits)) = Range(s.commits)
BY ViewStacks, ReverseKeepsRange

\* What tuicr saves, and what a carry makes of it.
LEMMA SavedTyped ==
    ASSUME NEW s \in Stacks, NEW marks \in SUBSET {s.patch, s.message}
    PROVE  [range |-> Reverse(s.commits), marks |-> marks] \in Sessions
<1> DEFINE f == [range |-> Reverse(s.commits), marks |-> marks]
<1>1. f \in [range : {Reverse(t.commits) : t \in Stacks}, marks : SUBSET Contents]
  BY DEF Contents
<1>2. ASSUME NEW t \in Stacks, Range(f.range) = Range(t.commits)
      PROVE  f.marks \subseteq {t.patch, t.message}
  <2>1. Range(s.commits) = Range(t.commits)
    BY <1>2, RangeOfSession
  <2>2. s.patch = t.patch /\ s.message = t.message
    BY <2>1, SameCommits
  <2> QED
    BY <2>2
<1> QED
  BY <1>1, <1>2 DEF Sessions

LEMMA CarriedTyped ==
    ASSUME NEW from \in Stacks, NEW to \in Stacks, SamePatch(from, to),
           NEW session \in Sessions, Range(session.range) = Range(from.commits)
    PROVE  /\ Carried(session, from, to) \in Sessions
           /\ Carried(session, from, to).range = Reverse(to.commits)
<1> DEFINE marks == IF SameMessage(from, to) THEN session.marks ELSE session.marks \cap {to.patch}
<1>1. session.marks \subseteq {from.patch, from.message}
  BY DEF Sessions
<1>2. marks \subseteq {to.patch, to.message}
  BY <1>1 DEF SamePatch, SameMessage
<1> HIDE DEF marks
<1>3. Carried(session, from, to) = [range |-> Reverse(to.commits), marks |-> marks]
  BY DEF Carried, marks
<1> QED
  BY <1>2, <1>3, SavedTyped

LEMMA RowsGrow ==
    ASSUME NEW n \in Nat, NEW m \in Nat, n <= m
    PROVE  Rows(n) \subseteq Rows(m) /\ 1 .. n \subseteq 1 .. m
BY DEF Rows

LEMMA StoreStep == HistInv /\ StoreInv /\ [Next]_vars => StoreInv'
<1> SUFFICES ASSUME HistInv, StoreInv, [Next]_vars PROVE StoreInv'
  OBVIOUS
<1> DEFINE n == clock - 1
<1>0. n \in Nat /\ clock \in Nat /\ (clock + 1) - 1 = clock /\ n <= clock
  BY DEF HistInv
<1>a. /\ DOMAIN files \subseteq 1 .. n /\ files \in [DOMAIN files -> Sessions]
      /\ DOMAIN index \subseteq DOMAIN files /\ index \in [DOMAIN index -> Rows(n)]
  BY DEF StoreInv, EntriesHaveFiles
<1>b. 1 .. n \subseteq 1 .. clock /\ Rows(n) \subseteq Rows(clock)
  <2> HIDE DEF n
  <2> QED
    BY <1>0, RowsGrow
<1>1. CASE UNCHANGED <<files, index, clock>> /\ step' \notin {"unlink", "carryIndex"}
  BY <1>1 DEF StoreInv, EntriesHaveFiles
<1>2. CASE CarryFile
  <2>1. /\ step = "carry" /\ work.queue # <<>> /\ work.queue[1] \in Stacks
        /\ UNCHANGED <<history, index, clock, Environment>>
        /\ Skips(work.queue[1]) \/ \E from \in Stacks, f \in DOMAIN index : Moves(from, work.queue[1], f)
    BY <1>2, CarryKinds
  <2>2. CASE Skips(work.queue[1])
    <3>1. UNCHANGED <<files, index, clock>> /\ step' = "carry"
      BY <2>1, <2>2 DEF Skips
    <3> QED
      BY <1>1, <3>1
  <2>3. ASSUME NEW from \in Stacks, NEW f \in DOMAIN index, Moves(from, work.queue[1], f)
        PROVE  StoreInv'
    <3> DEFINE to == work.queue[1]
               c == Carried(files[f], from, to)
    <3>1. /\ SamePatch(from, to) /\ f \in DOMAIN files /\ Range(files[f].range) = Range(from.commits)
          /\ files' = [files EXCEPT ![f] = c]
          /\ step' = "carryIndex" /\ work' = [work EXCEPT !.moved = f]
      BY <2>3 DEF Moves, Describes
    <3>2. files[f] \in Sessions
      BY <1>a, <3>1
    <3>3. c \in Sessions /\ c.range = Reverse(to.commits)
      BY <2>1, <3>1, <3>2, CarriedTyped
    <3>4. work'.queue = work.queue /\ work'.moved = f
      BY <3>1 DEF HistInv, Work
    <3> HIDE DEF c
    <3>5. DOMAIN files' = DOMAIN files /\ files' \in [DOMAIN files -> Sessions] /\ files'[f] = c
      BY <1>a, <3>1, <3>3
    <3> HIDE DEF n
    <3> QED
      BY <1>a, <2>1, <3>1, <3>3, <3>4, <3>5 DEF StoreInv, EntriesHaveFiles, n
  <2> QED
    BY <2>1, <2>2, <2>3
<1>3. CASE CarryIndex
  <2> DEFINE row == [name |-> NameOf(work.queue[1]), time |-> clock]
  <2>1. /\ step' = "carry" /\ files' = files /\ clock' = clock + 1
        /\ index' = [index EXCEPT ![work.moved] = row]
        /\ work.queue # <<>>
    BY <1>3 DEF CarryIndex, Run, StoreInv
  <2>2. row \in Rows(clock)
    <3>1. work.queue[1] \in Stacks
      BY <2>1, QueueMoves DEF HistInv
    <3>2. clock \in 1 .. clock
      BY DEF HistInv
    <3> QED
      BY <3>1, <3>2 DEF Rows, NameOf
  <2> HIDE DEF row, n
  <2>3. DOMAIN index' = DOMAIN index /\ index' \in [DOMAIN index -> Rows(clock)]
    BY <1>a, <1>b, <2>1, <2>2
  <2> QED
    BY <1>0, <1>a, <1>b, <2>1, <2>3 DEF StoreInv, EntriesHaveFiles
<1>4. CASE DeleteRows
  <2>1. PICK matched \in SUBSET DOMAIN index :
          /\ index' = Restrict(index, DOMAIN index \ matched)
          /\ step' = "unlink" /\ work' = [work EXCEPT !.doomed = matched \cap DOMAIN files]
          /\ files' = files /\ clock' = clock
    <3> DEFINE matched == {f \in DOMAIN index : Captures(f, work.queue[1])}
    <3>1. /\ index' = Restrict(index, DOMAIN index \ matched)
          /\ step' = "unlink" /\ work' = [work EXCEPT !.doomed = matched \cap DOMAIN files]
          /\ files' = files /\ clock' = clock
      BY <1>4 DEF DeleteRows, Run
    <3>2. matched \in SUBSET DOMAIN index
      OBVIOUS
    <3> QED
      BY <3>1, <3>2
  <2>2. work'.doomed = matched \cap DOMAIN files
    BY <2>1 DEF HistInv, Work
  <2>3. DOMAIN index' = DOMAIN index \ matched /\ index' \in [DOMAIN index' -> Rows(n)]
    <3> HIDE DEF n
    <3> QED
      BY <1>a, <2>1 DEF Restrict
  <2> HIDE DEF n
  <2> QED
    BY <1>a, <2>1, <2>2, <2>3 DEF StoreInv, EntriesHaveFiles, n
<1>5. CASE Unlink
  <2>1. step = "unlink" /\ work.doomed \cap DOMAIN index = {}
    BY <1>5 DEF Unlink, StoreInv
  <2>2. CASE UNCHANGED <<files, index, clock>> /\ step' = "delete"
    BY <1>1, <2>2
  <2>3. CASE \E f \in work.doomed : /\ files' = Restrict(files, DOMAIN files \ {f})
                                    /\ step' = "unlink" /\ work' = [work EXCEPT !.doomed = @ \ {f}]
    <3>1. PICK f \in work.doomed : /\ files' = Restrict(files, DOMAIN files \ {f})
                                   /\ step' = "unlink" /\ work' = [work EXCEPT !.doomed = @ \ {f}]
      BY <2>3
    <3>2. work'.doomed = work.doomed \ {f}
      BY <3>1 DEF HistInv, Work
    <3>3. index' = index /\ clock' = clock
      BY <1>5 DEF Unlink
    <3>4. DOMAIN files' = DOMAIN files \ {f} /\ files' \in [DOMAIN files' -> Sessions]
      BY <1>a, <3>1 DEF Restrict
    <3>5. DOMAIN index \subseteq DOMAIN files \ {f}
      BY <1>a, <2>1
    <3> HIDE DEF n
    <3> QED
      BY <1>a, <2>1, <3>1, <3>2, <3>3, <3>4, <3>5 DEF StoreInv, EntriesHaveFiles, n
  <2> QED
    BY <1>5, <2>2, <2>3 DEF Unlink, Run
<1>6. CASE Review
  <2>1. PICK s \in Range(work.view) :
          LET file == IF Opened(s) # None THEN Opened(s) ELSE clock
          IN  /\ \E marks \in SUBSET {s.patch, s.message} :
                   /\ files' = Add(files, file, [range |-> Reverse(s.commits), marks |-> marks])
                   /\ index' = Add(index, file, [name |-> NameOf(s), time |-> clock])
              /\ clock' = clock + 1
              /\ step' = "idle"
    BY <1>6 DEF Review, Run
  <2> DEFINE file == IF Opened(s) # None THEN Opened(s) ELSE clock
  <2>2. PICK marks \in SUBSET {s.patch, s.message} :
          /\ files' = Add(files, file, [range |-> Reverse(s.commits), marks |-> marks])
          /\ index' = Add(index, file, [name |-> NameOf(s), time |-> clock])
    BY <2>1
  <2>3. s \in Stacks
    BY ViewStacks DEF HistInv, Work
  <2>4. [range |-> Reverse(s.commits), marks |-> marks] \in Sessions
    BY <2>3, SavedTyped
  <2>5. clock \in 1 .. clock
    BY DEF HistInv
  <2>6. [name |-> NameOf(s), time |-> clock] \in Rows(clock)
    BY <2>3, <2>5 DEF Rows, NameOf
  <2>7. file \in 1 .. clock
    <3> DEFINE named == {f \in DOMAIN index : f \in DOMAIN files /\ index[f].name = NameOf(s)}
    <3>1. Opened(s) = IF named = {} THEN None
                      ELSE CHOOSE f \in named : \A g \in named : index[f].time >= index[g].time
      BY DEF Opened
    <3>2. named \in SUBSET DOMAIN index
      OBVIOUS
    <3>3. Opened(s) # None => Opened(s) \in named
      <4> HIDE DEF named
      <4> QED
        BY <3>1, <3>2, NewestRow
    <3>4. Opened(s) # None => Opened(s) \in 1 .. clock
      <4> HIDE DEF n
      <4> QED
        BY <1>a, <1>b, <3>3
    <3> QED
      BY <2>5, <3>4
  <2> DEFINE session == [range |-> Reverse(s.commits), marks |-> marks]
             row == [name |-> NameOf(s), time |-> clock]
  <2> HIDE DEF file, session, row, n
  <2>8. /\ DOMAIN files' = DOMAIN files \cup {file} /\ files' \in [DOMAIN files' -> Sessions]
        /\ DOMAIN index' = DOMAIN index \cup {file} /\ index' \in [DOMAIN index' -> Rows(clock)]
    BY <1>a, <1>b, <2>2, <2>4, <2>6 DEF Add, session, row
  <2> QED
    BY <1>0, <1>a, <1>b, <2>1, <2>7, <2>8 DEF StoreInv, EntriesHaveFiles
<1>7. CASE StartReview \/ Discard \/ StartReset \/ Cancel \/ Crash
  BY <1>1, <1>7 DEF StartReview, Discard, StartReset, Cancel, Crash, Run
<1>8. CASE Deleted
  BY <1>1, <1>8 DEF Deleted, Run, HistInv, Work
<1>9. CASE Rewrite
  BY <1>9 DEF Rewrite, StoreInv, EntriesHaveFiles
<1>10. CASE UNCHANGED vars
  BY <1>10 DEF vars, StoreInv, EntriesHaveFiles
<1> QED
  BY <1>2, <1>3, <1>4, <1>5, <1>6, <1>7, <1>8, <1>9, <1>10 DEF Next

BaseInv == HistInv /\ StoreInv

LEMMA BaseInit == Init => BaseInv
<1> SUFFICES ASSUME Init PROVE BaseInv
  OBVIOUS
<1>1. IsHistory(<<>>, 0, Stacks) /\ clock - 1 = 0
  BY EmptyTyped DEF Init
<1>2. HistInv
  BY <1>1, NoWorkTyped DEF HistInv, Init, StepNames
<1>3. StoreInv
  BY DEF StoreInv, Init, EntriesHaveFiles
<1> QED
  BY <1>2, <1>3 DEF BaseInv

LEMMA BaseStep == BaseInv /\ [Next]_vars => BaseInv'
<1> SUFFICES ASSUME HistInv, StoreInv, [Next]_vars PROVE HistInv' /\ StoreInv'
  BY DEF BaseInv
<1>1. DOMAIN files \subseteq Nat /\ DOMAIN index \subseteq Nat
  <2>1. 1 .. (clock - 1) \subseteq Nat
    OBVIOUS
  <2> QED
    BY <2>1 DEF StoreInv, EntriesHaveFiles
<1>2. \A s \in Stacks : Saved(s) \in Nat
  BY SavedPicks
<1>3. HistInv'
  BY <1>1, <1>2, WorkStep, ClockStep, WorkTyped DEF HistInv
<1> QED
  BY <1>3, StoreStep

LEMMA Base == Spec => []BaseInv
BY BaseInit, BaseStep, PTL DEF Spec

\* Every row of the index names a file, wherever a command dies ("A failure leaves
\* an unused file and never an entry without a file", saved.go).
THEOREM RowsNameFiles == Spec => []EntriesHaveFiles
<1>1. BaseInv => EntriesHaveFiles
  BY DEF BaseInv, StoreInv
<1> QED
  BY <1>1, Base, PTL

\* No rewrite and no death in a carry moves a mark to a patch or a message that the
\* user has not marked (moveCarriedSession).
THEOREM MarksFollowContent == Spec => []MarksAreCurrent
<1>1. BaseInv => MarksAreCurrent
  BY DEF BaseInv, StoreInv, EntriesHaveFiles, MarksAreCurrent, Describes, Sessions
<1> QED
  BY <1>1, Base, PTL

-----------------------------------------------------------------------------
(***************************************************************************)
(* Without a crash, the name of a session says what it shows, but for the  *)
(* session in move.                                                        *)
(***************************************************************************)
Named(f) == \E s \in Stacks : files[f].range = Reverse(s.commits) /\ index[f].name = Key(s)

InMove(f) == step = "carryIndex" /\ f = work.moved

NamesInv ==
    /\ crashes \in Nat
    /\ crashes = 0 => \A f \in DOMAIN index : InMove(f) \/ Named(f)

LEMMA NamesStep == BaseInv /\ NamesInv /\ [Next]_vars => NamesInv'
<1> SUFFICES ASSUME BaseInv, NamesInv, [Next]_vars PROVE NamesInv'
  OBVIOUS
<1>1. CASE UNCHANGED <<files, index, crashes>> /\ step # "carryIndex"
  BY <1>1 DEF NamesInv, Named, InMove
<1>2. CASE CarryFile
  <2>1. /\ step = "carry" /\ work.queue # <<>>
        /\ index' = index /\ crashes' = crashes
        /\ Skips(work.queue[1]) \/ \E from \in Stacks, f \in DOMAIN index : Moves(from, work.queue[1], f)
    BY <1>2, CarryKinds DEF BaseInv, Environment
  <2>2. CASE Skips(work.queue[1])
    BY <1>1, <2>1, <2>2 DEF Skips
  <2>3. ASSUME NEW from \in Stacks, NEW f \in DOMAIN index, Moves(from, work.queue[1], f)
        PROVE  NamesInv'
    <3>1. /\ \A g \in DOMAIN index : g # f => files'[g] = files[g]
          /\ step' = "carryIndex" /\ work'.moved = f
      BY <2>3 DEF Moves, BaseInv, HistInv, Work, StoreInv, EntriesHaveFiles
    <3>2. ASSUME crashes = 0, NEW g \in DOMAIN index, g # f PROVE Named(g)'
      <4>1. Named(g)
        BY <2>1, <3>2 DEF NamesInv, InMove
      <4> QED
        BY <2>1, <3>1, <3>2, <4>1 DEF Named
    <3> QED
      BY <2>1, <3>1, <3>2 DEF NamesInv, InMove
  <2> QED
    BY <2>1, <2>2, <2>3
<1>3. CASE CarryIndex
  <2>1. /\ step = "carryIndex" /\ work.queue # <<>>
        /\ \E m \in DOMAIN index :
              /\ m = work.moved /\ files[m].range = Reverse(work.queue[1].commits)
              /\ index' = [index EXCEPT ![m] = [name |-> NameOf(work.queue[1]), time |-> clock]]
        /\ files' = files /\ crashes' = crashes /\ step' = "carry"
    BY <1>3 DEF CarryIndex, BaseInv, StoreInv, Run, Environment
  <2>2. PICK to \in Stacks : to = work.queue[1]
    BY <2>1, QueueMoves DEF BaseInv, HistInv
  <2>3. PICK m \in DOMAIN index :
          /\ m = work.moved /\ files[m].range = Reverse(to.commits)
          /\ index' = [index EXCEPT ![m] = [name |-> Key(to), time |-> clock]]
    BY <2>1, <2>2 DEF NameOf
  <2>4. Named(m)'
    <3>1. index'[m].name = Key(to) /\ files'[m].range = Reverse(to.commits)
      BY <2>1, <2>3
    <3> QED
      BY <3>1 DEF Named
  <2>5. ASSUME crashes = 0, NEW g \in DOMAIN index, g # m PROVE Named(g)'
    <3>1. Named(g)
      BY <2>3, <2>5 DEF NamesInv, InMove
    <3>2. index'[g] = index[g] /\ files'[g] = files[g]
      BY <2>1, <2>3, <2>5
    <3> QED
      BY <3>1, <3>2 DEF Named
  <2>6. DOMAIN index' = DOMAIN index
    BY <2>3
  <2>7. crashes' = 0 => \A g \in DOMAIN index' : Named(g)'
    BY <2>1, <2>4, <2>5, <2>6
  <2> QED
    BY <2>1, <2>7 DEF NamesInv
<1>4. CASE DeleteRows
  <2>1. /\ step = "delete" /\ files' = files /\ crashes' = crashes
        /\ DOMAIN index' \subseteq DOMAIN index
        /\ \A f \in DOMAIN index' : index'[f] = index[f]
    BY <1>4 DEF DeleteRows, Environment, Restrict
  <2> QED
    BY <2>1 DEF NamesInv, Named, InMove
<1>5. CASE Unlink
  <2>1. /\ step = "unlink" /\ index' = index /\ crashes' = crashes
        /\ work.doomed \cap DOMAIN index = {} /\ DOMAIN index \subseteq DOMAIN files
        /\ files' = files \/ \E f \in work.doomed : files' = Restrict(files, DOMAIN files \ {f})
    BY <1>5 DEF Unlink, Environment, BaseInv, StoreInv, EntriesHaveFiles
  <2>2. \A f \in DOMAIN index : files'[f] = files[f]
    BY <2>1 DEF Restrict
  <2> QED
    BY <2>1, <2>2 DEF NamesInv, Named, InMove
<1>6. CASE Review
  <2>1. step = "open" /\ crashes' = crashes
    BY <1>6 DEF Review, Environment
  <2>2. PICK s \in Range(work.view) :
          LET file == IF Opened(s) # None THEN Opened(s) ELSE clock
          IN  \E marks \in SUBSET {s.patch, s.message} :
                /\ files' = Add(files, file, [range |-> Reverse(s.commits), marks |-> marks])
                /\ index' = Add(index, file, [name |-> NameOf(s), time |-> clock])
    BY <1>6 DEF Review
  <2>3. PICK file, marks :
          /\ files' = Add(files, file, [range |-> Reverse(s.commits), marks |-> marks])
          /\ index' = Add(index, file, [name |-> NameOf(s), time |-> clock])
    BY <2>2
  <2>4. s \in Stacks
    BY ViewStacks DEF BaseInv, HistInv, Work
  <2>5. DOMAIN index' = DOMAIN index \cup {file}
    BY <2>3 DEF Add
  <2>6. Named(file)'
    <3>1. files'[file].range = Reverse(s.commits) /\ index'[file].name = Key(s)
      BY <2>3 DEF Add, NameOf
    <3> QED
      BY <2>4, <3>1 DEF Named
  <2>7. ASSUME crashes = 0, NEW g \in DOMAIN index, g # file PROVE Named(g)'
    <3>1. Named(g) /\ g \in DOMAIN files
      BY <2>1, <2>7 DEF NamesInv, InMove, BaseInv, StoreInv, EntriesHaveFiles
    <3>2. index'[g] = index[g] /\ files'[g] = files[g]
      BY <2>3, <2>7, <3>1 DEF Add
    <3> QED
      BY <3>1, <3>2 DEF Named
  <2>8. crashes' = 0 => \A g \in DOMAIN index' : Named(g)'
    BY <2>1, <2>5, <2>6, <2>7
  <2> QED
    BY <2>1, <2>8 DEF NamesInv
<1>7. CASE Crash
  BY <1>7 DEF Crash, NamesInv
<1>8. CASE StartReview \/ Discard \/ StartReset \/ Deleted \/ Cancel
  BY <1>1, <1>8 DEF StartReview, Discard, StartReset, Deleted, Cancel, Environment
<1>9. CASE Rewrite \/ UNCHANGED vars
  <2>1. UNCHANGED <<files, index, crashes, step, work>>
    BY <1>9 DEF Rewrite, vars
  <2> QED
    BY <2>1 DEF NamesInv, Named, InMove
<1> QED
  BY <1>2, <1>3, <1>4, <1>5, <1>6, <1>7, <1>8, <1>9 DEF Next

LEMMA NamesTell ==
    ASSUME BaseInv, NamesInv, crashes = 0, step # "carryIndex", NEW s \in Stacks
    PROVE  Opened(s) = Saved(s)
<1>1. ASSUME NEW f \in DOMAIN index PROVE Describes(f, s) <=> index[f].name = NameOf(s)
  <2>1. PICK t \in Stacks : files[f].range = Reverse(t.commits) /\ index[f].name = Key(t)
    BY DEF NamesInv, InMove, Named
  <2>2. Range(files[f].range) = Range(t.commits)
    BY <2>1, RangeOfSession
  <2>3. Describes(f, s) <=> Range(t.commits) = Range(s.commits)
    BY <2>2 DEF Describes
  <2>4. Range(t.commits) = Range(s.commits) => Key(t) = Key(s)
    BY SameCommits DEF Key
  <2>5. Key(t) = Key(s) => Range(t.commits) = Range(s.commits)
    BY SameCommits
  <2> QED
    BY <2>1, <2>3, <2>4, <2>5 DEF NameOf
<1> DEFINE found == {f \in DOMAIN index : f \in DOMAIN files /\ Describes(f, s)}
           named == {f \in DOMAIN index : f \in DOMAIN files /\ index[f].name = NameOf(s)}
<1>2. found = named
  BY <1>1
<1>3. Saved(s) = IF found = {} THEN None
                 ELSE CHOOSE f \in found : \A g \in found : index[f].time >= index[g].time
  BY DEF Saved
<1>4. Opened(s) = IF named = {} THEN None
                  ELSE CHOOSE f \in named : \A g \in named : index[f].time >= index[g].time
  BY DEF Opened
<1> HIDE DEF found, named
<1> QED
  BY <1>2, <1>3, <1>4

-----------------------------------------------------------------------------
(***************************************************************************)
(* A carry goes through the view: a stack is still in the queue, or its    *)
(* earlier version has no session, or it has one itself.                   *)
(***************************************************************************)
Kept(s) ==
    LET prior == CarryablePrior(history, s)
    IN  prior # None /\ HasSession(history[prior].stack) => HasSession(s)

CarryInv ==
    step \in {"carry", "carryIndex"} /\ OnePatchEach(work.view) =>
        /\ Range(work.queue) \subseteq Range(work.view)
        /\ \A s \in Range(work.view) : s \in Range(work.queue) \/ Kept(s)
        /\ step = "carryIndex" => HasSession(work.queue[1])

LEMMA OneStackPerPatch ==
    ASSUME NEW v \in Seq(Stacks), OnePatchEach(v), NEW s \in Range(v), NEW t \in Range(v),
           SamePatch(s, t)
    PROVE  s = t
BY DEF OnePatchEach, Range

\* Moving a session to a stack takes none from the stacks already treated.
LEMMA MoveKeepsKept ==
    ASSUME BaseInv, OnePatchEach(work.view), step = "carry", history' = history, index' = index,
           NEW to \in Range(work.view), NEW from \in Stacks, NEW f \in DOMAIN index,
           Moves(from, to, f)
    PROVE  /\ HasSession(to)'
           /\ \A s \in Range(work.view) : Kept(s) => Kept(s)'
<1>1. /\ SamePatch(from, to) /\ f \in DOMAIN files /\ Range(files[f].range) = Range(from.commits)
      /\ ~HasSession(to) /\ files' = [files EXCEPT ![f] = Carried(files[f], from, to)]
      /\ DOMAIN index \subseteq DOMAIN files
  BY DEF Moves, Describes, BaseInv, StoreInv, EntriesHaveFiles
<1>2. work.view \in Seq(Stacks) /\ Range(work.view) \subseteq Stacks
  BY ViewStacks DEF BaseInv, HistInv, Work
<1>3. to \in Stacks
  BY <1>2
<1>4. Range(files'[f].range) = Range(to.commits)
  BY <1>1, <1>3, RangeOfSession DEF Carried
<1>5. \A g \in DOMAIN index : g # f => files'[g] = files[g]
  BY <1>1
<1>6. HasSession(to)'
  <2>1. \E g \in DOMAIN index' : Range(files'[g].range) = Range(to.commits)
    BY <1>4
  <2> QED
    BY <2>1 DEF HasSession, Describes
<1>7. ASSUME NEW s \in Stacks, s.patch # to.patch
      PROVE  HasSession(s)' <=> HasSession(s)
  <2>1. Range(s.commits) # Range(from.commits) /\ Range(s.commits) # Range(to.commits)
    BY <1>1, <1>3, <1>7, SameCommits DEF SamePatch
  <2>2. \A g \in DOMAIN index : Range(files'[g].range) = Range(s.commits)
                                 <=> Range(files[g].range) = Range(s.commits)
    BY <1>1, <1>4, <1>5, <2>1
  <2> QED
    BY <2>2 DEF HasSession, Describes
<1>8. ASSUME NEW s \in Range(work.view), Kept(s) PROVE Kept(s)'
  <2>1. CASE s = to
    BY <1>6, <2>1 DEF Kept
  <2>2. CASE s # to
    <3>1. ~SamePatch(s, to) /\ s \in Stacks
      BY <1>2, <2>2, OneStackPerPatch
    <3>2. CASE CarryablePrior(history, s) = None
      BY <3>2 DEF Kept
    <3>3. CASE CarryablePrior(history, s) # None
      <4> DEFINE p == history[CarryablePrior(history, s)].stack
      <4>1. p \in Stacks /\ SamePatch(p, s)
        <5>1. clock - 1 \in Nat /\ IsHistory(history, clock - 1, Stacks)
          BY DEF BaseInv, HistInv
        <5> QED
          BY <3>3, <5>1, CarryablePicks
      <4>2. s.patch # to.patch /\ p.patch # to.patch
        BY <3>1, <4>1 DEF SamePatch
      <4>3. HasSession(p) => HasSession(s)
        BY <1>8, <3>3 DEF Kept
      <4>4. HasSession(s)' <=> HasSession(s)
        BY <1>7, <3>1, <4>2
      <4>5. PICK q \in Stacks : q = p
        BY <4>1
      <4>6. HasSession(q)' <=> HasSession(q)
        BY <1>7, <4>2, <4>5
      <4> HIDE DEF p
      <4>7. Kept(s)' <=> (CarryablePrior(history, s) # None /\ HasSession(q)' => HasSession(s)')
        BY <4>5 DEF Kept, p
      <4> QED
        BY <4>3, <4>4, <4>5, <4>6, <4>7
    <3> QED
      BY <3>2, <3>3
  <2> QED
    BY <2>1, <2>2
<1> QED
  BY <1>6, <1>8

LEMMA CarryStep == BaseInv /\ CarryInv /\ [Next]_vars => CarryInv'
<1> SUFFICES ASSUME BaseInv, CarryInv, [Next]_vars,
                    step' \in {"carry", "carryIndex"}, OnePatchEach(work'.view)
             PROVE  /\ Range(work'.queue) \subseteq Range(work'.view)
                    /\ \A s \in Range(work'.view) : s \in Range(work'.queue) \/ Kept(s)'
                    /\ step' = "carryIndex" => HasSession(work.queue[1])'
  BY DEF CarryInv
<1>0. work \in Work
  BY DEF BaseInv, HistInv
<1>1. CASE StartReview
  <2>1. work'.view = head /\ work'.queue = head /\ step' = "carry"
    BY <1>1 DEF StartReview, Run, NoWork
  <2> QED
    BY <2>1
<1>2. CASE CarryFile
  <2>1. /\ step = "carry" /\ work.queue # <<>> /\ work.queue[1] \in Stacks
        /\ history' = history /\ index' = index
        /\ Skips(work.queue[1]) \/ \E from \in Stacks, f \in DOMAIN index : Moves(from, work.queue[1], f)
    BY <1>2, CarryKinds DEF BaseInv
  <2>2. PICK to \in Stacks : to = work.queue[1]
    BY <2>1
  <2>3. Range(work.queue) = {to} \cup Range(Tail(work.queue))
    BY <1>0, <2>1, <2>2, QueueMoves
  <2>4. work'.view = work.view
    BY <1>0, <2>1 DEF Skips, Moves, Work
  <2>5. /\ Range(work.queue) \subseteq Range(work.view)
        /\ \A s \in Range(work.view) : s \in Range(work.queue) \/ Kept(s)
        /\ OnePatchEach(work.view)
    BY <2>1, <2>4 DEF CarryInv
  <2>6. CASE Skips(to)
    <3>1. step' = "carry" /\ work'.queue = Tail(work.queue) /\ files' = files
      BY <1>0, <2>6 DEF Skips, Work
    <3>2. \A s : Kept(s) => Kept(s)'
      BY <2>1, <3>1 DEF Kept, HasSession, Describes
    <3>3. Kept(to)
      BY <2>6 DEF Skips, Kept
    <3> QED
      BY <2>3, <2>4, <2>5, <3>1, <3>2, <3>3
  <2>7. ASSUME NEW from \in Stacks, NEW f \in DOMAIN index, Moves(from, to, f)
        PROVE  /\ Range(work'.queue) \subseteq Range(work'.view)
               /\ \A s \in Range(work'.view) : s \in Range(work'.queue) \/ Kept(s)'
               /\ step' = "carryIndex" => HasSession(work.queue[1])'
    <3>1. step' = "carryIndex" /\ work'.queue = work.queue
      BY <1>0, <2>7 DEF Moves, Work
    <3>2. to \in Range(work.view)
      BY <2>3, <2>5
    <3>3. HasSession(to)' /\ \A s \in Range(work.view) : Kept(s) => Kept(s)'
      BY <2>1, <2>5, <2>7, <3>2, MoveKeepsKept
    <3>4. HasSession(work.queue[1])'
      <4>1. \E g \in DOMAIN index' : Range(files'[g].range) = Range(to.commits)
        BY <3>3 DEF HasSession, Describes
      <4>2. work'.queue[1] = to
        BY <2>2, <3>1
      <4> QED
        BY <4>1, <4>2 DEF HasSession, Describes
    <3> QED
      BY <2>4, <2>5, <3>1, <3>3, <3>4
  <2> QED
    BY <2>1, <2>2, <2>6, <2>7
<1>3. CASE CarryIndex
  <2>1. /\ step = "carryIndex" /\ step' = "carry" /\ history' = history /\ files' = files
        /\ DOMAIN index' = DOMAIN index
        /\ work' = [work EXCEPT !.queue = Tail(@), !.moved = None]
        /\ work.queue # <<>>
    BY <1>3 DEF CarryIndex, Run, BaseInv, StoreInv
  <2>2. work'.view = work.view /\ work'.queue = Tail(work.queue)
    BY <1>0, <2>1 DEF Work
  <2>3. PICK to \in Stacks : to = work.queue[1]
    BY <1>0, <2>1, QueueMoves
  <2>4. Range(work.queue) = {to} \cup Range(Tail(work.queue))
    BY <1>0, <2>1, <2>3, QueueMoves
  <2>5. /\ Range(work.queue) \subseteq Range(work.view)
        /\ \A s \in Range(work.view) : s \in Range(work.queue) \/ Kept(s)
        /\ HasSession(to)
    BY <2>1, <2>2, <2>3 DEF CarryInv
  <2>6. \A s : Kept(s) => Kept(s)'
    BY <2>1 DEF Kept, HasSession, Describes
  <2>7. Kept(to)
    BY <2>5 DEF Kept
  <2> QED
    BY <2>1, <2>2, <2>4, <2>5, <2>6, <2>7
<1>4. CASE Rewrite \/ UNCHANGED vars
  <2>1. UNCHANGED <<history, files, index, step, work>>
    BY <1>4 DEF Rewrite, vars
  <2>2. /\ Range(work.queue) \subseteq Range(work.view)
        /\ \A s \in Range(work.view) : s \in Range(work.queue) \/ Kept(s)
        /\ step = "carryIndex" => HasSession(work.queue[1])
    BY <2>1 DEF CarryInv
  <2> QED
    BY <2>1, <2>2 DEF Kept, HasSession, Describes
<1>5. step' \notin {"carry", "carryIndex"} \/ StartReview \/ CarryFile \/ CarryIndex \/ Rewrite
        \/ UNCHANGED vars
  BY <1>0 DEF Next, Discard, StartReset, DeleteRows, Unlink, Deleted, Review, Cancel, Crash, Run, Work
<1> QED
  BY <1>1, <1>2, <1>3, <1>4, <1>5

-----------------------------------------------------------------------------
(***************************************************************************)
(* The cleanup deletes for stacks that are not in the view.                *)
(***************************************************************************)
CleanupInv ==
    step \in {"delete", "unlink"} /\ work.after = "open" =>
        \A q \in Range(work.queue), s \in Range(work.view) : q.commits # s.commits

LEMMA StaleIsGone ==
    ASSUME NEW v \in Views, NEW a, a.stack \in Stacks, Superseded(a, v) \/ Lost(a, v),
           NEW s \in Range(v)
    PROVE  a.stack.commits # s.commits
<1> SUFFICES ASSUME a.stack.commits = s.commits PROVE FALSE
  OBVIOUS
<1>1. PICK j \in DOMAIN v : s = v[j]
  BY DEF Range
<1>2. SharesLineage(a.stack, v[j])
  BY <1>1 DEF SharesLineage
<1>3. PICK i \in DOMAIN v : ExtendsStack(a.stack, v[i])
  BY <1>2 DEF Superseded, Lost
<1>4. v[i] \in Stacks /\ v[i].commits \in Seq(STRING) /\ a.stack.commits \in Seq(STRING)
      /\ a.stack.commits # <<>>
  BY ViewStacks
<1> DEFINE new == v[i].commits
           old == a.stack.commits
<1>5. Len(new) > Len(old) /\ SubSeq(new, 1, Len(old)) = old
  BY <1>3 DEF ExtendsStack
<1>6. new[1] = old[1]
  <2> HIDE DEF new, old
  <2>1. new \in Seq(STRING) /\ old \in Seq(STRING) /\ old # <<>>
    BY <1>4 DEF new, old
  <2>2. Len(old) \in Nat /\ Len(new) \in Nat /\ Len(old) >= 1
    BY <2>1, EmptySeq
  <2>3. SubSeq(new, 1, Len(old))[1] = new[1]
    BY <2>1, <2>2, <1>5, SubSeqProperties
  <2> QED
    BY <1>5, <2>3
<1>7. i = j
  BY <1>1, <1>6, ViewsAssumption
<1>8. Len(old) \in Nat
  BY <1>4
<1> QED
  BY <1>1, <1>5, <1>7, <1>8

LEMMA CleanupStep == BaseInv /\ CleanupInv /\ [Next]_vars => CleanupInv'
<1> SUFFICES ASSUME BaseInv, CleanupInv, [Next]_vars,
                    step' \in {"delete", "unlink"}, work'.after = "open",
                    NEW q \in Range(work'.queue), NEW s \in Range(work'.view)
             PROVE  q.commits # s.commits
  BY DEF CleanupInv
<1>0. work \in Work
  BY DEF BaseInv, HistInv
<1>1. CASE Discard
  <2> DEFINE stale == {i \in DOMAIN history : \/ Superseded(history[i], work.view)
                                               \/ Lost(history[i], work.view)}
             stacks == {history[i].stack : i \in stale}
  <2>1. step = "carry" /\ work' = [work EXCEPT !.queue = SetToSeq(stacks), !.after = "open"]
    BY <1>1 DEF Discard, Run
  <2>2. work.view \in Views /\ clock - 1 \in Nat /\ IsHistory(history, clock - 1, Stacks)
    BY <2>1 DEF BaseInv, HistInv
  <2>3. stale \in SUBSET DOMAIN history
    OBVIOUS
  <2>4. Range(SetToSeq(stacks)) \subseteq stacks
    <3> HIDE DEF stale
    <3> QED
      BY <2>2, <2>3, StaleTyped
  <2>5. work'.queue = SetToSeq(stacks) /\ work'.view = work.view
    <3> HIDE DEF stacks
    <3> QED
      BY <1>0, <2>1 DEF Work
  <2>6. PICK i \in stale : q = history[i].stack
    BY <2>4, <2>5
  <2>7. Superseded(history[i], work.view) \/ Lost(history[i], work.view)
    OBVIOUS
  <2>8. history[i].stack \in Stacks
    BY <2>2 DEF IsHistory, Attempt
  <2> QED
    BY <2>2, <2>5, <2>6, <2>7, <2>8, StaleIsGone
<1>2. CASE StartReset
  BY <1>2 DEF StartReset, Run, NoWork
<1>3. CASE DeleteRows
  <2>1. step = "delete" /\ work'.queue = work.queue /\ work'.view = work.view /\ work'.after = work.after
    BY <1>0, <1>3 DEF DeleteRows, Run, Work
  <2> QED
    BY <2>1 DEF CleanupInv
<1>4. CASE Unlink
  <2>1. /\ step = "unlink" /\ work'.view = work.view /\ work'.after = work.after
        /\ work'.queue = work.queue \/ work'.queue = Tail(work.queue)
    BY <1>0, <1>4 DEF Unlink, Run, Work
  <2>2. Range(Tail(work.queue)) \subseteq Range(work.queue)
    <3>1. CASE work.queue # <<>>
      BY <1>0, <3>1, QueueMoves
    <3>2. CASE work.queue = <<>>
      BY <3>2
    <3> QED
      BY <3>1, <3>2
  <2> QED
    BY <2>1, <2>2 DEF CleanupInv
<1>5. CASE Rewrite \/ UNCHANGED vars
  BY <1>5 DEF Rewrite, vars, CleanupInv
<1>6. step' \notin {"delete", "unlink"} \/ Discard \/ StartReset \/ DeleteRows \/ Unlink \/ Rewrite
        \/ UNCHANGED vars
  BY <1>0 DEF Next, StartReview, CarryFile, CarryIndex, Deleted, Review, Cancel, Crash, Run, Work
<1> QED
  BY <1>1, <1>2, <1>3, <1>4, <1>5, <1>6

LEMMA CleanupIsSparing == BaseInv /\ CleanupInv => CleanupSpares
<1> SUFFICES ASSUME BaseInv, CleanupInv, step \in {"delete", "unlink"}, work.after = "open",
                    NEW s \in Range(work.view), NEW q \in Range(work.queue),
                    NEW f \in DOMAIN index, Describes(f, s), Captures(f, q)
             PROVE  FALSE
  BY DEF CleanupSpares
<1>1. s \in Stacks /\ q \in Stacks
  BY ViewStacks DEF BaseInv, HistInv, Work
<1>2. f \in DOMAIN files
  BY DEF BaseInv, StoreInv, EntriesHaveFiles
<1>3. files[f].range = q.commits /\ Range(files[f].range) = Range(s.commits)
  BY <1>2 DEF Captures, Describes
<1>4. q.commits = s.commits
  BY <1>1, <1>3, SameCommits
<1> QED
  BY <1>4 DEF CleanupInv

-----------------------------------------------------------------------------
RewriteInv == BaseInv /\ NamesInv /\ CarryInv /\ CleanupInv

LEMMA RewriteInvHolds == Spec => []RewriteInv
<1>1. Init => RewriteInv
  BY BaseInit DEF Init, RewriteInv, NamesInv, CarryInv, CleanupInv
<1>2. RewriteInv /\ [Next]_vars => RewriteInv'
  BY BaseStep, NamesStep, CarryStep, CleanupStep DEF RewriteInv
<1> QED
  BY <1>1, <1>2, PTL DEF Spec

\* A rewrite that keeps the patch reopens its review: the carry reaches every stack,
\* the cleanup spares what it carried, and tuicr opens what Timber found
\* (carrySavedReviews, discardUnusable).
THEOREM ReviewsReopenAfterRewrites == Spec => []RewriteReopensReviews
<1>1. RewriteInv => CarriesAll
  <2> SUFFICES ASSUME RewriteInv, step = "carry", work.queue = <<>>, OnePatchEach(work.view),
                      NEW s \in Range(work.view)
               PROVE  HasCarried(s)
    BY DEF CarriesAll
  <2>1. Kept(s)
    <3>1. Range(work.queue) = {}
      BY DEF Range
    <3> QED
      BY <3>1 DEF RewriteInv, CarryInv
  <2>2. s \in Stacks
    BY ViewStacks DEF RewriteInv, BaseInv, HistInv, Work
  <2> DEFINE prior == CarryablePrior(history, s)
  <2>3. prior # None => history[prior].stack \in Stacks
    <3>1. clock - 1 \in Nat /\ IsHistory(history, clock - 1, Stacks)
      BY DEF RewriteInv, BaseInv, HistInv
    <3> QED
      BY <3>1, CarryablePicks
  <2>4. \A t \in Stacks : Saved(t) # None <=> HasSession(t)
    BY SavedPicks DEF RewriteInv, BaseInv
  <2> QED
    BY <2>1, <2>2, <2>3, <2>4 DEF Kept, HasCarried
<1>2. RewriteInv => OpensWhatIsSaved
  <2> SUFFICES ASSUME RewriteInv, step = "open", crashes = 0, NEW s \in Range(work.view)
               PROVE  Opened(s) = Saved(s)
    BY DEF OpensWhatIsSaved
  <2>1. s \in Stacks
    BY ViewStacks DEF RewriteInv, BaseInv, HistInv, Work
  <2> QED
    BY <2>1, NamesTell DEF RewriteInv
<1>3. RewriteInv => RewriteReopensReviews
  BY <1>1, <1>2, CleanupIsSparing DEF RewriteInv, RewriteReopensReviews
<1> QED
  BY <1>3, RewriteInvHolds, PTL
=============================================================================

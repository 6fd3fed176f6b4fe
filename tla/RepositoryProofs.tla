------------------------- MODULE RepositoryProofs --------------------------
(***************************************************************************)
(* Proofs about the import of a repository (RepoImport), the names of      *)
(* worktrees in a listing (WorktreeNames), and what the entries of the     *)
(* patch cache say and a maintenance leaves of them (PatchCache), for      *)
(* every number of processes, every clone with worktrees, every path,      *)
(* setting and limit.                                                      *)
(***************************************************************************)
EXTENDS RepoImport, WorktreeNames, PatchCache, FiniteSetTheorems, SequenceTheorems, TLAPS

(* The import of a repository *)

\* The types of the variables of the import.
ImportJob == [op : {"none", "import", "add", "init"},
              step : {"idle", "clone", "origin", "report", "create", "undo", "init", "prepare"},
              plan : SUBSET CloneTrees, made : SUBSET CloneTrees, seen : SUBSET Texts,
              intact : BOOLEAN]

SourceTrees == [place : {"here", "gone", "trash"}, commits : SUBSET Texts, edits : SUBSET Texts]

ImportTyped ==
    /\ source \in [CloneTrees -> SourceTrees]
    /\ target \in [Targets -> {"none", "foreign"} \cup Importers]
    /\ importing \in [Importers -> ImportJob]

\* A repository has passed through hands, and one that is not there through none.
BareInv == bare.there <=> bare.hands # {}

\* Until the clone, the sources have what the inventory found; from then on the
\* repository has it, as long as nobody else has touched the repository.
InventoryInv(c) ==
    importing[c].op = "import" =>
        /\ importing[c].step = "clone" => importing[c].seen \subseteq Cloned
        /\ importing[c].step \in {"origin", "report", "create", "undo"} /\ bare.hands = {c}
             => importing[c].seen \subseteq bare.texts

\* A directory of the plan is the import's own exactly when it is noted, unless
\* something has gone wrong.
PlanInv(c) ==
    importing[c].op = "import" =>
        /\ \A v, w \in importing[c].plan : TargetOf[v] = TargetOf[w] => v = w
        /\ importing[c].step \in {"clone", "origin", "report"} => importing[c].made = {}
        /\ importing[c].made \subseteq importing[c].plan
        /\ importing[c].intact =>
             /\ \A w \in importing[c].plan : source[w].place # "trash"
             /\ \A w \in importing[c].plan \ importing[c].made : target[TargetOf[w]] # c
             /\ importing[c].step # "undo" =>
                  \A w \in importing[c].made : target[TargetOf[w]] = c

\* What every reachable state of the import satisfies.
ImportInv == ImportTyped /\ BareInv /\ \A c \in Importers : InventoryInv(c) /\ PlanInv(c)
-----------------------------------------------------------------------------

\* A process that runs nothing.
LEMMA FreshImport ==
    /\ NotImporting \in ImportJob /\ NotImporting.op = "none" /\ NotImporting.made = {}
    /\ NotImporting.intact = TRUE
  BY DEF NotImporting, ImportJob

\* A step keeps the sources in their type and loses no commit.
LEMMA SourcesStep ==
    ASSUME ImportTyped, [ImportNext]_importVars
    PROVE  /\ source' \in [CloneTrees -> SourceTrees]
           /\ \A w \in CloneTrees : source[w].commits \subseteq source'[w].commits
           /\ \A w \in CloneTrees : source'[w].place = "trash" =>
                 source[w].place = "trash" \/ \E c \in Importers : TrashSources(c)
<1> DEFINE Goal == 
           /\ source' \in [CloneTrees -> SourceTrees]
           /\ \A w \in CloneTrees : source[w].commits \subseteq source'[w].commits
           /\ \A w \in CloneTrees : source'[w].place = "trash" =>
                 source[w].place = "trash" \/ \E c \in Importers : TrashSources(c)
<1>1. ASSUME UNCHANGED source PROVE Goal
  BY <1>1 DEF ImportTyped
<1>2. ASSUME NEW w \in CloneTrees, EditSource(w) \/ CommitSource(w) \/ DeleteSource(w) PROVE Goal
  <2> USE DEF ImportTyped, SourceTrees
  <2>1. CASE EditSource(w)
    <3>1. PICK x \in Texts : source' = [source EXCEPT ![w].edits = @ \cup {x}]
      BY <2>1 DEF EditSource
    <3> QED
      BY <3>1
  <2>2. CASE CommitSource(w)
    <3>1. source' = [source EXCEPT ![w].commits = @ \cup source[w].edits, ![w].edits = {}]
      BY <2>2 DEF CommitSource
    <3> QED
      BY <3>1
  <2>3. CASE DeleteSource(w)
    <3>1. source' = [source EXCEPT ![w].place = "gone"]
      BY <2>3 DEF DeleteSource
    <3> QED
      BY <3>1
  <2> QED
    BY <1>2, <2>1, <2>2, <2>3
<1>3. ASSUME NEW c \in Importers, TrashSources(c) PROVE Goal
  <2>1. PICK S : source' = [w \in CloneTrees |-> IF w \in S THEN [source[w] EXCEPT !.place = "trash"]
                                         ELSE source[w]]
    BY <1>3 DEF TrashSources
  <2>2. source' \in [CloneTrees -> SourceTrees]
           /\ \A w \in CloneTrees : source[w].commits \subseteq source'[w].commits
    BY <2>1 DEF ImportTyped, SourceTrees
  <2> QED
    BY <2>2, <1>3
<1>4. ASSUME NEW c \in Importers, 
             \/ StartImport(c) \/ CloneSource(c) \/ CloneSourceFails(c)
             \/ SetOrigin(c) \/ SetOriginFails(c) \/ Report(c) \/ ReportFails(c)
             \/ CreateTarget(c) \/ CreateTargetFails(c)
             \/ UndoTarget(c) \/ UndoTargetFails(c) \/ UndoClone(c) \/ UndoCloneFails(c)
             \/ StartAdd(c) \/ CloneRemote(c)
             \/ StartInit(c) \/ InitBare(c) \/ Prepare(c) \/ PrepareFails(c)
             \/ KillImport(c)
      PROVE UNCHANGED source
  BY <1>4 DEF StartImport, CloneSource, CloneSourceFails, SetOrigin, SetOriginFails, Report,
       ReportFails, CreateTarget, CreateTargetFails, UndoTarget, UndoTargetFails, UndoClone,
       UndoCloneFails, StartAdd, CloneRemote, StartInit, InitBare, Prepare, PrepareFails,
       KillImport, Begins, GiveUp
<1>5. ASSUME NEW t \in Targets, Occupy(t) PROVE UNCHANGED source
  BY <1>5 DEF Occupy
<1>6. UNCHANGED importVars => UNCHANGED source
  BY DEF importVars
<1> HIDE DEF Goal
<1>7. Goal
  BY <1>1, <1>2, <1>3, <1>4, <1>5, <1>6 DEF ImportNext
<1> QED
  BY <1>7 DEF Goal

\* What a step makes of the job of each process.
LEMMA ImportJobsStep ==
    ASSUME ImportTyped, [ImportNext]_importVars
    PROVE  importing' \in [Importers -> ImportJob]
<1> USE FreshImport
<1>1. ASSUME NEW c \in Importers, NEW job \in ImportJob, importing' = [importing EXCEPT ![c] = job]
      PROVE  importing' \in [Importers -> ImportJob]
  BY <1>1 DEF ImportTyped
<1>2. ASSUME NEW c \in Importers, GiveUp(c) \/ Quit(c) PROVE importing' \in [Importers -> ImportJob]
  BY <1>1, <1>2 DEF GiveUp, Quit
<1>3. ASSUME NEW c \in Importers,
             NEW step \in {"origin", "report", "create", "prepare"}, Turn(c, step)
      PROVE  importing' \in [Importers -> ImportJob]
  BY <1>3 DEF Turn, ImportTyped, ImportJob
<1>4. ASSUME NEW c \in Importers, StartImport(c) PROVE importing' \in [Importers -> ImportJob]
  <2> DEFINE job == [NotImporting EXCEPT !.op = "import", !.step = "clone",
                                      !.plan = Movables, !.seen = Cloned]
  <2>1. importing' = [importing EXCEPT ![c] = job]
    BY <1>4 DEF StartImport, Begins
  <2>2. Movables \in SUBSET CloneTrees /\ Cloned \in SUBSET Texts
    BY DEF Movables, Cloned, ImportTyped, SourceTrees
  <2>3. job \in ImportJob
    BY <2>2 DEF ImportJob
  <2> QED
    BY <1>1, <2>1, <2>3
<1>5. ASSUME NEW c \in Importers, StartAdd(c) PROVE importing' \in [Importers -> ImportJob]
  <2> DEFINE job == [NotImporting EXCEPT !.op = "add", !.step = "clone"]
  <2>1. job \in ImportJob
    BY DEF ImportJob
  <2>2. importing' = [importing EXCEPT ![c] = job]
    BY <1>5 DEF StartAdd, Begins
  <2> QED
    BY <1>1, <2>1, <2>2
<1>11. ASSUME NEW c \in Importers, StartInit(c) PROVE importing' \in [Importers -> ImportJob]
  <2> DEFINE job == [NotImporting EXCEPT !.op = "init", !.step = "init"]
  <2>1. job \in ImportJob
    BY DEF ImportJob
  <2>2. importing' = [importing EXCEPT ![c] = job]
    BY <1>11 DEF StartInit, Begins
  <2> QED
    BY <1>1, <2>1, <2>2
<1>6. ASSUME NEW c \in Importers, CreateTarget(c) \/ CreateTargetFails(c) \/ UndoTargetFails(c)
      PROVE importing' \in [Importers -> ImportJob]
  <2>1. CASE CreateTarget(c)
    BY <2>1 DEF CreateTarget, Left, ImportTyped, ImportJob
  <2>2. CASE CreateTargetFails(c)
    <3>1. PICK w \in Left(c) :
            importing' = [importing EXCEPT ![c].made = @ \cup {w}, ![c].step = "undo"]
      BY <2>2 DEF CreateTargetFails
    <3> DEFINE job == [importing[c] EXCEPT !.made = @ \cup {w}, !.step = "undo"]
    <3>2. job \in ImportJob /\ importing' = [importing EXCEPT ![c] = job]
      BY <3>1 DEF Left, ImportTyped, ImportJob
    <3> QED
      BY <1>1, <3>2
  <2>3. CASE UndoTargetFails(c)
    <3>1. PICK w \in importing[c].made :
            importing' = [importing EXCEPT ![c].made = @ \ {w}, ![c].intact = FALSE]
      BY <2>3 DEF UndoTargetFails
    <3> DEFINE job == [importing[c] EXCEPT !.made = @ \ {w}, !.intact = FALSE]
    <3>2. job \in ImportJob /\ importing' = [importing EXCEPT ![c] = job]
      BY <3>1 DEF ImportTyped, ImportJob
    <3> QED
      BY <1>1, <3>2
  <2> QED
    BY <1>6, <2>1, <2>2, <2>3
<1>7. ASSUME NEW c \in Importers, NEW job \in ImportJob, NEW D, Takes(c, job, D)
      PROVE  importing' \in [Importers -> ImportJob]
  <2>1. ASSUME NEW d \in Importers
        PROVE [importing[d] EXCEPT !.intact = @ /\ d \notin D] \in ImportJob
    BY DEF ImportTyped, ImportJob
  <2> QED
    BY <1>7, <2>1 DEF Takes
<1>8. ASSUME NEW c \in Importers, UndoTarget(c) PROVE importing' \in [Importers -> ImportJob]
  <2>1. PICK w \in importing[c].made :
          Takes(c, [importing[c] EXCEPT !.made = @ \ {w}], {target[TargetOf[w]]})
    BY <1>8 DEF UndoTarget
  <2>2. [importing[c] EXCEPT !.made = @ \ {w}] \in ImportJob
    BY DEF ImportTyped, ImportJob
  <2> QED
    BY <1>7, <2>1, <2>2
<1>9. ASSUME NEW c \in Importers, TrashSources(c) PROVE importing' \in [Importers -> ImportJob]
  BY <1>7, <1>9 DEF TrashSources
<1>10. ASSUME UNCHANGED importing PROVE importing' \in [Importers -> ImportJob]
  BY <1>10 DEF ImportTyped
<1> QED
  BY <1>2, <1>3, <1>4, <1>5, <1>6, <1>8, <1>9, <1>10, <1>11
  DEF ImportNext, importVars, CloneSource, CloneSourceFails, SetOrigin, SetOriginFails, Report,
       ReportFails, UndoClone, UndoCloneFails, CloneRemote, InitBare, Prepare, PrepareFails,
       KillImport, EditSource, CommitSource, DeleteSource, Occupy

\* The directories belong to imports and to others.
LEMMA TargetsTyped ==
    ASSUME ImportTyped, [ImportNext]_importVars
    PROVE  target' \in [Targets -> {"none", "foreign"} \cup Importers]
<1> USE ImportAssumption
<1>1. ASSUME NEW t, NEW v \in {"none", "foreign"} \cup Importers, target' = [target EXCEPT ![t] = v]
      PROVE  target' \in [Targets -> {"none", "foreign"} \cup Importers]
  BY <1>1 DEF ImportTyped
<1>2. ASSUME NEW c \in Importers,
             CreateTarget(c) \/ CreateTargetFails(c) \/ UndoTarget(c)
      PROVE  target' \in [Targets -> {"none", "foreign"} \cup Importers]
  <2>1. CASE CreateTarget(c)
    BY <1>1, <2>1 DEF CreateTarget
  <2>2. CASE UndoTarget(c)
    BY <1>1, <2>2 DEF UndoTarget
  <2>3. CASE CreateTargetFails(c)
    <3>1. PICK w \in Left(c) : \E left \in Leftovers(c, TargetOf[w]) :
              target' = [target EXCEPT ![TargetOf[w]] = left]
      BY <2>3 DEF CreateTargetFails
    <3>2. TargetOf[w] \in Targets
      BY DEF Left, ImportTyped, ImportJob
    <3>3. Leftovers(c, TargetOf[w]) \subseteq {"none", "foreign"} \cup Importers
      BY <3>2 DEF Leftovers, ImportTyped
    <3> QED
      BY <1>1, <3>1, <3>3
  <2> QED
    BY <1>2, <2>1, <2>2, <2>3
<1>3. ASSUME NEW t \in Targets, Occupy(t)
      PROVE  target' \in [Targets -> {"none", "foreign"} \cup Importers]
  BY <1>1, <1>3 DEF Occupy
<1>4. ASSUME UNCHANGED target
      PROVE  target' \in [Targets -> {"none", "foreign"} \cup Importers]
  BY <1>4 DEF ImportTyped
<1> QED
  BY <1>2, <1>3, <1>4
  DEF ImportNext, importVars, StartImport, CloneSource, CloneSourceFails, SetOrigin, SetOriginFails,
       Report, ReportFails, UndoTargetFails, UndoClone, UndoCloneFails, StartAdd, CloneRemote,
       StartInit, InitBare, Prepare, PrepareFails, KillImport, Begins, GiveUp, TrashSources,
       EditSource, CommitSource, DeleteSource

\* The clone is there as long as some process has made it.
LEMMA BareStep == BareInv /\ [ImportNext]_importVars => BareInv'
<1> SUFFICES ASSUME BareInv, [ImportNext]_importVars PROVE BareInv'
  OBVIOUS
<1>1. NoBare.hands = {} /\ ~NoBare.there
  BY DEF NoBare
<1>2. UNCHANGED bare => BareInv'
  BY DEF BareInv
<1>3. bare' = NoBare => BareInv'
  BY <1>1 DEF BareInv
<1>4. ASSUME NEW c, NEW texts, Touch(c, texts) PROVE BareInv'
  BY <1>4 DEF BareInv, Touch
<1> QED
  BY <1>2, <1>3, <1>4
  DEF ImportNext, importVars, StartImport, CloneSource, CloneSourceFails, SetOrigin, SetOriginFails,
       Report, ReportFails, CreateTarget, CreateTargetFails, UndoTarget, UndoTargetFails, UndoClone,
       UndoCloneFails, StartAdd, CloneRemote,
       StartInit, InitBare, Prepare, PrepareFails, KillImport, Begins, GiveUp, TrashSources,
       EditSource, CommitSource, DeleteSource, Occupy

\* What happens beside an import, as far as the import can see it.
Beside(c) ==
    /\ importing'[c].op = importing[c].op /\ importing'[c].step = importing[c].step
    /\ importing'[c].plan = importing[c].plan /\ importing'[c].made = importing[c].made
    /\ importing'[c].seen = importing[c].seen
    /\ importing'[c].intact =>
         /\ importing[c].intact
         /\ \A w \in importing[c].plan :
              /\ source'[w].place = "trash" => source[w].place = "trash"
              /\ target'[TargetOf[w]] = c <=> target[TargetOf[w]] = c
    /\ bare'.hands = {c} => bare' = bare

\* One action of a process.
ImportStep(c) ==
    \/ StartImport(c) \/ CloneSource(c) \/ CloneSourceFails(c)
    \/ SetOrigin(c) \/ SetOriginFails(c) \/ Report(c) \/ ReportFails(c)
    \/ CreateTarget(c) \/ CreateTargetFails(c) \/ TrashSources(c)
    \/ UndoTarget(c) \/ UndoTargetFails(c) \/ UndoClone(c) \/ UndoCloneFails(c)
    \/ StartAdd(c) \/ CloneRemote(c)
    \/ StartInit(c) \/ InitBare(c) \/ Prepare(c) \/ PrepareFails(c)
    \/ KillImport(c)

\* A step of one process happens beside the import of another.
LEMMA OthersBeside ==
    ASSUME ImportTyped, NEW c \in Importers, NEW d \in Importers, c # d, ImportStep(d)
    PROVE  Beside(c)
<1> USE ImportAssumption
<1>0. importing[c].plan \subseteq CloneTrees /\ importing[d].made \subseteq CloneTrees
  BY DEF ImportTyped, ImportJob
<1>1. ASSUME NEW texts, Touch(d, texts) PROVE bare'.hands # {c}
  BY <1>1 DEF Touch
<1>2. ASSUME bare' = NoBare PROVE bare'.hands # {c}
  BY <1>2 DEF NoBare
<1>3. bare'.hands = {c} => bare' = bare
  BY <1>1, <1>2 DEF ImportStep, StartImport, CloneSource, CloneSourceFails, SetOrigin,
       SetOriginFails, Report, ReportFails, CreateTarget, CreateTargetFails, UndoTarget,
       UndoTargetFails, UndoClone, UndoCloneFails, StartAdd, CloneRemote, StartInit, InitBare,
       Prepare, PrepareFails, KillImport, Begins, GiveUp, TrashSources
<1>4. CASE UndoTarget(d)
  <2>1. PICK w \in importing[d].made :
          /\ target' = [target EXCEPT ![TargetOf[w]] = "none"]
          /\ Takes(d, [importing[d] EXCEPT !.made = @ \ {w}], {target[TargetOf[w]]})
    BY <1>4 DEF UndoTarget
  <2> DEFINE i == importing[c].intact /\ c \notin {target[TargetOf[w]]}
             job == [importing[c] EXCEPT !.intact = i]
  <2>2. importing'[c] = job
    BY <2>1 DEF Takes
  <2>3. /\ job.op = importing[c].op /\ job.step = importing[c].step
        /\ job.plan = importing[c].plan /\ job.made = importing[c].made
        /\ job.seen = importing[c].seen /\ job.intact = i
    BY DEF ImportTyped, ImportJob
  <2>4. source' = source
    BY <1>4 DEF UndoTarget
  <2>5. ASSUME target[TargetOf[w]] # c, NEW v \in importing[c].plan
        PROVE target'[TargetOf[v]] = c <=> target[TargetOf[v]] = c
    BY <1>0, <2>1, <2>5 DEF ImportTyped
  <2>6. i => importing[c].intact /\ target[TargetOf[w]] # c
    OBVIOUS
  <2> HIDE DEF i, job
  <2> QED
    BY <1>3, <2>2, <2>3, <2>4, <2>5, <2>6 DEF Beside
<1>5. CASE TrashSources(d)
  <2>1. PICK S \in SUBSET importing[d].plan :
         /\ source' = [w \in CloneTrees |-> IF w \in S THEN [source[w] EXCEPT !.place = "trash"]
                                         ELSE source[w]]
         /\ Takes(d, NotImporting, {e \in Importers : importing[e].plan \cap S # {}})
    BY <1>5 DEF TrashSources
  <2> DEFINE i == importing[c].intact /\ c \notin {e \in Importers : importing[e].plan \cap S # {}}
             job == [importing[c] EXCEPT !.intact = i]
  <2>2. importing'[c] = job
    BY <2>1 DEF Takes
  <2>3. /\ job.op = importing[c].op /\ job.step = importing[c].step
        /\ job.plan = importing[c].plan /\ job.made = importing[c].made
        /\ job.seen = importing[c].seen /\ job.intact = i
    BY DEF ImportTyped, ImportJob
  <2>4. i => importing[c].intact /\ importing[c].plan \cap S = {}
    OBVIOUS
  <2>5. target' = target
    BY <1>5 DEF TrashSources
  <2>6. ASSUME importing[c].plan \cap S = {}, NEW w \in importing[c].plan
        PROVE source'[w] = source[w]
    BY <1>0, <2>1, <2>6
  <2> HIDE DEF i, job
  <2> QED
    BY <1>3, <2>2, <2>3, <2>4, <2>5, <2>6 DEF Beside
<1>6. CASE CreateTarget(d) \/ CreateTargetFails(d)
  <2>1. PICK w \in CloneTrees : \E left \in {"none", d} :
           \/ target' = target
           \/ target[TargetOf[w]] = "none" /\ target' = [target EXCEPT ![TargetOf[w]] = left]
    <3>1. CASE CreateTarget(d)
      BY <3>1 DEF CreateTarget, Left, ImportTyped, ImportJob
    <3>2. CASE CreateTargetFails(d)
      <4>1. PICK w \in Left(d) : \E left \in Leftovers(d, TargetOf[w]) :
              target' = [target EXCEPT ![TargetOf[w]] = left]
        BY <3>2 DEF CreateTargetFails
      <4>2. w \in CloneTrees
        BY DEF Left, ImportTyped, ImportJob
      <4>3. CASE target[TargetOf[w]] = "none"
        BY <4>1, <4>2, <4>3 DEF Leftovers
      <4>4. CASE target[TargetOf[w]] # "none"
        BY <4>1, <4>2, <4>4 DEF Leftovers, ImportTyped
      <4> QED
        BY <4>3, <4>4
    <3> QED
      BY <1>6, <3>1, <3>2
  <2>2. \A v \in CloneTrees : target'[TargetOf[v]] = c <=> target[TargetOf[v]] = c
    BY <2>1 DEF ImportTyped
  <2>3. importing'[c] = importing[c] /\ source' = source
    BY <1>6 DEF CreateTarget, CreateTargetFails, ImportTyped
  <2> QED
    BY <1>0, <1>3, <2>2, <2>3 DEF Beside
<1>7. ASSUME \/ StartImport(d) \/ CloneSource(d) \/ CloneSourceFails(d)
             \/ SetOrigin(d) \/ SetOriginFails(d) \/ Report(d) \/ ReportFails(d)
             \/ UndoTargetFails(d) \/ UndoClone(d) \/ UndoCloneFails(d)
             \/ StartAdd(d) \/ CloneRemote(d)
             \/ StartInit(d) \/ InitBare(d) \/ Prepare(d) \/ PrepareFails(d)
             \/ KillImport(d)
      PROVE  Beside(c)
  <2>1. importing'[c] = importing[c] /\ UNCHANGED <<source, target>>
    BY <1>7 DEF StartImport, CloneSource, CloneSourceFails, SetOrigin,
       SetOriginFails, Report, ReportFails,
       UndoTargetFails, UndoClone, UndoCloneFails, StartAdd, CloneRemote, StartInit, InitBare,
       Prepare, PrepareFails, KillImport, Begins, GiveUp, Quit, Turn, ImportTyped
  <2> QED
    BY <1>3, <2>1 DEF Beside
<1> QED
  BY <1>4, <1>5, <1>6, <1>7 DEF ImportStep

\* The user leaves the imports alone.
LEMMA UserBeside ==
    ASSUME ImportTyped, NEW c \in Importers,
           \/ \E w \in CloneTrees : EditSource(w) \/ CommitSource(w) \/ DeleteSource(w)
           \/ \E t \in Targets : Occupy(t)
           \/ UNCHANGED importVars
    PROVE  Beside(c)
<1>1. UNCHANGED <<importing, bare>>
  BY DEF EditSource, CommitSource, DeleteSource, Occupy, importVars
<1>2. ASSUME NEW v \in CloneTrees, source'[v].place = "trash" PROVE source[v].place = "trash"
  <2> USE DEF ImportTyped, SourceTrees
  <2>1. ASSUME NEW w \in CloneTrees, EditSource(w) \/ CommitSource(w)
        PROVE  source'[v].place = source[v].place
    <3>1. CASE EditSource(w)
      BY <3>1 DEF EditSource
    <3>2. CASE CommitSource(w)
      BY <3>2 DEF CommitSource
    <3> QED
      BY <2>1, <3>1, <3>2
  <2>2. ASSUME NEW w \in CloneTrees, DeleteSource(w)
        PROVE  source'[v].place \in {source[v].place, "gone"}
    BY <2>2 DEF DeleteSource
  <2>3. ASSUME UNCHANGED source PROVE source'[v].place = source[v].place
    BY <2>3
  <2> QED
    BY <1>2, <2>1, <2>2, <2>3 DEF Occupy, importVars
<1>3. ASSUME NEW v \in CloneTrees PROVE target'[TargetOf[v]] = c <=> target[TargetOf[v]] = c
  <2>1. target' = target \/ \E t \in Targets : target[t] = "none" /\ target' = [target EXCEPT ![t] = "foreign"]
    BY DEF EditSource, CommitSource, DeleteSource, Occupy, importVars
  <2> QED
    BY <2>1, ImportAssumption DEF ImportTyped
<1>4. importing[c].plan \subseteq CloneTrees
  BY DEF ImportTyped, ImportJob
<1> QED
  BY <1>1, <1>2, <1>3, <1>4 DEF Beside

\* What happens beside an import keeps what it knows.
LEMMA BesideKeeps ==
    ASSUME ImportTyped, [ImportNext]_importVars, NEW c \in Importers, InventoryInv(c), PlanInv(c), Beside(c)
    PROVE  InventoryInv(c)' /\ PlanInv(c)'
<1>1. Cloned \subseteq Cloned'
  BY SourcesStep DEF Cloned
<1>2. importing[c].plan \subseteq CloneTrees /\ importing[c].made \subseteq CloneTrees
  BY DEF ImportTyped, ImportJob
<1>3. InventoryInv(c)'
  BY <1>1 DEF InventoryInv, Beside
<1>4. PlanInv(c)'
  BY DEF PlanInv, Beside
<1> QED
  BY <1>3, <1>4

\* An import that starts: its sources are there, its targets are free.
LEMMA StartKeeps ==
    ASSUME ImportTyped, NEW c \in Importers, StartImport(c)
    PROVE  InventoryInv(c)' /\ PlanInv(c)'
<1> DEFINE job == [NotImporting EXCEPT !.op = "import", !.step = "clone",
                                       !.plan = Movables, !.seen = Cloned]
<1>1. importing'[c] = job /\ UNCHANGED <<source, target, bare>>
  BY DEF StartImport, Begins, ImportTyped
<1>2. /\ job.op = "import" /\ job.step = "clone" /\ job.plan = Movables /\ job.made = {}
      /\ job.seen = Cloned
  BY DEF NotImporting
<1>3. Cloned' = Cloned
  BY <1>1 DEF Cloned
<1>4. \A w \in Movables : source[w].place = "here" /\ target[TargetOf[w]] = "none"
  BY DEF Movables, StartImport, TargetsFree
<1>5. \A v, w \in Movables : TargetOf[v] = TargetOf[w] => v = w
  BY DEF StartImport, TargetsFree
<1> HIDE DEF job
<1>6. InventoryInv(c)'
  BY <1>1, <1>2, <1>3 DEF InventoryInv
<1>7. c # "none"
  BY ImportAssumption
<1>8. PlanInv(c)'
  BY <1>1, <1>2, <1>4, <1>5, <1>7 DEF PlanInv
<1> QED
  BY <1>6, <1>8

\* Steps of an import that leave directories and worktrees alone.
LEMMA TurnKeeps ==
    ASSUME ImportTyped, BareInv, NEW c \in Importers, InventoryInv(c), PlanInv(c),
           CloneSource(c) \/ SetOrigin(c) \/ Report(c)
    PROVE  InventoryInv(c)' /\ PlanInv(c)'
<1>1. /\ UNCHANGED <<source, target>>
      /\ importing[c].op = "import" /\ importing[c].step \in {"clone", "origin", "report"}
      /\ \E step \in {"origin", "report", "create"} :
           importing'[c] = [importing[c] EXCEPT !.step = step]
  BY DEF CloneSource, SetOrigin, Report, Doing, Turn, ImportTyped
<1>2. PICK step \in {"origin", "report", "create"} :
        importing'[c] = [importing[c] EXCEPT !.step = step]
  BY <1>1
<1> DEFINE job == [importing[c] EXCEPT !.step = step]
<1>3. /\ job.op = "import" /\ job.step = step /\ job.plan = importing[c].plan
      /\ job.made = importing[c].made /\ job.seen = importing[c].seen
      /\ job.intact = importing[c].intact
  BY <1>1 DEF ImportTyped, ImportJob
<1>4. importing'[c] = job
  BY <1>2
<1>5. bare'.hands = {c} => importing[c].seen \subseteq bare'.texts
  <2>1. CASE CloneSource(c)
    BY <1>1, <2>1 DEF CloneSource, Touch, Doing, InventoryInv
  <2>2. CASE SetOrigin(c)
    <3>1. bare.there /\ bare'.texts = bare.texts /\ bare'.hands = bare.hands \cup {c}
          /\ importing[c].step = "origin"
      BY <2>2 DEF SetOrigin, Touch, Doing
    <3>2. bare'.hands = {c} => bare.hands = {c}
      BY <3>1 DEF BareInv
    <3> QED
      BY <1>1, <3>1, <3>2 DEF InventoryInv
  <2>3. CASE Report(c)
    BY <1>1, <2>3 DEF Report, Doing, InventoryInv
  <2> QED
    BY <2>1, <2>2, <2>3
<1> HIDE DEF job
<1>6. InventoryInv(c)'
  BY <1>3, <1>4, <1>5 DEF InventoryInv
<1>7. PlanInv(c)'
  BY <1>1, <1>3, <1>4 DEF PlanInv
<1> QED
  BY <1>6, <1>7

\* The directories of an import.
LEMMA CreateKeeps ==
    ASSUME ImportTyped, NEW c \in Importers, InventoryInv(c), PlanInv(c),
           CreateTarget(c) \/ CreateTargetFails(c)
    PROVE  InventoryInv(c)' /\ PlanInv(c)'
<1> USE ImportAssumption
<1>1. PICK w \in Left(c), step \in {"create", "undo"} :
        /\ importing'[c] = [importing[c] EXCEPT !.made = @ \cup {w}, !.step = step]
        /\ step = "create" => target' = [target EXCEPT ![TargetOf[w]] = c]
        /\ step = "undo" => \E left : target' = [target EXCEPT ![TargetOf[w]] = left]
  <2>1. CASE CreateTarget(c)
    <3>1. PICK w \in Left(c) : /\ target' = [target EXCEPT ![TargetOf[w]] = c]
                               /\ importing' = [importing EXCEPT ![c].made = @ \cup {w}]
      BY <2>1 DEF CreateTarget
    <3>2. importing'[c] = [importing[c] EXCEPT !.made = @ \cup {w}, !.step = "create"]
      BY <2>1, <3>1 DEF ImportTyped, ImportJob, CreateTarget, Doing
    <3> QED
      BY <3>1, <3>2
  <2>2. CASE CreateTargetFails(c)
    <3>1. PICK w \in Left(c) :
            /\ \E left \in Leftovers(c, TargetOf[w]) : target' = [target EXCEPT ![TargetOf[w]] = left]
            /\ importing' = [importing EXCEPT ![c].made = @ \cup {w}, ![c].step = "undo"]
      BY <2>2 DEF CreateTargetFails
    <3>2. importing'[c] = [importing[c] EXCEPT !.made = @ \cup {w}, !.step = "undo"]
      BY <3>1 DEF ImportTyped, ImportJob
    <3> QED
      BY <3>1, <3>2
  <2> QED
    BY <2>1, <2>2
<1> DEFINE job == [importing[c] EXCEPT !.made = @ \cup {w}, !.step = step]
<1>2. /\ job.op = importing[c].op /\ job.step = step /\ job.plan = importing[c].plan
      /\ job.made = importing[c].made \cup {w} /\ job.seen = importing[c].seen
      /\ job.intact = importing[c].intact
  BY DEF ImportTyped, ImportJob
<1>3. importing'[c] = job
  BY <1>1
<1>4. /\ UNCHANGED <<source, bare>>
      /\ importing[c].op = "import" /\ importing[c].step = "create"
  BY DEF CreateTarget, CreateTargetFails, Doing
<1>5. w \in importing[c].plan /\ importing[c].plan \subseteq CloneTrees
  BY DEF Left, ImportTyped, ImportJob
<1> HIDE DEF job
<1>6. InventoryInv(c)'
  BY <1>2, <1>3, <1>4 DEF InventoryInv
<1>7. \A v \in importing[c].plan \ {w} : target'[TargetOf[v]] = target[TargetOf[v]]
  BY <1>1, <1>4, <1>5 DEF PlanInv, ImportTyped
<1>8. step = "create" => target'[TargetOf[w]] = c
  BY <1>1, <1>5 DEF ImportTyped
<1>9. PlanInv(c)'
  BY <1>2, <1>3, <1>4, <1>5, <1>7, <1>8 DEF PlanInv
<1> QED
  BY <1>6, <1>9

\* One worktree of the roll back: its target is removed.
LEMMA UndoKeeps ==
    ASSUME ImportTyped, NEW c \in Importers, InventoryInv(c), PlanInv(c),
           UndoTarget(c) \/ UndoTargetFails(c)
    PROVE  InventoryInv(c)' /\ PlanInv(c)'
<1> USE ImportAssumption
<1>0. /\ UNCHANGED <<source, bare>>
      /\ importing[c].op = "import" /\ importing[c].step = "undo"
  BY DEF UndoTarget, UndoTargetFails, Doing
<1>1. CASE UndoTarget(c)
  <2>1. PICK w \in importing[c].made :
          /\ target' = [target EXCEPT ![TargetOf[w]] = "none"]
          /\ importing'[c] = [importing[c] EXCEPT !.made = @ \ {w}]
    BY <1>1 DEF UndoTarget, Takes
  <2> DEFINE job == [importing[c] EXCEPT !.made = @ \ {w}]
  <2>2. /\ job.op = "import" /\ job.step = "undo" /\ job.plan = importing[c].plan
        /\ job.made = importing[c].made \ {w} /\ job.seen = importing[c].seen
        /\ job.intact = importing[c].intact
    BY <1>0 DEF ImportTyped, ImportJob
  <2>3. importing'[c] = job
    BY <2>1
  <2> HIDE DEF job
  <2>4. InventoryInv(c)'
    BY <1>0, <2>2, <2>3 DEF InventoryInv
  <2>5. w \in CloneTrees /\ importing[c].plan \subseteq CloneTrees /\ c # "none"
    BY DEF ImportTyped, ImportJob
  <2>6. \A v \in importing[c].plan : target'[TargetOf[v]] = c =>
           target[TargetOf[v]] = c /\ TargetOf[v] # TargetOf[w]
    BY <2>1, <2>5 DEF ImportTyped
  <2>7. PlanInv(c)'
    BY <1>0, <2>2, <2>3, <2>6 DEF PlanInv
  <2> QED
    BY <2>4, <2>7
<1>2. CASE UndoTargetFails(c)
  <2>1. PICK w \in importing[c].made :
          importing'[c] = [importing[c] EXCEPT !.made = @ \ {w}, !.intact = FALSE]
    BY <1>2 DEF UndoTargetFails, ImportTyped
  <2> DEFINE job == [importing[c] EXCEPT !.made = @ \ {w}, !.intact = FALSE]
  <2>2. /\ job.op = "import" /\ job.step = "undo" /\ job.plan = importing[c].plan
        /\ job.made = importing[c].made \ {w} /\ job.seen = importing[c].seen
        /\ ~job.intact
    BY <1>0 DEF ImportTyped, ImportJob
  <2>3. importing'[c] = job
    BY <2>1
  <2> HIDE DEF job
  <2>4. InventoryInv(c)'
    BY <1>0, <2>2, <2>3 DEF InventoryInv
  <2>5. PlanInv(c)'
    BY <1>0, <2>2, <2>3 DEF PlanInv
  <2> QED
    BY <2>4, <2>5
<1> QED
  BY <1>1, <1>2

\* The steps after which a process has no import.
LEMMA EndsKeep ==
    ASSUME ImportTyped, NEW c \in Importers,
           \/ CloneSourceFails(c) \/ SetOriginFails(c) \/ ReportFails(c) \/ TrashSources(c)
           \/ UndoClone(c) \/ UndoCloneFails(c) \/ StartAdd(c) \/ CloneRemote(c)
           \/ StartInit(c) \/ InitBare(c) \/ Prepare(c) \/ PrepareFails(c) \/ KillImport(c)
    PROVE  InventoryInv(c)' /\ PlanInv(c)'
<1>1. importing'[c].op # "import"
  <2>1. CASE Quit(c)
    BY <2>1, FreshImport DEF Quit, ImportTyped
  <2>2. CASE TrashSources(c)
    BY <2>2, FreshImport DEF TrashSources, Takes
  <2>3. CASE StartAdd(c)
    <3> DEFINE job == [NotImporting EXCEPT !.op = "add", !.step = "clone"]
    <3>1. importing'[c] = job
      BY <2>3 DEF StartAdd, Begins, ImportTyped
    <3>2. job.op = "add"
      BY DEF NotImporting
    <3> QED
      BY <3>1, <3>2
  <2>5. CASE StartInit(c)
    <3> DEFINE job == [NotImporting EXCEPT !.op = "init", !.step = "init"]
    <3>1. importing'[c] = job
      BY <2>5 DEF StartInit, Begins, ImportTyped
    <3>2. job.op = "init"
      BY DEF NotImporting
    <3> QED
      BY <3>1, <3>2
  <2>4. CASE InitBare(c)
    BY <2>4 DEF InitBare, Doing, Turn, ImportTyped, ImportJob
  <2> QED
    BY <2>1, <2>2, <2>3, <2>4, <2>5 DEF CloneSourceFails, SetOriginFails, ReportFails, UndoClone,
         UndoCloneFails, CloneRemote, Prepare, PrepareFails, KillImport, GiveUp
<1> QED
  BY <1>1 DEF InventoryInv, PlanInv

\* The invariant holds again after each step.
LEMMA ImportInductive == ImportInv /\ [ImportNext]_importVars => ImportInv'
<1> SUFFICES ASSUME ImportInv, [ImportNext]_importVars PROVE ImportInv'
  OBVIOUS
<1>1. ImportTyped /\ BareInv /\ \A c \in Importers : InventoryInv(c) /\ PlanInv(c)
  BY DEF ImportInv
<1>2. ImportTyped'
  BY <1>1, SourcesStep, TargetsTyped, ImportJobsStep DEF ImportTyped
<1>3. BareInv'
  BY <1>1, BareStep
<1>4. ASSUME NEW c \in Importers PROVE InventoryInv(c)' /\ PlanInv(c)'
  <2>1. \/ \E d \in Importers : ImportStep(d)
        \/ \E w \in CloneTrees : EditSource(w) \/ CommitSource(w) \/ DeleteSource(w)
        \/ \E t \in Targets : Occupy(t)
        \/ UNCHANGED importVars
    BY DEF ImportNext, ImportStep
  <2>2. CASE ImportStep(c)
    BY <1>1, <2>2, StartKeeps, TurnKeeps, CreateKeeps, UndoKeeps, EndsKeep DEF ImportStep
  <2>3. CASE \E d \in Importers : d # c /\ ImportStep(d)
    BY <1>1, <2>3, OthersBeside, BesideKeeps
  <2>4. CASE \/ \E w \in CloneTrees : EditSource(w) \/ CommitSource(w) \/ DeleteSource(w)
             \/ \E t \in Targets : Occupy(t)
             \/ UNCHANGED importVars
    BY <1>1, <2>4, UserBeside, BesideKeeps
  <2> QED
    BY <2>1, <2>2, <2>3, <2>4
<1> QED
  BY <1>2, <1>3, <1>4 DEF ImportInv

\* The invariant holds in the initial states.
LEMMA ImportStarts == ImportInit => ImportInv
<1> SUFFICES ASSUME ImportInit PROVE ImportInv
  OBVIOUS
<1>1. ImportTyped
  BY FreshImport DEF ImportInit, ImportTyped, SourceTrees
<1>2. BareInv
  BY DEF ImportInit, BareInv, NoBare
<1>3. \A c \in Importers : importing[c].op # "import"
  BY FreshImport DEF ImportInit
<1> QED
  BY <1>1, <1>2, <1>3 DEF ImportInv, InventoryInv, PlanInv

\* The worktrees of the clone go to the trash only when each of them has a successor
\* that nobody has taken, and the new repository the commits that the inventory found.
THEOREM ImportsTrashLast == ImportSpec => TrashedSourcesLiveOn
<1> DEFINE safe == \A c \in Importers : SuccessorsFirst(c)
<1>1. ASSUME ImportInv, NEW c \in Importers PROVE SuccessorsFirst(c)
  <2> SUFFICES ASSUME TrashSources(c)
               PROVE  /\ importing[c].intact =>
                           \A w \in importing[c].plan : target[TargetOf[w]] = c
                      /\ bare.hands = {c} => importing[c].seen \subseteq bare.texts
    BY DEF SuccessorsFirst
  <2>1. importing[c].op = "import" /\ importing[c].step = "create" /\ Left(c) = {}
    BY DEF TrashSources, Recreated, Doing
  <2>2. InventoryInv(c) /\ PlanInv(c)
    BY <1>1 DEF ImportInv
  <2>3. importing[c].plan \subseteq importing[c].made
    BY <2>1 DEF Left
  <2> QED
    BY <2>1, <2>2, <2>3 DEF InventoryInv, PlanInv
<1>2. ImportInv => safe
  BY <1>1
<1> HIDE DEF safe
<1>3. ImportSpec => [][safe]_importVars
  BY <1>2, ImportStarts, ImportInductive, PTL DEF ImportSpec
<1> QED
  BY <1>3 DEF TrashedSourcesLiveOn, safe

\* A rollback that meets no error leaves no clone and no directory of the import, and
\* no worktree of the source in the trash.
THEOREM RollbacksUndoAll == ImportSpec => RolledBackImportLeavesNothing
<1> DEFINE safe == \A c \in Importers : UndoesAll(c)
<1>1. ASSUME ImportInv, NEW c \in Importers PROVE UndoesAll(c)
  <2> SUFFICES ASSUME UndoClone(c), importing[c].intact
               PROVE  /\ ~bare'.there
                      /\ \A w \in importing[c].plan : target'[TargetOf[w]] # c
                      /\ \A w \in importing[c].plan : source'[w].place # "trash"
    BY DEF UndoesAll
  <2>1. /\ importing[c].op = "import" /\ importing[c].made = {}
        /\ UNCHANGED <<source, target>> /\ bare' = NoBare
    BY DEF UndoClone, Doing
  <2>2. PlanInv(c)
    BY <1>1 DEF ImportInv
  <2> QED
    BY <2>1, <2>2 DEF PlanInv, NoBare
<1>2. ImportInv => safe
  BY <1>1
<1> HIDE DEF safe
<1>3. ImportSpec => [][safe]_importVars
  BY <1>2, ImportStarts, ImportInductive, PTL DEF ImportSpec
<1> QED
  BY <1>3 DEF RolledBackImportLeavesNothing, safe
----------------------------------------------------------------------------
(* The names of worktrees *)

\* The name of a worktree is the end of its path, with the root before it as often as
\* it takes; the rest of the path is what is left above.
EndOf(p, name, rest) ==
    /\ name \in Seq(Elements \cup {"/"}) /\ Len(name) >= 1
    /\ rest \in Seq(Elements)
    /\ Len(rest) = IF Len(name) <= Len(p) THEN Len(p) - Len(name) ELSE 0
    /\ \A i \in 1 .. Len(rest) : rest[i] = p[i]
    /\ \A j \in 0 .. Len(name) - 1 :
         name[Len(name) - j] = IF j < Len(p) THEN p[Len(p) - j] ELSE "/"

\* A path has between one and MaxDepth elements.
LEMMA PathsAre ==
    ASSUME NEW p \in Sequences1
    PROVE  p \in Seq(Elements) /\ Len(p) \in 1 .. MaxDepth
<1>1. PICK n \in 1 .. MaxDepth : p \in [1 .. n -> Elements]
  BY DEF Sequences1
<1>2. n \in Nat /\ MaxDepth \in Nat
  BY NamesAssumption
<1>3. p \in Seq(Elements) /\ Len(p) = n
  BY <1>1, <1>2
<1> QED
  BY <1>3

\* The directory of a path leaves out its last element.
LEMMA DirIs ==
    ASSUME NEW s \in Seq(Elements), Len(s) >= 1
    PROVE  /\ Dir(s) \in Seq(Elements) /\ Len(Dir(s)) = Len(s) - 1
           /\ \A i \in 1 .. Len(s) - 1 : Dir(s)[i] = s[i]
<1> DEFINE n == Len(s) - 1
<1>1. 1 \in Int /\ n \in Int /\ \A i \in 1 .. n : s[i] \in Elements
  OBVIOUS
<1> DEFINE dir == SubSeq(s, 1, n)
<1> HIDE DEF n
<1>2. /\ dir \in Seq(Elements)
      /\ Len(dir) = IF 1 <= n THEN n - 1 + 1 ELSE 0
      /\ \A i \in 1 .. n - 1 + 1 : dir[i] = s[1 + i - 1]
  BY <1>1, SubSeqProperties
<1>3. n \in Nat /\ n = Len(s) - 1 /\ Dir(s) = dir
  BY DEF Dir, n
<1> HIDE DEF dir
<1>4. Len(dir) = n
  BY <1>2, <1>3
<1>5. ASSUME NEW i \in 1 .. n PROVE dir[i] = s[i]
  <2>1. i \in 1 .. n - 1 + 1 /\ 1 + i - 1 = i
    BY <1>3
  <2> QED
    BY <1>2, <2>1
<1> QED
  BY <1>2, <1>3, <1>4, <1>5

\* A listing starts with the last element.
LEMMA BaseIsEnd ==
    ASSUME NEW p \in Sequences1
    PROVE  EndOf(p, <<Base(p)>>, Dir(p))
<1>1. p \in Seq(Elements) /\ Len(p) \in Nat /\ Len(p) >= 1
  BY PathsAre, NamesAssumption
<1>2. Base(p) \in Elements
  BY <1>1 DEF Base
<1>3. <<Base(p)>> \in Seq(Elements \cup {"/"}) /\ Len(<<Base(p)>>) = 1 /\ <<Base(p)>>[1] = p[Len(p)]
  BY <1>2 DEF Base
<1>4. /\ Dir(p) \in Seq(Elements) /\ Len(Dir(p)) = Len(p) - 1
      /\ \A i \in 1 .. Len(p) - 1 : Dir(p)[i] = p[i]
  BY <1>1, DirIs
<1> DEFINE name == <<Base(p)>>
           rest == Dir(p)
<1>5. \A j \in 0 .. Len(name) - 1 : j = 0
  BY <1>3
<1> HIDE DEF name, rest
<1>6. EndOf(p, name, rest)
  BY <1>1, <1>3, <1>4, <1>5 DEF EndOf, name, rest
<1> QED
  BY <1>6 DEF name, rest

\* One element more keeps it so.
Longer(name, rest) == <<IF rest = <<>> THEN "/" ELSE Base(rest)>> \o name
Shorter(rest) == IF rest # <<>> THEN Dir(rest) ELSE rest

\* One round makes the name one element longer, the rest one shorter.
LEMMA LongerIsEnd ==
    ASSUME NEW p \in Sequences1, NEW name, NEW rest, EndOf(p, name, rest)
    PROVE  EndOf(p, Longer(name, rest), Shorter(rest)) /\ Len(Longer(name, rest)) = Len(name) + 1
<1>1. p \in Seq(Elements) /\ Len(p) \in Nat /\ Len(p) >= 1
  BY PathsAre, NamesAssumption
<1> DEFINE l == Len(name)
           n == Len(p)
           k == Len(rest)
           e == IF rest = <<>> THEN "/" ELSE Base(rest)
           long == <<e>> \o name
<1>2. name \in Seq(Elements \cup {"/"}) /\ l \in Nat /\ rest \in Seq(Elements) /\ k \in Nat /\ l >= 1
  BY DEF EndOf
<1>3. k = IF l <= n THEN n - l ELSE 0
  BY DEF EndOf
<1>4. e = IF l < n THEN p[n - l] ELSE "/"
  <2>1. CASE l < n
    <3>1. k = n - l /\ k >= 1 /\ rest # <<>>
      BY <1>1, <1>2, <1>3, <2>1
    <3>2. rest[k] = p[k]
      BY <3>1, <1>2 DEF EndOf
    <3> QED
      BY <2>1, <3>1, <3>2 DEF Base
  <2>2. CASE ~(l < n)
    <3>1. k = 0
      BY <1>1, <1>2, <1>3, <2>2
    <3>2. rest = <<>>
      BY <1>2, <3>1
    <3> QED
      BY <2>2, <3>2
  <2> QED
    BY <2>1, <2>2
<1>5. e \in Elements \cup {"/"}
  BY <1>1, <1>2, <1>4
<1> HIDE DEF e
<1>6. /\ long \in Seq(Elements \cup {"/"}) /\ Len(long) = l + 1 /\ long[1] = e
      /\ \A i \in 2 .. l + 1 : long[i] = name[i - 1]
  BY <1>2, <1>5
<1> HIDE DEF long
<1>7. ASSUME NEW j \in 0 .. l PROVE long[l + 1 - j] = IF j < n THEN p[n - j] ELSE "/"
  <2>1. CASE j = l
    BY <1>4, <1>6, <2>1, <1>2
  <2>2. CASE j < l
    <3>1. name[l - j] = IF j < n THEN p[n - j] ELSE "/"
      BY <1>2, <2>2 DEF EndOf
    <3>2. long[l + 1 - j] = name[l - j]
      BY <1>2, <1>6, <2>2
    <3> QED
      BY <3>1, <3>2
  <2> QED
    BY <1>2, <2>1, <2>2
<1> DEFINE short == Shorter(rest)
<1>8. /\ short \in Seq(Elements) /\ Len(short) = IF k = 0 THEN 0 ELSE k - 1
      /\ \A i \in 1 .. Len(short) : short[i] = rest[i]
  BY <1>2 DEF Shorter, Dir
<1> HIDE DEF short
<1>9. /\ Len(short) = IF l + 1 <= n THEN n - (l + 1) ELSE 0
      /\ \A i \in 1 .. Len(short) : short[i] = p[i]
  <2>1. Len(short) \in Nat /\ Len(short) <= k
    BY <1>2, <1>8
  <2>2. \A i \in 1 .. k : rest[i] = p[i]
    BY DEF EndOf
  <2> QED
    BY <1>1, <1>2, <1>3, <1>8, <2>1, <2>2
<1>10. EndOf(p, long, short)
  BY <1>2, <1>6, <1>7, <1>8, <1>9 DEF EndOf
<1> QED
  BY <1>6, <1>10 DEF long, short, e, Longer

\* Two paths that agree on as many elements as the longer one has are one.
LEMMA LongNamesDiffer ==
    ASSUME NEW p \in Sequences1, NEW q \in Sequences1, NEW name, NEW rest, NEW other,
           EndOf(p, name, rest), EndOf(q, name, other),
           Len(name) >= Len(p), Len(name) >= Len(q)
    PROVE  p = q
<1>1. /\ p \in Seq(Elements) /\ Len(p) \in Nat /\ Len(p) >= 1
      /\ q \in Seq(Elements) /\ Len(q) \in Nat /\ Len(q) >= 1
  BY PathsAre, NamesAssumption
<1> DEFINE l == Len(name)
           n == Len(p)
           m == Len(q)
<1>2. l \in Nat /\ \A j \in 0 .. l - 1 :
          /\ name[l - j] = IF j < n THEN p[n - j] ELSE "/"
          /\ name[l - j] = IF j < m THEN q[m - j] ELSE "/"
  BY DEF EndOf
<1>3. ~(n < m)
  <2> SUFFICES ASSUME n < m PROVE FALSE
    OBVIOUS
  <2>1. n \in 0 .. l - 1 /\ m - n \in 1 .. m
    BY <1>1, <1>2
  <2>2. q[m - n] = "/"
    BY <1>1, <1>2, <2>1
  <2> QED
    BY <1>1, <2>1, <2>2, NamesAssumption
<1>4. ~(m < n)
  <2> SUFFICES ASSUME m < n PROVE FALSE
    OBVIOUS
  <2>1. m \in 0 .. l - 1 /\ n - m \in 1 .. n
    BY <1>1, <1>2
  <2>2. p[n - m] = "/"
    BY <1>1, <1>2, <2>1
  <2> QED
    BY <1>1, <2>1, <2>2, NamesAssumption
<1>5. n = m
  BY <1>1, <1>3, <1>4
<1>6. ASSUME NEW i \in 1 .. n PROVE p[i] = q[i]
  <2>1. n - i \in 0 .. l - 1 /\ n - i < n /\ n - (n - i) = i
    BY <1>1, <1>2
  <2>2. p[n - (n - i)] = q[m - (n - i)]
    BY <1>2, <1>5, <2>1
  <2> QED
    BY <1>5, <2>1, <2>2
<1> QED
  BY <1>1, <1>5, <1>6

\* The names that worktrees have of their own differ.
OwnNames ==
    /\ DOMAIN paths \subseteq Sequences1
    /\ \A p \in DOMAIN paths : ~Manual(p) => paths[p] \in Sequences1
    /\ \A p, q \in DOMAIN paths : p # q /\ ~Manual(p) => paths[p] # paths[q]

\* In a listing, a name that the user's path gives has grown in every round, or no other
\* has it, now and later.
NameInv(p) ==
    IF Manual(p)
    THEN /\ EndOf(p, names[p], parents[p])
         /\ \/ Len(names[p]) = rounds + 1
            \/ Len(names[p]) <= rounds /\ \A q \in DOMAIN paths \ {p} : names[q] # names[p]
    ELSE names[p] = paths[p]

\* While a listing is under way, every worktree has such a name; no more rounds than MaxDepth.
ListingInv ==
    /\ rounds \in Nat /\ rounds <= MaxDepth
    /\ listing => \A p \in DOMAIN paths : NameInv(p)

\* What every reachable state of the listing satisfies.
NamesInv == OwnNames /\ ListingInv
-----------------------------------------------------------------------------
\* A conflict after so many rounds is one between names that are still part of a path.
LEMMA ConflictsAreShort ==
    ASSUME NamesInv, listing, NEW p \in Conflicting
    PROVE  rounds + 1 <= MaxDepth /\ Len(names[p]) = rounds + 1
<1>1. p \in DOMAIN paths /\ Manual(p) /\ p \in Sequences1
  BY DEF Conflicting, NamesInv, OwnNames
<1>2. PICK q \in DOMAIN paths \ {p} : names[p] = names[q]
  BY DEF Conflicting
<1>3. EndOf(p, names[p], parents[p]) /\ Len(names[p]) = rounds + 1
  BY <1>1, <1>2 DEF NamesInv, ListingInv, NameInv
<1>4. rounds \in Nat /\ MaxDepth \in Nat /\ Len(p) \in Nat /\ Len(p) <= MaxDepth
  BY <1>1, PathsAre, NamesAssumption DEF NamesInv, ListingInv
<1>5. CASE Manual(q)
  <2>1. q \in Sequences1 /\ EndOf(q, names[p], parents[q]) /\ Len(q) \in Nat /\ Len(q) <= MaxDepth
    BY <1>2, <1>4, <1>5, PathsAre DEF NamesInv, OwnNames, ListingInv, NameInv
  <2>2. ~(Len(names[p]) >= Len(p) /\ Len(names[p]) >= Len(q))
    BY <1>1, <1>2, <1>3, <2>1, LongNamesDiffer
  <2> QED
    BY <1>3, <1>4, <2>1, <2>2
<1>6. CASE ~Manual(q)
  <2>1. names[p] \in Sequences1
    BY <1>2, <1>6 DEF NamesInv, OwnNames, ListingInv, NameInv
  <2>2. Len(names[p]) <= MaxDepth
    BY <1>4, <2>1, PathsAre
  <2> QED
    BY <1>3, <2>2
<1> QED
  BY <1>5, <1>6

\* A worktree that appears between listings.
LEMMA AddPathKeeps ==
    ASSUME NamesInv, AddPath
    PROVE  NamesInv'
<1>1. PICK p \in Sequences1 \ DOMAIN paths, name \in Sequences1 \cup {<<>>} :
         /\ \A q \in DOMAIN paths : name # <<>> => paths[q] # name
         /\ paths' = [q \in DOMAIN paths \cup {p} |-> IF q = p THEN name ELSE paths[q]]
  BY DEF AddPath
<1>2. ~listing' /\ rounds' = rounds
  BY DEF AddPath
<1>3. OwnNames'
  BY <1>1 DEF NamesInv, OwnNames, Manual
<1> QED
  BY <1>2, <1>3 DEF NamesInv, ListingInv

\* A listing starts.
LEMMA StartListingKeeps ==
    ASSUME NamesInv, StartListing
    PROVE  NamesInv'
<1>1. paths' = paths /\ rounds' = 0
  BY DEF StartListing
<1>2. OwnNames'
  BY <1>1 DEF NamesInv, OwnNames, Manual
<1>3. ASSUME NEW p \in DOMAIN paths PROVE NameInv(p)'
  <2>1. CASE Manual(p)
    <3>1. names'[p] = <<Base(p)>> /\ parents'[p] = Dir(p) /\ p \in Sequences1
      BY <2>1 DEF StartListing, NamesInv, OwnNames
    <3>2. Len(<<Base(p)>>) = 1
      OBVIOUS
    <3> QED
      BY <1>1, <2>1, <3>1, <3>2, BaseIsEnd DEF NameInv, Manual
  <2>2. CASE ~Manual(p)
    BY <1>1, <2>2 DEF StartListing, NameInv, Manual
  <2> QED
    BY <2>1, <2>2
<1> QED
  BY <1>1, <1>2, <1>3, NamesAssumption DEF NamesInv, ListingInv

\* One round of a listing.
LEMMA GrowKeeps ==
    ASSUME NamesInv, Grow
    PROVE  NamesInv'
<1>1. paths' = paths /\ rounds' = rounds + 1 /\ listing /\ listing' = listing
  BY DEF Grow
<1>2. OwnNames'
  BY <1>1 DEF NamesInv, OwnNames, Manual
<1>3. rounds \in Nat /\ MaxDepth \in Nat /\ \A p \in DOMAIN paths : NameInv(p)
  BY <1>1, NamesAssumption DEF NamesInv, ListingInv
<1>4. rounds + 1 <= MaxDepth
  <2>1. PICK p : p \in Conflicting
    BY DEF Grow
  <2> QED
    BY <1>1, <2>1, ConflictsAreShort
<1>5. ASSUME NEW p \in DOMAIN paths
      PROVE  /\ p \in Conflicting => /\ names'[p] = Longer(names[p], parents[p])
                                     /\ parents'[p] = Shorter(parents[p])
             /\ p \notin Conflicting => names'[p] = names[p] /\ parents'[p] = parents[p]
  BY DEF Grow, Longer, Shorter, Element
<1>6. ASSUME NEW p \in Conflicting
      PROVE  /\ EndOf(p, names'[p], parents'[p]) /\ Len(names'[p]) = rounds + 2
             /\ Manual(p) /\ p \in DOMAIN paths
  <2>1. p \in DOMAIN paths /\ Manual(p) /\ p \in Sequences1
    BY DEF Conflicting, NamesInv, OwnNames
  <2>2. EndOf(p, names[p], parents[p]) /\ Len(names[p]) = rounds + 1
    BY <1>1, <1>3, <2>1, ConflictsAreShort DEF NameInv
  <2>3. /\ EndOf(p, Longer(names[p], parents[p]), Shorter(parents[p]))
        /\ Len(Longer(names[p], parents[p])) = rounds + 2
    BY <1>3, <2>1, <2>2, LongerIsEnd
  <2> QED
    BY <1>5, <2>1, <2>3
<1>7. ASSUME NEW p \in DOMAIN paths PROVE NameInv(p)'
  <2>1. CASE p \in Conflicting
    BY <1>1, <1>3, <1>6, <2>1 DEF NameInv, Manual
  <2>2. CASE p \notin Conflicting /\ Manual(p)
    <3>1. names'[p] = names[p] /\ parents'[p] = parents[p] /\ EndOf(p, names[p], parents[p])
      BY <1>3, <1>5, <2>2 DEF NameInv
    <3>2. Len(names[p]) \in Nat /\ Len(names[p]) <= rounds + 1
      BY <1>3, <2>2, <3>1 DEF NameInv, EndOf
    <3>3. ASSUME NEW q \in DOMAIN paths \ {p} PROVE names'[q] # names'[p]
      <4>1. CASE q \in Conflicting
        BY <1>3, <1>6, <3>1, <3>2, <4>1
      <4>2. CASE q \notin Conflicting
        BY <1>5, <2>2, <3>1, <4>2 DEF Conflicting
      <4> QED
        BY <4>1, <4>2
    <3> QED
      BY <1>1, <2>2, <3>1, <3>2, <3>3 DEF NameInv, Manual
  <2>3. CASE ~Manual(p)
    <3>1. p \notin Conflicting
      BY <2>3 DEF Conflicting
    <3> QED
      BY <1>1, <1>3, <1>5, <2>3, <3>1 DEF NameInv, Manual
  <2> QED
    BY <2>1, <2>2, <2>3
<1> QED
  BY <1>1, <1>2, <1>3, <1>4, <1>7 DEF NamesInv, ListingInv

\* The invariant holds again after each step.
LEMMA NamesInductive == NamesInv /\ [NamesNext]_nameVars => NamesInv'
<1> SUFFICES ASSUME NamesInv, [NamesNext]_nameVars PROVE NamesInv'
  OBVIOUS
<1>1. CASE EndListing
  <2>1. paths' = paths /\ ~listing' /\ rounds' = 0
    BY <1>1 DEF EndListing
  <2> QED
    BY <2>1, NamesAssumption DEF NamesInv, OwnNames, ListingInv, Manual
<1>2. CASE UNCHANGED nameVars
  BY <1>2 DEF nameVars, NamesInv, OwnNames, ListingInv, Manual, NameInv
<1> QED
  BY <1>1, <1>2, AddPathKeeps, StartListingKeeps, GrowKeeps DEF NamesNext

\* Every listing ends, after at most as many rounds as the longest path has elements, and
\* no two worktrees have the same name.
THEOREM NamesAreDistinct == NamesSpec => []ListingsEndWithDistinctNames
<1>1. NamesInit => NamesInv
  BY NamesAssumption DEF NamesInit, NamesInv, OwnNames, ListingInv
<1>2. NamesInv => ListingsEndWithDistinctNames
  <2> SUFFICES ASSUME NamesInv, listing, Conflicting = {},
                      NEW p \in DOMAIN paths, NEW q \in DOMAIN paths, p # q
               PROVE  names[p] # names[q]
    BY DEF NamesInv, ListingInv, ListingsEndWithDistinctNames
  <2>1. CASE Manual(p) \/ Manual(q)
    BY <2>1 DEF Conflicting
  <2>2. CASE ~Manual(p) /\ ~Manual(q)
    BY <2>2 DEF NamesInv, OwnNames, ListingInv, NameInv
  <2> QED
    BY <2>1, <2>2
<1> QED
  BY <1>1, <1>2, NamesInductive, PTL DEF NamesSpec
----------------------------------------------------------------------------
(* The patch cache *)

\* What a command does.
Hash == [step : {"idle", "open", "write"}, setting : Settings, stack : Stacks \cup {""},
         value : Settings, temp : Nat, moved : BOOLEAN]

Timed == setting \in Settings /\ now \in Nat /\ hasher \in [Hashers -> Hash]

\* A command that has not met a change of the settings read the ones that hold, and
\* the diff that it is about to publish was made with them.
Unmoved(c) ==
    hasher[c].step # "idle" /\ ~hasher[c].moved =>
        /\ hasher[c].setting = setting
        /\ hasher[c].step = "write" => hasher[c].value = hasher[c].setting

CacheInv == Timed /\ (\A c \in Hashers : Unmoved(c)) /\ EntriesAreTrue
-----------------------------------------------------------------------------
LEMMA SomeSetting == (CHOOSE s \in Settings : TRUE) \in Settings
  BY CacheAssumption

LEMMA NoHashIdle == NoHash \in Hash /\ NoHash.step = "idle" /\ NoHash.temp = 0
  BY SomeSetting DEF NoHash, Hash

\* What one command does leaves the settings alone, so it can disturb only what is
\* said of itself, and of the entries.
LEMMA HashersKeepInv ==
    ASSUME CacheInv, NEW c \in Hashers,
           OpenCache(c) \/ Miss(c) \/ PublishFails(c) \/ CloseCache(c) \/ CollectTemp(c)
    PROVE  CacheInv'
<1>1. PICK h \in Hash :
        /\ hasher' = [hasher EXCEPT ![c] = h]
        /\ h.step # "idle" /\ ~h.moved =>
             h.setting = setting /\ (h.step = "write" => h.value = h.setting)
  <2> USE NoHashIdle DEF CacheInv, Timed
  <2>1. CASE OpenCache(c)
    <3> DEFINE h == [NoHash EXCEPT !.step = "open", !.setting = setting]
    <3>1. h \in Hash /\ h.setting = setting /\ h.step = "open"
      BY DEF Hash
    <3> QED
      BY <2>1, <3>1 DEF OpenCache
  <2>2. CASE Miss(c)
    <3>1. PICK s \in Stacks :
            hasher' = [hasher EXCEPT ![c] = [@ EXCEPT !.stack = s, !.value = setting,
                                                      !.temp = now, !.step = "write"]]
      BY <2>2 DEF Miss
    <3> DEFINE h == [hasher[c] EXCEPT !.stack = s, !.value = setting, !.temp = now,
                                      !.step = "write"]
    <3>2. h \in Hash
      BY DEF Hash
    <3>3. h.value = setting /\ h.setting = hasher[c].setting /\ h.moved = hasher[c].moved
      BY DEF Hash
    <3>4. ~h.moved => h.setting = setting
      BY <2>2, <3>3 DEF Miss, Unmoved
    <3> QED
      BY <3>1, <3>2, <3>3, <3>4
  <2>3. CASE PublishFails(c) \/ CloseCache(c)
    BY <2>3 DEF PublishFails, CloseCache, Unpublished
  <2>4. CASE CollectTemp(c)
    <3> DEFINE h == [hasher[c] EXCEPT !.temp = 0]
    <3>1. /\ h \in Hash /\ h.step = hasher[c].step /\ h.setting = hasher[c].setting
          /\ h.value = hasher[c].value /\ h.moved = hasher[c].moved
      BY DEF Hash
    <3> QED
      BY <2>4, <3>1 DEF CollectTemp, Unmoved
  <2> QED
    BY <2>1, <2>2, <2>3, <2>4
<1>2. setting' = setting /\ now' = now
  BY DEF OpenCache, Miss, PublishFails, CloseCache, CollectTemp
<1>3. entries' = entries
  BY DEF OpenCache, Miss, PublishFails, CloseCache, CollectTemp
<1>4. Timed' /\ \A d \in Hashers : Unmoved(d)'
  BY <1>1, <1>2 DEF CacheInv, Timed, Unmoved
<1> QED
  BY <1>3, <1>4 DEF CacheInv, EntriesAreTrue

LEMMA PublishKeepsInv ==
    ASSUME CacheInv, NEW c \in Hashers, Publish(c)
    PROVE  CacheInv'
<1> USE SomeSetting DEF CacheInv, Timed, Hash
<1>1. Timed'
  BY DEF Publish, NoHash
<1>2. ASSUME NEW d \in Hashers PROVE Unmoved(d)'
  BY DEF Publish, NoHash, Unmoved
<1>3. hasher[c].moved \/ hasher[c].value = KeyOf(c).setting
  BY DEF Publish, Unmoved, KeyOf
<1>4. EntriesAreTrue'
  <2> SUFFICES ASSUME NEW k \in DOMAIN entries'
               PROVE  entries'[k].moved \/ entries'[k].value = k.setting
    BY DEF EntriesAreTrue
  <2>1. CASE k = KeyOf(c)
    BY <1>3, <2>1 DEF Publish
  <2>2. CASE k # KeyOf(c)
    BY <2>2 DEF Publish, EntriesAreTrue
  <2> QED
    BY <2>1, <2>2
<1> QED
  BY <1>1, <1>2, <1>4

\* Maintenance only takes entries away.
LEMMA PrunerKeepsInv ==
    ASSUME CacheInv,
           StartMaintenance \/ Collect \/ Evict \/ EndMaintenance \/ CancelMaintenance
    PROVE  CacheInv'
<1>1. /\ UNCHANGED <<setting, now, hasher>>
      /\ DOMAIN entries' \subseteq DOMAIN entries
      /\ \A k \in DOMAIN entries' : entries'[k] = entries[k]
  BY DEF StartMaintenance, Collect, Evict, EndMaintenance, CancelMaintenance, Evicted
<1> QED
  BY <1>1 DEF CacheInv, Timed, Unmoved, EntriesAreTrue

LEMMA ConfigureKeepsInv ==
    ASSUME CacheInv, Configure \/ Pass \/ UNCHANGED cacheVars
    PROVE  CacheInv'
<1>1. CASE Configure
  <2> DEFINE moved(c) == [hasher[c] EXCEPT !.moved = hasher[c].step # "idle"]
  <2>1. /\ hasher' = [c \in Hashers |-> moved(c)]
        /\ setting' \in Settings /\ UNCHANGED <<now, entries>>
    BY <1>1 DEF Configure
  <2>2. ASSUME NEW c \in Hashers
        PROVE  /\ moved(c) \in Hash /\ moved(c).step = hasher[c].step
               /\ moved(c).step # "idle" => moved(c).moved
    <3>1. (hasher[c].step # "idle") \in BOOLEAN /\ hasher[c] \in Hash
      BY DEF CacheInv, Timed
    <3> QED
      BY <3>1 DEF Hash
  <2> HIDE DEF moved
  <2> QED
    BY <2>1, <2>2 DEF CacheInv, Timed, Unmoved, EntriesAreTrue
<1>2. CASE Pass \/ UNCHANGED cacheVars
  <2>1. now' \in Nat /\ UNCHANGED <<setting, entries, hasher>>
    BY <1>2 DEF CacheInv, Timed, Pass, cacheVars
  <2> QED
    BY <2>1 DEF CacheInv, Timed, Unmoved, EntriesAreTrue
<1> QED
  BY <1>1, <1>2

\* An entry of the cache is true: it says what Git says with the settings of its key,
\* unless the settings changed while its writer ran.
THEOREM TrueEntries == CacheSpec => []EntriesAreTrue
<1>1. CacheInit => CacheInv
  BY SomeSetting, NoHashIdle DEF CacheInit, CacheInv, Timed, Unmoved, EntriesAreTrue
<1>2. CacheInv /\ [CacheNext]_cacheVars => CacheInv'
  BY HashersKeepInv, PublishKeepsInv, PrunerKeepsInv, ConfigureKeepsInv DEF CacheNext
<1>3. CacheInv => EntriesAreTrue
  BY DEF CacheInv
<1> QED
  BY <1>1, <1>2, <1>3, PTL DEF CacheSpec
-----------------------------------------------------------------------------
\* What the scan has met, and nobody has replaced, it keeps with its true age, unless
\* that age has taken it away.
KeptEntry(k) == [key |-> k, stamp |-> entries[k].stamp]

ScanInv ==
    /\ DOMAIN pruner = DOMAIN NoMaintenance
    /\ IsFiniteSet(pruner.kept)
    /\ pruner.step = "scan" =>
         \A k \in DOMAIN entries \ pruner.late :
             k \in pruner.left \/ (KeptEntry(k) \in pruner.kept /\ ~Expired(entries[k].stamp))

LEMMA ScanStep == ScanInv /\ [CacheNext]_cacheVars => ScanInv'
<1> SUFFICES ASSUME ScanInv, [CacheNext]_cacheVars PROVE ScanInv'
  OBVIOUS
<1>0. /\ DOMAIN NoMaintenance = {"step", "began", "left", "kept", "late"}
      /\ NoMaintenance.step = "idle" /\ NoMaintenance.kept = {}
  BY DEF NoMaintenance
<1>1. CASE UNCHANGED <<entries, pruner>>
  BY <1>1 DEF ScanInv, KeptEntry, Expired
<1>2. CASE EndMaintenance \/ CancelMaintenance
  BY <1>0, <1>2, FS_EmptySet DEF EndMaintenance, CancelMaintenance, ScanInv
<1>3. CASE StartMaintenance
  <2> DEFINE q == [NoMaintenance EXCEPT !.step = "scan", !.began = now, !.left = DOMAIN entries]
  <2>1. pruner' = q /\ entries' = entries
    BY <1>3 DEF StartMaintenance
  <2>2. DOMAIN q = DOMAIN NoMaintenance /\ q.kept = {} /\ q.left = DOMAIN entries
    BY DEF NoMaintenance
  <2> HIDE DEF q
  <2> QED
    BY <2>1, <2>2, FS_EmptySet DEF ScanInv
<1>4. ASSUME NEW c \in Hashers, Publish(c) PROVE ScanInv'
  <2> DEFINE l == IF pruner.step = "idle" THEN {} ELSE pruner.late \cup {KeyOf(c)}
             q == [pruner EXCEPT !.late = l]
  <2>1. pruner' = q
    BY <1>0, <1>4 DEF Publish, ScanInv
  <2>2. /\ DOMAIN q = DOMAIN NoMaintenance /\ q.step = pruner.step /\ q.kept = pruner.kept
        /\ q.left = pruner.left /\ q.began = pruner.began /\ q.late = l
    BY <1>0 DEF ScanInv
  <2>3. pruner.step = "scan" => l = pruner.late \cup {KeyOf(c)}
    OBVIOUS
  <2>4. \A k \in DOMAIN entries' : k # KeyOf(c) => k \in DOMAIN entries /\ entries'[k] = entries[k]
    BY <1>4 DEF Publish
  <2> HIDE DEF l, q
  <2> QED
    BY <2>1, <2>2, <2>3, <2>4 DEF ScanInv, KeptEntry, Expired
<1>5. CASE Collect
  <2>1. PICK k \in pruner.left :
          LET old == k \in DOMAIN entries /\ Expired(entries[k].stamp)
          IN  /\ entries' = Evicted({k} \cap {x \in DOMAIN entries : old})
              /\ pruner' = [pruner EXCEPT !.left = @ \ {k},
                              !.kept = @ \cup {[key |-> k, stamp |-> entries[x].stamp] :
                                                 x \in {k} \cap DOMAIN entries'}]
    BY <1>5 DEF Collect
  <2> DEFINE more == {[key |-> k, stamp |-> entries[x].stamp] : x \in {k} \cap DOMAIN entries'}
             q == [pruner EXCEPT !.left = @ \ {k}, !.kept = @ \cup more]
  <2>2. pruner' = q
    BY <2>1
  <2>3. /\ DOMAIN q = DOMAIN NoMaintenance /\ q.step = pruner.step
        /\ q.left = pruner.left \ {k} /\ q.kept = pruner.kept \cup more
        /\ q.late = pruner.late /\ q.began = pruner.began
    BY <1>0 DEF ScanInv
  <2>4. /\ DOMAIN entries' \subseteq DOMAIN entries
        /\ \A x \in DOMAIN entries' : entries'[x] = entries[x]
        /\ k \in DOMAIN entries' => ~Expired(entries[k].stamp) /\ more = {KeptEntry(k)}
        /\ k \notin DOMAIN entries' => more = {}
    BY <2>1 DEF Evicted, KeptEntry
  <2>5. IsFiniteSet(pruner.kept \cup more)
    BY <2>4, FS_AddElement DEF ScanInv
  <2> HIDE DEF q, more
  <2>6. ASSUME pruner.step = "scan", NEW x \in DOMAIN entries' \ pruner.late
        PROVE  x \in q.left \/ (KeptEntry(x) \in q.kept /\ ~Expired(entries[x].stamp))
    BY <2>3, <2>4, <2>6 DEF ScanInv
  <2> QED
    BY <2>2, <2>3, <2>4, <2>5, <2>6 DEF ScanInv, KeptEntry, Expired
<1>6. CASE Evict
  <2>1. PICK e \in pruner.kept : /\ entries' = Evicted({e.key})
                                 /\ pruner' = [pruner EXCEPT !.kept = @ \ {e}]
    BY <1>6 DEF Evict
  <2> DEFINE q == [pruner EXCEPT !.kept = @ \ {e}]
  <2>2. /\ DOMAIN q = DOMAIN NoMaintenance /\ q.step = pruner.step
        /\ q.left = pruner.left /\ q.kept = pruner.kept \ {e}
        /\ q.late = pruner.late /\ q.began = pruner.began
    BY <1>0 DEF ScanInv
  <2>3. /\ DOMAIN entries' = DOMAIN entries \ {e.key}
        /\ \A x \in DOMAIN entries' : entries'[x] = entries[x]
    BY <2>1 DEF Evicted
  <2>4. IsFiniteSet(pruner.kept \ {e})
    BY FS_RemoveElement DEF ScanInv
  <2>5. \A x \in DOMAIN entries' : KeptEntry(x) # e
    BY <2>3 DEF KeptEntry
  <2>6. pruner' = q
    BY <2>1
  <2> HIDE DEF q
  <2> QED
    BY <2>2, <2>3, <2>4, <2>5, <2>6 DEF ScanInv, KeptEntry, Expired
<1>7. ASSUME NEW c \in Hashers,
             OpenCache(c) \/ Miss(c) \/ PublishFails(c) \/ CloseCache(c) \/ CollectTemp(c)
      PROVE  UNCHANGED <<entries, pruner>>
  BY <1>7 DEF OpenCache, Miss, PublishFails, CloseCache, CollectTemp
<1>8. ASSUME Configure \/ Pass \/ UNCHANGED cacheVars PROVE UNCHANGED <<entries, pruner>>
  BY <1>8 DEF Configure, Pass, cacheVars
<1> QED
  BY <1>1, <1>2, <1>3, <1>4, <1>5, <1>6, <1>7, <1>8 DEF CacheNext

\* The ages that a scan compares are numbers.
StampsInv ==
    pruner.began \in Nat /\ \A k \in DOMAIN entries : entries[k].stamp \in Nat

LEMMA StampsStep ==
    ASSUME CacheInv, ScanInv, StampsInv, [CacheNext]_cacheVars
    PROVE  StampsInv'
<1>0. /\ DOMAIN NoMaintenance = {"step", "began", "left", "kept", "late"}
      /\ NoMaintenance.began = 0
  BY DEF NoMaintenance
<1>1. CASE StartMaintenance
  <2>1. /\ pruner' = [NoMaintenance EXCEPT !.step = "scan", !.began = now,
                                           !.left = DOMAIN entries]
        /\ entries' = entries
    BY <1>1 DEF StartMaintenance
  <2> QED
    BY <1>0, <2>1 DEF CacheInv, Timed, StampsInv
<1>2. CASE EndMaintenance \/ CancelMaintenance
  BY <1>0, <1>2 DEF EndMaintenance, CancelMaintenance, StampsInv
<1>3. ASSUME NEW c \in Hashers, Publish(c) PROVE StampsInv'
  <2>1. hasher[c].temp \in Nat
    BY DEF CacheInv, Timed, Hash
  <2>2. ASSUME NEW k \in DOMAIN entries' PROVE entries'[k].stamp \in Nat
    <3>1. CASE k = KeyOf(c)
      BY <1>3, <2>1, <3>1 DEF Publish
    <3>2. CASE k # KeyOf(c)
      BY <1>3, <3>2 DEF Publish, StampsInv
    <3> QED
      BY <3>1, <3>2
  <2>3. pruner'.began = pruner.began
    BY <1>0, <1>3 DEF Publish, ScanInv
  <2> QED
    BY <2>2, <2>3 DEF StampsInv
<1>4. CASE Collect \/ Evict
  <2>1. /\ DOMAIN entries' \subseteq DOMAIN entries
        /\ \A k \in DOMAIN entries' : entries'[k] = entries[k]
    BY <1>4 DEF Collect, Evict, Evicted
  <2>2. pruner'.began = pruner.began
    BY <1>0, <1>4 DEF Collect, Evict, ScanInv
  <2> QED
    BY <2>1, <2>2 DEF StampsInv
<1>5. ASSUME NEW c \in Hashers,
             OpenCache(c) \/ Miss(c) \/ PublishFails(c) \/ CloseCache(c) \/ CollectTemp(c)
      PROVE  UNCHANGED <<entries, pruner>>
  BY <1>5 DEF OpenCache, Miss, PublishFails, CloseCache, CollectTemp
<1>6. ASSUME Configure \/ Pass \/ UNCHANGED cacheVars PROVE UNCHANGED <<entries, pruner>>
  BY <1>6 DEF Configure, Pass, cacheVars
<1>7. CASE UNCHANGED <<entries, pruner>>
  BY <1>7 DEF StampsInv
<1> QED
  BY <1>1, <1>2, <1>3, <1>4, <1>5, <1>6, <1>7 DEF CacheNext

LEMMA EndLeavesTheLimit ==
    ASSUME CacheInv, ScanInv, StampsInv, EndMaintenance
    PROVE  LET rest == DOMAIN entries \ pruner.late
           IN  /\ Cardinality(rest) <= MaxEntries
               /\ \A k \in rest : pruner.began - entries[k].stamp <= MaxAge
<1> DEFINE rest == DOMAIN entries \ pruner.late
           f == [k \in rest |-> KeptEntry(k)]
<1>1. \A k \in rest : KeptEntry(k) \in pruner.kept /\ ~Expired(entries[k].stamp)
  BY DEF EndMaintenance, ScanInv
<1>2. f \in Injection(rest, pruner.kept)
  <2>1. f \in [rest -> pruner.kept]
    BY <1>1
  <2>2. \A j, k \in rest : f[j] = f[k] => j = k
    BY DEF KeptEntry
  <2> HIDE DEF f
  <2> QED
    BY <2>1, <2>2 DEF Injection, IsInjective
<1>3. IsFiniteSet(pruner.kept) /\ Cardinality(pruner.kept) <= MaxEntries
  BY DEF ScanInv, EndMaintenance, WithinLimits
<1>4. IsFiniteSet(rest) /\ Cardinality(rest) <= Cardinality(pruner.kept)
  <2> HIDE DEF f, rest
  <2> QED
    BY <1>2, <1>3, FS_Injection
<1>5. Cardinality(rest) <= MaxEntries
  <2> HIDE DEF rest
  <2> QED
    BY <1>3, <1>4, FS_CardinalityType, CacheAssumption
<1>6. ASSUME NEW k \in rest PROVE pruner.began - entries[k].stamp <= MaxAge
  BY <1>1, CacheAssumption DEF Expired, StampsInv
<1> QED
  BY <1>5, <1>6

\* What every reachable state of the cache satisfies.
LEMMA CacheInvariant == CacheSpec => [](CacheInv /\ ScanInv /\ StampsInv)
<1> DEFINE inv == CacheInv /\ ScanInv /\ StampsInv
<1>1. CacheInit => inv
  <2> SUFFICES ASSUME CacheInit PROVE inv
    OBVIOUS
  <2>1. CacheInv
    BY SomeSetting, NoHashIdle DEF CacheInit, CacheInv, Timed, Unmoved, EntriesAreTrue
  <2>2. ScanInv /\ StampsInv
    BY FS_EmptySet DEF CacheInit, NoMaintenance, ScanInv, StampsInv
  <2> QED
    BY <2>1, <2>2
<1>2. inv /\ [CacheNext]_cacheVars => inv'
  <2>1. CacheInv /\ [CacheNext]_cacheVars => CacheInv'
    BY HashersKeepInv, PublishKeepsInv, PrunerKeepsInv, ConfigureKeepsInv DEF CacheNext
  <2> QED
    BY <2>1, ScanStep, StampsStep
<1> HIDE DEF inv
<1>3. CacheSpec => []inv
  BY <1>1, <1>2, PTL DEF CacheSpec
<1> QED
  BY <1>3 DEF inv

\* A maintenance that runs to its end leaves, of what was there when it began, no more
\* than the limit, and nothing that had expired.
THEOREM PruneEndsWithinLimits == CacheSpec => PruneLeavesTheLimit
<1> DEFINE leaves == EndMaintenance =>
             LET rest == DOMAIN entries \ pruner.late
             IN  /\ Cardinality(rest) <= MaxEntries
                 /\ \A k \in rest : pruner.began - entries[k].stamp <= MaxAge
<1>1. CacheInv /\ ScanInv /\ StampsInv => leaves
  BY EndLeavesTheLimit
<1> HIDE DEF leaves
<1>2. CacheSpec => [][leaves]_cacheVars
  BY <1>1, CacheInvariant, PTL DEF CacheSpec
<1> QED
  BY <1>2 DEF PruneLeavesTheLimit, leaves
============================================================================

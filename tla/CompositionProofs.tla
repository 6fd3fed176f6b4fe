-------------------------- MODULE CompositionProofs --------------------------
(***************************************************************************)
(* The components of MCComponents keep their types, each for all values of *)
(* its constants, and so does a behaviour in which one of them moves.      *)
(***************************************************************************)
EXTENDS MCComponents, RepositoryProofs, ComponentsProofs

(* The names of worktrees *)

\* The paths of a repository and their names are sequences of elements.
LEMMA NamesTyped == NamesSpec => []NamesTypeOK
<1>1. NamesInit => NamesTypeOK
  BY DEF NamesInit, NamesTypeOK
<1>2. NamesTypeOK /\ [NamesNext]_nameVars => NamesTypeOK'
  <2> SUFFICES ASSUME NamesTypeOK, [NamesNext]_nameVars PROVE NamesTypeOK'
    OBVIOUS
  <2>1. CASE AddPath
    <3>1. PICK p \in Sequences1 \ DOMAIN paths, name \in Sequences1 \cup {<<>>} :
             paths' = [q \in DOMAIN paths \cup {p} |-> IF q = p THEN name ELSE paths[q]]
      BY <2>1 DEF AddPath
    <3>2. UNCHANGED <<names, listing>>
      BY <2>1 DEF AddPath
    <3> QED
      BY <3>1, <3>2 DEF NamesTypeOK
  <2>2. CASE StartListing
    BY <2>2 DEF StartListing, NamesTypeOK
  <2>3. CASE Grow
    BY <2>3 DEF Grow, NamesTypeOK
  <2>4. CASE EndListing
    BY <2>4 DEF EndListing, NamesTypeOK
  <2>5. CASE UNCHANGED nameVars
    BY <2>5 DEF nameVars, NamesTypeOK
  <2> QED
    BY <2>1, <2>2, <2>3, <2>4, <2>5 DEF NamesNext
<1> QED
  BY <1>1, <1>2, PTL DEF NamesSpec

(* The setup choices *)

\* What the cache of the identity and the clock say.
ClockInv == time \in 1 .. MaxTime /\ identity.fetched <= time

\* The settings, the identity and what each process has read keep their types.
LEMMA SetupTypes == SetupSpec => []SetupTypeOK
<1>1. SetupInit => ClockInv
  BY SetupAssumption DEF SetupInit, ClockInv
<1>2. SetupInv /\ ClockInv /\ [SetupNext]_setupVars => ClockInv'
  <2> SUFFICES ASSUME SetupInv, ClockInv, [SetupNext]_setupVars PROVE ClockInv'
    OBVIOUS
  <2>0. time \in Nat /\ MaxTime \in Nat /\ identity.fetched \in Nat
    BY SetupAssumption DEF SetupInv, SetupTyped, Identities
  <2>1. CASE \E p \in Setups : FetchIdentity(p)
    <3>1. identity'.fetched = time /\ time' = time
      BY <2>1 DEF FetchIdentity
    <3> QED
      BY <2>0, <3>1 DEF ClockInv
  <2>2. CASE RemoveIdentity
    <3>1. identity'.fetched = 0 /\ time' = time
      BY <2>2 DEF RemoveIdentity
    <3> QED
      BY <2>0, <3>1 DEF ClockInv
  <2>3. CASE Elapse
    BY <2>0, <2>3 DEF Elapse, ClockInv
  <2>4. CASE UNCHANGED <<time, identity>>
    BY <2>4 DEF ClockInv
  <2> QED
    BY <2>1, <2>2, <2>3, <2>4 DEF SetupNext, setupVars, OnlySetup, StartSetup, CreateFile, Encode,
       ReadSettings, SaveFlag, Ineligible, Eligible, OwnedCached, FetchIdentityFails, Answer, Run,
       KillSetup, SwitchAccount
<1>3. SetupInv /\ ClockInv => SetupTypeOK
  <2> SUFFICES ASSUME SetupInv, ClockInv PROVE SetupTypeOK
    OBVIOUS
  <2>1. SetupTyped /\ MaxTime \in Nat /\ \A o \in Owners : leftAt[o] <= time
    BY SetupAssumption DEF SetupInv, IdentityInv
  <2>a. settings \in [there : BOOLEAN, choice : [Features -> Answers]]
    BY <2>1 DEF SetupTyped, SettingsFile
  <2>2. /\ identity \in [login : Owners \cup {""}, fetched : Nat]
        /\ account \in Owners /\ leftAt \in [Owners -> Nat] /\ setup \in [Setups -> Job]
    BY <2>1 DEF SetupTyped, Identities
  <2>b. time \in 1 .. MaxTime /\ identity.fetched <= time
    BY DEF ClockInv
  <2>c. identity.fetched \in Nat /\ \A o \in Owners : leftAt[o] \in Nat
    BY <2>2
  <2>3. identity.fetched \in 0 .. MaxTime /\ \A o \in Owners : leftAt[o] \in 0 .. MaxTime
    BY <2>1, <2>b, <2>c
  <2>4. identity \in [login : Owners \cup {""}, fetched : 0 .. MaxTime] /\ leftAt \in [Owners -> 0 .. MaxTime]
    BY <2>2, <2>3
  <2>5. \A p \in Setups : setup[p].read \in [Features -> Answers] /\ setup[p].late \subseteq Features
    BY <2>2 DEF Job
  <2> QED
    BY <2>a, <2>2, <2>4, <2>5 DEF SetupTypeOK, ClockInv
<1> QED
  BY <1>1, <1>2, <1>3, SetupInvariant, PTL DEF SetupSpec

(* The patch cache *)

\* An entry is as old as the temporary file that became it.
EntriesAge ==
    /\ DOMAIN entries \subseteq Keys
    /\ \A k \in DOMAIN entries : entries[k] \in [value : Settings, stamp : 1 .. now, moved : BOOLEAN]

HashersAge ==
    \A c \in Hashers : /\ hasher[c].temp \in 0 .. now
                       /\ hasher[c].step = "write" => hasher[c].stack \in Stacks

AgesInv == now \in 1 .. MaxNow /\ EntriesAge /\ HashersAge

\* What the scan knows of entries, with the times that it read.
MetInv ==
    /\ pruner.left \subseteq Keys
    /\ \A e \in pruner.kept : e.key \in Keys /\ e.stamp \in Nat /\ e.stamp <= now

\* A command does what the settings and the clock say.
LEMMA HasherAges ==
    ASSUME CacheInv, AgesInv, NEW c \in Hashers,
           OpenCache(c) \/ Miss(c) \/ Publish(c) \/ PublishFails(c) \/ CloseCache(c) \/ CollectTemp(c)
    PROVE  HashersAge'
<1>0. /\ hasher \in [Hashers -> Hash] /\ now \in Nat /\ 0 \in 0 .. now /\ now \in 0 .. now
      /\ \A d \in Hashers : /\ hasher[d].temp \in 0 .. now
                            /\ hasher[d].step = "write" => hasher[d].stack \in Stacks
  BY DEF CacheInv, Timed, AgesInv, HashersAge
<1>1. now' = now /\ \A d \in Hashers \ {c} : hasher'[d] = hasher[d]
  BY <1>0 DEF OpenCache, Miss, Publish, PublishFails, CloseCache, CollectTemp, Unpublished
<1>2. CASE OpenCache(c) \/ PublishFails(c) \/ CloseCache(c)
  <2>1. hasher'[c].temp = 0 /\ hasher'[c].step # "write"
    BY <1>0, <1>2, NoHashIdle DEF OpenCache, PublishFails, CloseCache, Unpublished, NoHash
  <2> QED
    BY <1>0, <1>1, <2>1 DEF HashersAge
<1>3. CASE Miss(c)
  <2>1. PICK s \in Stacks :
          hasher' = [hasher EXCEPT ![c] = [@ EXCEPT !.stack = s, !.value = setting, !.temp = now,
                                                    !.step = "write"]]
    BY <1>3 DEF Miss
  <2>2. hasher'[c].temp = now /\ hasher'[c].stack = s
    BY <1>0, <2>1 DEF Hash
  <2> QED
    BY <1>0, <1>1, <2>2 DEF HashersAge
<1>4. CASE Publish(c)
  <2>1. hasher'[c].temp = 0 /\ hasher'[c].step = "open"
    BY <1>0, <1>4 DEF Publish, Hash
  <2> QED
    BY <1>0, <1>1, <2>1 DEF HashersAge
<1>5. CASE CollectTemp(c)
  <2>1. hasher'[c].temp = 0 /\ hasher'[c].step = hasher[c].step /\ hasher'[c].stack = hasher[c].stack
    BY <1>0, <1>5 DEF CollectTemp, Hash
  <2> QED
    BY <1>0, <1>1, <2>1 DEF HashersAge
<1> QED
  BY <1>2, <1>3, <1>4, <1>5

\* What a command publishes has the age of its temporary file.
LEMMA PublishAges ==
    ASSUME CacheInv, AgesInv, NEW c \in Hashers, Publish(c)
    PROVE  EntriesAge'
<1>1. hasher[c] \in Hash /\ now \in Nat /\ hasher[c].temp \in 0 .. now /\ hasher[c].stack \in Stacks
  BY DEF CacheInv, Timed, AgesInv, HashersAge, Publish
<1>2. /\ hasher[c].temp \in 1 .. now /\ hasher[c].value \in Settings
      /\ hasher[c].moved \in BOOLEAN /\ hasher[c].setting \in Settings
  <2>1. /\ hasher[c].temp \in Nat /\ hasher[c].value \in Settings
        /\ hasher[c].moved \in BOOLEAN /\ hasher[c].setting \in Settings
    BY <1>1 DEF Hash
  <2>2. hasher[c].temp # 0
    BY DEF Publish
  <2> QED
    BY <1>1, <2>1, <2>2
<1>3. KeyOf(c) \in Keys
  BY <1>1, <1>2 DEF KeyOf, Keys
<1> DEFINE e == [value |-> hasher[c].value, stamp |-> hasher[c].temp, moved |-> hasher[c].moved]
<1>4. entries' = [k \in DOMAIN entries \cup {KeyOf(c)} |-> IF k = KeyOf(c) THEN e ELSE entries[k]]
  BY DEF Publish
<1>5. e \in [value : Settings, stamp : 1 .. now, moved : BOOLEAN]
  BY <1>2
<1> HIDE DEF e
<1>6. ASSUME NEW k \in DOMAIN entries' PROVE entries'[k] = e \/ (k \in DOMAIN entries /\ entries'[k] = entries[k])
  BY <1>4
<1>7. now' = now
  BY DEF Publish
<1> QED
  BY <1>3, <1>4, <1>5, <1>6, <1>7 DEF AgesInv, EntriesAge

\* The steps of a maintenance take entries away, and leave the rest as it is.
LEMMA PrunerAges ==
    ASSUME CacheInv, ScanInv, AgesInv, MetInv,
           StartMaintenance \/ Collect \/ Evict \/ EndMaintenance \/ CancelMaintenance
    PROVE  AgesInv' /\ MetInv'
<1>0. UNCHANGED <<now, hasher>> /\ DOMAIN NoMaintenance = {"step", "began", "left", "kept", "late"}
  BY DEF StartMaintenance, Collect, Evict, EndMaintenance, CancelMaintenance, NoMaintenance
<1>1. /\ DOMAIN entries' \subseteq DOMAIN entries
      /\ \A k \in DOMAIN entries' : entries'[k] = entries[k]
  BY DEF StartMaintenance, Collect, Evict, EndMaintenance, CancelMaintenance, Evicted
<1>2. AgesInv'
  BY <1>0, <1>1 DEF AgesInv, EntriesAge, HashersAge
<1>3. CASE StartMaintenance \/ EndMaintenance \/ CancelMaintenance
  <2>1. pruner'.left \subseteq DOMAIN entries /\ pruner'.kept = {}
    <3>1. CASE StartMaintenance
      <4>1. pruner' = [NoMaintenance EXCEPT !.step = "scan", !.began = now, !.left = DOMAIN entries]
        BY <3>1 DEF StartMaintenance
      <4> QED
        BY <4>1 DEF NoMaintenance
    <3>2. CASE EndMaintenance \/ CancelMaintenance
      BY <3>2 DEF EndMaintenance, CancelMaintenance, NoMaintenance
    <3> QED
      BY <1>3, <3>1, <3>2
  <2> QED
    BY <1>2, <2>1 DEF MetInv, AgesInv, EntriesAge
<1>4. CASE Collect
  <2>1. PICK k \in pruner.left :
          pruner' = [pruner EXCEPT !.left = @ \ {k},
                        !.kept = @ \cup {[key |-> k, stamp |-> entries[x].stamp] :
                                           x \in {k} \cap DOMAIN entries'}]
    BY <1>4 DEF Collect
  <2>2. pruner'.left = pruner.left \ {k}
    BY <1>0, <2>1 DEF ScanInv
  <2>3. pruner'.kept = pruner.kept \cup {[key |-> k, stamp |-> entries[x].stamp] :
                                           x \in {k} \cap DOMAIN entries'}
    BY <1>0, <2>1 DEF ScanInv
  <2>4. ASSUME NEW e \in pruner'.kept
        PROVE  e.key \in Keys /\ e.stamp \in Nat /\ e.stamp <= now
    <3>1. CASE e \in pruner.kept
      BY <3>1 DEF MetInv
    <3>2. CASE e \notin pruner.kept
      <4>1. k \in DOMAIN entries /\ e = [key |-> k, stamp |-> entries[k].stamp]
        BY <1>1, <2>3, <3>2
      <4>2. entries[k].stamp \in 1 .. now /\ k \in Keys /\ now \in Nat
        BY <4>1 DEF AgesInv, EntriesAge, CacheInv, Timed
      <4> QED
        BY <4>1, <4>2
    <3> QED
      BY <3>1, <3>2
  <2> QED
    BY <1>0, <1>2, <2>2, <2>4 DEF MetInv
<1>5. CASE Evict
  <2>1. pruner'.left = pruner.left /\ pruner'.kept \subseteq pruner.kept
    BY <1>0, <1>5 DEF Evict, ScanInv
  <2> QED
    BY <1>0, <1>2, <2>1 DEF MetInv
<1> QED
  BY <1>2, <1>3, <1>4, <1>5

\* The settings change, or time passes.
LEMMA AroundAges ==
    ASSUME CacheInv, AgesInv, MetInv, Configure \/ Pass
    PROVE  AgesInv' /\ MetInv'
<1>0. /\ now \in Nat /\ hasher \in [Hashers -> Hash] /\ MaxNow \in Nat
      /\ UNCHANGED <<entries, pruner>>
  BY CacheAssumption DEF CacheInv, Timed, Configure, Pass
<1>1. /\ now' \in 1 .. MaxNow /\ now' \in Nat /\ now <= now'
  BY <1>0 DEF Configure, Pass, AgesInv
<1>2. \A c \in Hashers : /\ hasher'[c].temp = hasher[c].temp /\ hasher[c].temp \in Nat
                         /\ hasher'[c].step = hasher[c].step /\ hasher'[c].stack = hasher[c].stack
  <2>1. CASE Configure
    <3>1. hasher' = [c \in Hashers |-> [hasher[c] EXCEPT !.moved = hasher[c].step # "idle"]]
      BY <2>1 DEF Configure
    <3> QED
      BY <1>0, <3>1 DEF Hash
  <2>2. CASE Pass
    <3>1. hasher' = hasher
      BY <2>2 DEF Pass
    <3> QED
      BY <1>0, <3>1 DEF Hash
  <2> QED
    BY <2>1, <2>2
<1>3. (\A n \in Nat : n <= now => n <= now') /\ \A n \in 0 .. now : n \in 0 .. now'
  BY <1>0, <1>1
<1>4. \A e \in [value : Settings, stamp : 1 .. now, moved : BOOLEAN] :
        e \in [value : Settings, stamp : 1 .. now', moved : BOOLEAN]
  <2>1. \A n \in 1 .. now : n \in 1 .. now'
    BY <1>0, <1>1
  <2> QED
    BY <2>1
<1>5. AgesInv'
  <2>1. EntriesAge'
    BY <1>0, <1>4 DEF AgesInv, EntriesAge
  <2>2. HashersAge'
    BY <1>2, <1>3 DEF AgesInv, HashersAge
  <2> QED
    BY <1>1, <2>1, <2>2 DEF AgesInv
<1>6. MetInv'
  BY <1>0, <1>3 DEF MetInv
<1> QED
  BY <1>5, <1>6

\* The entries of the cache, and what a maintenance keeps of them, keep their types.
LEMMA CacheTypes == CacheSpec => []CacheTypeOK
<1> DEFINE inv == CacheInv /\ ScanInv /\ StampsInv
<1>1. CacheInit => AgesInv /\ MetInv
  BY NoHashIdle, CacheAssumption DEF CacheInit, AgesInv, EntriesAge, HashersAge, MetInv, NoMaintenance
<1>2. inv /\ AgesInv /\ MetInv /\ [CacheNext]_cacheVars => (AgesInv /\ MetInv)'
  <2> SUFFICES ASSUME inv, AgesInv, MetInv, [CacheNext]_cacheVars PROVE AgesInv' /\ MetInv'
    OBVIOUS
  <2>1. ASSUME NEW c \in Hashers,
               OpenCache(c) \/ Miss(c) \/ Publish(c) \/ PublishFails(c) \/ CloseCache(c) \/ CollectTemp(c)
        PROVE  AgesInv' /\ MetInv'
    <3>1. HashersAge' /\ now' = now
      BY <2>1, HasherAges DEF OpenCache, Miss, Publish, PublishFails, CloseCache, CollectTemp
    <3>2. EntriesAge'
      <4>1. CASE Publish(c)
        BY <4>1, PublishAges
      <4>2. CASE ~Publish(c)
        <5>1. entries' = entries
          BY <2>1, <4>2 DEF OpenCache, Miss, PublishFails, CloseCache, CollectTemp
        <5> QED
          BY <3>1, <5>1 DEF AgesInv, EntriesAge
      <4> QED
        BY <4>1, <4>2
    <3>4. pruner'.left = pruner.left /\ pruner'.kept = pruner.kept
      <4>1. DOMAIN pruner = {"step", "began", "left", "kept", "late"}
        BY DEF ScanInv, NoMaintenance
      <4> QED
        BY <2>1, <4>1 DEF OpenCache, Miss, Publish, PublishFails, CloseCache, CollectTemp
    <3>5. AgesInv'
      BY <3>1, <3>2 DEF AgesInv
    <3>6. MetInv'
      BY <3>1, <3>4 DEF MetInv
    <3> QED
      BY <3>5, <3>6
  <2>2. CASE UNCHANGED cacheVars
    BY <2>2 DEF cacheVars, AgesInv, EntriesAge, HashersAge, MetInv
  <2> QED
    BY <2>1, <2>2, PrunerAges, AroundAges DEF CacheNext
<1>3. inv /\ AgesInv /\ MetInv => CacheTypeOK
  <2> SUFFICES ASSUME inv, AgesInv, MetInv PROVE CacheTypeOK
    OBVIOUS
  <2>1. now \in 1 .. MaxNow /\ setting \in Settings /\ MaxNow \in Nat
    BY CacheAssumption DEF AgesInv, CacheInv, Timed
  <2>2. 1 .. now \subseteq 1 .. MaxNow
    BY <2>1
  <2>3. \A k \in DOMAIN entries : entries[k] \in Entry
    BY <2>2 DEF AgesInv, EntriesAge, Entry
  <2> QED
    BY <2>1, <2>3 DEF CacheTypeOK, AgesInv, EntriesAge, MetInv
<1> HIDE DEF inv
<1>4. CacheSpec => []inv
  BY CacheInvariant DEF inv
<1> QED
  BY <1>1, <1>2, <1>3, <1>4, PTL DEF CacheSpec

(* The import of a repository *)

\* Whatever the clone and the repository have was written.
SourcesWritten ==
    written \subseteq Texts
    /\ source \in [CloneTrees -> [place : {"here", "gone", "trash"},
                                  commits : SUBSET written, edits : SUBSET written]]

BareWritten == bare \in [there : BOOLEAN, hands : SUBSET Importers, texts : SUBSET written]

\* The user writes texts, and commits what was written.
LEMMA SourcesStayWritten ==
    ASSUME SourcesWritten, [ImportNext]_importVars
    PROVE  SourcesWritten' /\ written \subseteq written'
<1> DEFINE Trees(W) == [place : {"here", "gone", "trash"}, commits : SUBSET W, edits : SUBSET W]
<1>0. written \subseteq Texts /\ source \in [CloneTrees -> Trees(written)]
  BY DEF SourcesWritten
<1>1. ASSUME written' \subseteq Texts, written \subseteq written', NEW w \in CloneTrees,
             NEW new \in Trees(written'), source' = [source EXCEPT ![w] = new]
      PROVE  SourcesWritten' /\ written \subseteq written'
  <2>1. \A v \in CloneTrees : source[v] \in Trees(written')
    BY <1>0, <1>1
  <2>2. source' \in [CloneTrees -> Trees(written')]
    BY <1>0, <1>1, <2>1
  <2> QED
    BY <1>1, <2>2 DEF SourcesWritten
<1>2. ASSUME NEW w \in CloneTrees, EditSource(w)
      PROVE  SourcesWritten' /\ written \subseteq written'
  <2>1. PICK x \in Texts \ written :
          source' = [source EXCEPT ![w].edits = @ \cup {x}] /\ written' = written \cup {x}
    BY <1>2 DEF EditSource
  <2> DEFINE new == [source[w] EXCEPT !.edits = @ \cup {x}]
  <2>2. new \in Trees(written')
    BY <1>0, <2>1
  <2>3. source' = [source EXCEPT ![w] = new]
    BY <1>0, <2>1
  <2> HIDE DEF new
  <2> QED
    BY <1>0, <1>1, <2>1, <2>2, <2>3
<1>3. ASSUME NEW w \in CloneTrees, CommitSource(w) \/ DeleteSource(w)
      PROVE  SourcesWritten' /\ written \subseteq written'
  <2>1. written' = written
    BY <1>3 DEF CommitSource, DeleteSource
  <2>2. PICK new \in Trees(written) : source' = [source EXCEPT ![w] = new]
    <3>1. CASE CommitSource(w)
      <4> DEFINE new == [source[w] EXCEPT !.commits = @ \cup source[w].edits, !.edits = {}]
      <4>1. source' = [source EXCEPT ![w] = new] /\ new \in Trees(written)
        BY <1>0, <3>1 DEF CommitSource
      <4> HIDE DEF new
      <4> QED
        BY <4>1
    <3>2. CASE DeleteSource(w)
      <4> DEFINE new == [source[w] EXCEPT !.place = "gone"]
      <4>1. source' = [source EXCEPT ![w] = new] /\ new \in Trees(written)
        BY <1>0, <3>2 DEF DeleteSource
      <4> HIDE DEF new
      <4> QED
        BY <4>1
    <3> QED
      BY <1>3, <3>1, <3>2
  <2> QED
    BY <1>0, <1>1, <2>1, <2>2
<1>4. ASSUME NEW c \in Importers, TrashSources(c)
      PROVE  SourcesWritten' /\ written \subseteq written'
  <2>1. PICK S : source' = [w \in CloneTrees |-> IF w \in S THEN [source[w] EXCEPT !.place = "trash"]
                                         ELSE source[w]]
    BY <1>4 DEF TrashSources
  <2>2. written' = written
    BY <1>4 DEF TrashSources
  <2>3. source' \in [CloneTrees -> Trees(written)]
    BY <1>0, <2>1
  <2> QED
    BY <1>0, <2>2, <2>3 DEF SourcesWritten
<1>5. ASSUME UNCHANGED <<source, written>> PROVE SourcesWritten' /\ written \subseteq written'
  BY <1>0, <1>5 DEF SourcesWritten
<1> QED
  BY <1>2, <1>3, <1>4, <1>5
  DEF ImportNext, importVars, StartImport, CloneSource, CloneSourceFails, SetOrigin, SetOriginFails,
      Report, ReportFails, CreateTarget, CreateTargetFails, UndoTarget, UndoTargetFails, UndoClone,
      UndoCloneFails, StartAdd, CloneRemote, StartInit, InitBare, Prepare, PrepareFails, KillImport,
      Begins, GiveUp, Occupy

\* The repository gets what the clone has, or what it had, or nothing.
LEMMA BareStaysWritten ==
    ASSUME SourcesWritten, BareWritten, [ImportNext]_importVars
    PROVE  BareWritten'
<1>1. written \subseteq written'
  BY SourcesStayWritten
<1>2. ASSUME NEW c \in Importers, NEW texts \in SUBSET written, Touch(c, texts) PROVE BareWritten'
  <2>1. bare.hands \cup {c} \in SUBSET Importers /\ texts \in SUBSET written'
    BY <1>1 DEF BareWritten
  <2>2. bare' = [there |-> TRUE, hands |-> bare.hands \cup {c}, texts |-> texts]
    BY <1>2 DEF Touch
  <2> QED
    BY <2>1, <2>2 DEF BareWritten
<1>3. ASSUME bare' = NoBare PROVE BareWritten'
  BY <1>3 DEF BareWritten, NoBare
<1>4. ASSUME UNCHANGED bare PROVE BareWritten'
  BY <1>1, <1>4 DEF BareWritten
<1>5. Cloned \in SUBSET written /\ bare.texts \in SUBSET written /\ {} \in SUBSET written
  BY DEF Cloned, SourcesWritten, BareWritten
<1>6. ASSUME NEW c \in Importers,
             CloneSource(c) \/ SetOrigin(c) \/ CloneRemote(c) \/ InitBare(c) \/ Prepare(c)
      PROVE  BareWritten'
  <2>1. UNCHANGED bare \/ \E texts \in {Cloned, bare.texts, {}} : Touch(c, texts)
    BY <1>6 DEF CloneSource, SetOrigin, CloneRemote, InitBare, Prepare
  <2> QED
    BY <1>2, <1>4, <1>5, <2>1
<1>7. ASSUME NEW c \in Importers, SetOriginFails(c) \/ UndoClone(c) \/ PrepareFails(c)
      PROVE  BareWritten'
  <2>1. bare' = NoBare
    BY <1>7 DEF SetOriginFails, UndoClone, PrepareFails
  <2> QED
    BY <1>3, <2>1
<1> QED
  BY <1>4, <1>6, <1>7
  DEF ImportNext, importVars, StartImport, CloneSourceFails, Report, ReportFails, CreateTarget,
      CreateTargetFails, UndoTarget, UndoTargetFails, TrashSources, UndoCloneFails, StartAdd,
      StartInit, KillImport, Begins, GiveUp, EditSource, CommitSource, DeleteSource, Occupy

\* The clone, the directories and the repository keep their types.
LEMMA ImportTypes == ImportSpec => []ImportTypeOK
<1>1. ImportInit => SourcesWritten /\ BareWritten
  BY DEF ImportInit, SourcesWritten, BareWritten, NoBare
<1>2. SourcesWritten /\ BareWritten /\ [ImportNext]_importVars => (SourcesWritten /\ BareWritten)'
  BY SourcesStayWritten, BareStaysWritten
<1>3. ImportInv /\ SourcesWritten /\ BareWritten => ImportTypeOK
  BY DEF ImportInv, ImportTyped, SourcesWritten, BareWritten, ImportTypeOK
<1> QED
  BY <1>1, <1>2, <1>3, ImportStarts, ImportInductive, PTL DEF ImportSpec

(* The assessment by a model *)

\* The models file and the conversation keep their types.
LEMMA AutoTypes == AutoSpec => []AutoTypeOK
<1> DEFINE Cataloged == catalog \in [Providers -> ProviderEntry]
<1>1. AutoInit => Cataloged
  BY DEF AutoInit
<1>2. Cataloged /\ [AutoNext]_autoVars => Cataloged'
  <2>1. Empty \in [Providers -> ProviderEntry]
    BY DEF Empty, ProviderEntry
  <2> QED
    BY <2>1 DEF AutoNext, autoVars, Select, BeginTalk, ReviewTurn, ReadCall
<1>3. AutoInv /\ Cataloged => AutoTypeOK
  <2> SUFFICES ASSUME AutoInv, Cataloged PROVE AutoTypeOK
    OBVIOUS
  <2>1. talk \in Talk
    BY DEF AutoInv, TalkInv
  <2>2. /\ talk.step \in {"select", "input", "ask", "read", "done"}
        /\ talk.verdict \in Decisions \cup {"none", "error"}
        /\ {talk.budget, talk.request, talk.calls, talk.bytes} \subseteq Nat
        /\ talk.pending \in Seq(Calls)
    BY <2>1 DEF Talk
  <2>3. Calls \subseteq Items
    BY DEF Calls, Items
  <2>4. \A i \in DOMAIN talk.pending : talk.pending[i] \in Items
    BY <2>2, <2>3
  <2> QED
    BY <2>2, <2>4 DEF AutoTypeOK
<1> HIDE DEF Cataloged
<1> QED
  BY <1>1, <1>2, <1>3, AutoInvariant, PTL DEF AutoSpec

(* The review of files *)

\* A session is numbered when it is begun, and no two were written at once.
StoreInv ==
    /\ saves \in 0 .. MaxSaves /\ DOMAIN store \subseteq 1 .. saves
    /\ \A n \in DOMAIN store : store[n] \in Sessions
    /\ \A n, m \in DOMAIN store : store[n].time = store[m].time => n = m

\* A review has seen sessions that there are.
SeenInv ==
    /\ reviewing \in Reviewers \cup {NoReviewer}
    /\ \A r \in Reviewers : fileReview[r].mine \in 0 .. saves /\ fileReview[r].session \in 0 .. saves

\* tuicr writes the session of its review.
LEMMA SavedKeeps ==
    ASSUME FilesInv, StoreInv, SeenInv, NEW r \in Reviewers, TuicrSaves(r)
    PROVE  StoreInv' /\ SeenInv'
<1> DEFINE mine == fileReview[r].mine
           fresh == saves + 1
           scope == fileReview[r].scope
<1>1. PICK n \in IF mine # 0 THEN {mine} ELSE Matching(scope) \cup {fresh},
           marks \in {"none", "some", "all"}, said \in BOOLEAN :
        /\ store' = [m \in DOMAIN store \cup {n} |->
                       IF m = n THEN [scope |-> scope, marks |-> marks, said |-> said,
                                      time |-> fresh]
                       ELSE store[m]]
        /\ fileReview' = [fileReview EXCEPT ![r].mine = n]
  BY DEF TuicrSaves
<1>2. /\ saves < MaxSaves /\ saves' = fresh /\ UNCHANGED reviewing
      /\ saves \in Nat /\ MaxSaves \in Nat /\ mine \in 0 .. saves
      /\ scope \in Scopes
  BY FileReviewAssumption DEF TuicrSaves, FilesInv, Counted, Remembers, SeenInv
<1>3. n \in 1 .. fresh
  BY <1>1, <1>2 DEF StoreInv, Matching
<1> DEFINE new == [scope |-> scope, marks |-> marks, said |-> said, time |-> fresh]
<1>4. new \in Sessions /\ new.time = fresh
  BY <1>2 DEF Sessions
<1>5. /\ DOMAIN store' = DOMAIN store \cup {n} /\ store'[n] = new
      /\ \A m \in DOMAIN store \ {n} : store'[m] = store[m]
  BY <1>1
<1> HIDE DEF new
<1>6. \A m \in DOMAIN store : store[m].time \in 1 .. saves
  BY DEF FilesInv, Counted
<1>7. \A m \in DOMAIN store : m \in 1 .. fresh
  BY <1>2 DEF StoreInv
<1>8. StoreInv'
  <2>1. saves' \in 0 .. MaxSaves /\ DOMAIN store' \subseteq 1 .. saves'
    BY <1>2, <1>3, <1>5, <1>7
  <2>2. \A m \in DOMAIN store' : store'[m] \in Sessions
    BY <1>4, <1>5 DEF StoreInv
  <2>3. \A m \in DOMAIN store \ {n} : store'[m].time # store'[n].time
    BY <1>2, <1>4, <1>5, <1>6
  <2>4. \A m, k \in DOMAIN store' : store'[m].time = store'[k].time => m = k
    BY <1>5, <2>3 DEF StoreInv
  <2> QED
    BY <2>1, <2>2, <2>4 DEF StoreInv
<1>9. SeenInv'
  <2>1. \A q \in Reviewers : /\ fileReview'[q].mine = IF q = r THEN n ELSE fileReview[q].mine
                             /\ fileReview'[q].session = fileReview[q].session
    BY <1>1 DEF FilesInv, Remembers
  <2>2. \A q \in Reviewers : fileReview[q].mine \in 0 .. fresh /\ fileReview[q].session \in 0 .. fresh
    BY <1>2 DEF SeenInv
  <2>3. n \in 0 .. fresh
    BY <1>2, <1>3
  <2> QED
    BY <1>2, <2>1, <2>2, <2>3 DEF SeenInv
<1> QED
  BY <1>8, <1>9

\* The other steps of a review leave the sessions as they are.
LEMMA SeenKeeps ==
    ASSUME FilesInv, StoreInv, SeenInv, NEW r \in Reviewers,
           \/ StartFiles(r) \/ LockReview(r) \/ Launch(r) \/ TuicrExits(r) \/ ReadFiles(r)
           \/ EndFiles(r) \/ DieInFiles(r) \/ OrphanExits(r)
    PROVE  StoreInv' /\ SeenInv'
<1>0. UNCHANGED <<store, saves>>
  BY DEF StartFiles, LockReview, Launch, TuicrExits, ReadFiles, EndFiles, DieInFiles, OrphanExits
<1>1. StoreInv'
  BY <1>0 DEF StoreInv
<1>2. reviewing' \in Reviewers \cup {NoReviewer}
  <2>1. Release(r) => reviewing' \in Reviewers \cup {NoReviewer}
    BY DEF Release, SeenInv
  <2>2. UNCHANGED reviewing \/ reviewing' = r \/ Release(r)
    BY DEF StartFiles, LockReview, Launch, TuicrExits, ReadFiles, EndFiles, DieInFiles, OrphanExits
  <2> QED
    BY <2>1, <2>2 DEF SeenInv
<1>3. 0 \in 0 .. saves /\ fileReview \in [Reviewers -> [step : Steps, scope : Scopes, mine : Nat,
                                                       session : Nat, status : Status]]
  BY DEF FilesInv, Counted, Remembers
<1> DEFINE Seen(f) == \A q \in Reviewers : f[q].mine \in 0 .. saves /\ f[q].session \in 0 .. saves
<1>4. Seen(fileReview)
  BY DEF SeenInv
<1>5. ASSUME NEW session \in 0 .. saves, NEW status, Reported(r, session, status)
      PROVE  Seen(fileReview')
  BY <1>3, <1>4, <1>5 DEF Reported
<1>6. ASSUME NEW step, fileReview' = [fileReview EXCEPT ![r].step = step] PROVE Seen(fileReview')
  BY <1>3, <1>4, <1>6
<1>7. ASSUME fileReview' = [fileReview EXCEPT ![r] = NoFileReview] PROVE Seen(fileReview')
  <2>1. NoFileReview.mine = 0 /\ NoFileReview.session = 0
    BY DEF NoFileReview
  <2> QED
    BY <1>3, <1>4, <1>7, <2>1
<1>8. ASSUME StartFiles(r) PROVE Seen(fileReview')
  <2>1. PICK o \in FilesOptions :
          IF ConflictingScope(o)
          THEN Reported(r, 0, "error")
          ELSE fileReview' = [fileReview EXCEPT ![r].step = "lock", ![r].scope = ScopeOf(o)]
    BY <1>8 DEF StartFiles
  <2>2. CASE ConflictingScope(o)
    BY <1>3, <1>5, <2>1, <2>2
  <2>3. CASE ~ConflictingScope(o)
    <3>1. fileReview' = [fileReview EXCEPT ![r].step = "lock", ![r].scope = ScopeOf(o)]
      BY <2>1, <2>3
    <3> QED
      BY <1>3, <1>4, <3>1
  <2> QED
    BY <2>2, <2>3
<1>9. ASSUME Launch(r) PROVE Seen(fileReview')
  <2>1. CASE \E status : Reported(r, 0, status)
    BY <1>3, <1>5, <2>1
  <2>2. CASE \E range : fileReview' = [fileReview EXCEPT ![r].step = "tuicr", ![r].scope.range = range]
    BY <1>3, <1>4, <2>2
  <2> QED
    BY <1>9, <2>1, <2>2 DEF Launch
<1>10. ASSUME ReadFiles(r) PROVE Seen(fileReview')
  <2> DEFINE found == Matching(fileReview[r].scope)
             newest == NewestCandidate(found)
  <2>1. CASE found = {}
    BY <1>3, <1>5, <1>10, <2>1 DEF ReadFiles
  <2>2. CASE found # {}
    <3>1. newest \in DOMAIN store
      BY <2>2, NewestCandidateIs DEF Matching
    <3>2. newest \in 1 .. saves
      BY <3>1 DEF StoreInv
    <3>3. newest \in 0 .. saves
      BY <3>2
    <3>4. Reported(r, newest, FileReviewResult(store[newest]))
      BY <1>10, <2>2 DEF ReadFiles
    <3> HIDE DEF newest
    <3> QED
      BY <1>5, <3>3, <3>4
  <2> QED
    BY <2>1, <2>2
<1>11. Seen(fileReview')
  <2> HIDE DEF Seen
  <2>1. CASE LockReview(r)
    BY <1>3, <1>5, <1>6, <2>1 DEF LockReview
  <2>2. CASE TuicrExits(r)
    BY <1>3, <1>5, <1>6, <2>2 DEF TuicrExits
  <2>3. CASE EndFiles(r) \/ OrphanExits(r)
    BY <1>7, <2>3 DEF EndFiles, OrphanExits
  <2>4. CASE DieInFiles(r)
    BY <1>6, <1>7, <2>4 DEF DieInFiles
  <2> QED
    BY <1>8, <1>9, <1>10, <2>1, <2>2, <2>3, <2>4
<1> QED
  BY <1>0, <1>1, <1>2, <1>11 DEF SeenInv

\* The sessions, the lock and what each process knows keep their types.
LEMMA FilesTypes == FilesSpec => []FilesTypeOK
<1>1. FilesInit => StoreInv /\ SeenInv
  <2>1. NoFileReview.mine = 0 /\ NoFileReview.session = 0
    BY DEF NoFileReview
  <2>2. FilesInit => StoreInv
    BY FileReviewAssumption DEF FilesInit, StoreInv
  <2>3. FilesInit => SeenInv
    BY <2>1 DEF FilesInit, SeenInv
  <2> QED
    BY <2>2, <2>3
<1>2. FilesInv /\ StoreInv /\ SeenInv /\ [FilesNext]_fileVars => (StoreInv /\ SeenInv)'
  <2> SUFFICES ASSUME FilesInv, StoreInv, SeenInv, [FilesNext]_fileVars PROVE (StoreInv /\ SeenInv)'
    OBVIOUS
  <2>1. CASE UNCHANGED <<store, reviewing, fileReview, saves>>
    BY <2>1 DEF StoreInv, SeenInv
  <2> QED
    BY <2>1, SavedKeeps, SeenKeeps DEF FilesNext, MoveTip, fileVars
<1>3. FilesInv /\ StoreInv /\ SeenInv => FilesTypeOK
  <2> SUFFICES ASSUME FilesInv, StoreInv, SeenInv PROVE FilesTypeOK
    OBVIOUS
  <2>1. saves \in 0 .. MaxSaves /\ MaxSaves \in Nat
    BY FileReviewAssumption DEF StoreInv
  <2>2. DOMAIN store \subseteq 1 .. MaxSaves
    BY <2>1 DEF StoreInv
  <2>3. IsInjective([n \in DOMAIN store |-> store[n].time])
    BY DEF StoreInv, IsInjective
  <2>4. \A r \in Reviewers :
          /\ fileReview[r].scope \in Scopes /\ fileReview[r].status \in Status
          /\ {fileReview[r].mine, fileReview[r].session} \subseteq 0 .. MaxSaves
    BY <2>1 DEF FilesInv, Remembers, SeenInv
  <2> QED
    BY <2>2, <2>3, <2>4 DEF FilesTypeOK, StoreInv, SeenInv, FilesInv, Counted, Status
<1> QED
  BY <1>1, <1>2, <1>3, FilesInvInit, FilesInvStep, PTL DEF FilesSpec

(* The stacks of a branch *)

\* Each stack begins where the one before it ends.
Follows(v) ==
    \A k \in 1 .. Len(v.stacks) :
        v.stacks[k].first = IF k = 1 THEN 1 ELSE v.stacks[k - 1].last + 1

\* A commit extends the last stack, or begins one after it.
LEMMA TakenFollows ==
    ASSUME BranchInv, NEW i \in 1 .. Len(branch), NEW v, Blocks(v, i - 1), Follows(v)
    PROVE  Follows(Take(v, branch[i]))
<1> DEFINE c == branch[i]
           w == Take(v, c)
           captured == IsFeedback(c) /\ Captures(v, c)
           n == Len(v.stacks)
           stacks == v.stacks
<1>1. /\ stacks \in Seq(StackType) /\ v.targets \in Seq(TargetType) /\ Len(v.targets) = i - 1
      /\ n \in Nat /\ i \in Nat /\ i >= 1 /\ DOMAIN stacks = 1 .. n
  BY DEF Blocks, BranchInv
<1>2. /\ i - 1 > 0 => n > 0
      /\ n > 0 => stacks[n].last = i - 1
  BY DEF Blocks
<1>3. w.stacks = IF captured THEN Extended(v) ELSE Opened(v, c)
  BY DEF Take
<1>4. \A k \in 1 .. n : stacks[k] \in StackType
  BY <1>1
<1>5. \A k \in 1 .. n : stacks[k].first = IF k = 1 THEN 1 ELSE stacks[k - 1].last + 1
  BY DEF Follows
<1>6. CASE captured
  <2>1. w.stacks = [stacks EXCEPT ![n].last = @ + 1]
    BY <1>3, <1>6 DEF Extended
  <2> HIDE DEF w, n, stacks
  <2>2. Len(w.stacks) = n /\ \A k \in 1 .. n : w.stacks[k].first = stacks[k].first
    <3> DEFINE l == stacks[n].last + 1
               t == [stacks[n] EXCEPT !.last = l]
    <3>1. w.stacks = [stacks EXCEPT ![n] = t]
      BY <2>1
    <3>2. n \in 1 .. n => t \in StackType /\ t.first = stacks[n].first
      <4> SUFFICES ASSUME n \in 1 .. n PROVE t \in StackType /\ t.first = stacks[n].first
        OBVIOUS
      <4>1. stacks[n] \in StackType
        BY <1>4
      <4>2. stacks[n].last \in Nat
        BY <4>1, StackFields
      <4>3. l \in Nat
        BY <4>2
      <4> HIDE DEF l
      <4> QED
        BY <4>1, <4>3, StackExtended
    <3> HIDE DEF t
    <3>3. \A k \in 1 .. n : w.stacks[k] = IF k = n THEN t ELSE stacks[k]
      BY <1>1, <3>1
    <3>4. w.stacks \in Seq(StackType) /\ Len(w.stacks) = n
      <4>1. w.stacks = [k \in 1 .. n |-> IF k = n THEN t ELSE stacks[k]]
        BY <1>1, <3>1
      <4>2. \A k \in 1 .. n : (IF k = n THEN t ELSE stacks[k]) \in StackType
        BY <1>4, <3>2
      <4>3. w.stacks \in [1 .. n -> StackType]
        BY <4>1, <4>2
      <4>4. w.stacks \in Seq(StackType) /\ DOMAIN w.stacks = 1 .. n
        BY <1>1, <4>3
      <4> QED
        BY <1>1, <4>4
    <3> QED
      BY <3>2, <3>3, <3>4
  <2>3. \A k \in 1 .. n : k # n => w.stacks[k] = stacks[k]
    BY <1>1, <2>1
  <2>4. ASSUME NEW k \in 1 .. n, k # 1 PROVE w.stacks[k - 1].last = stacks[k - 1].last
    <3>1. k - 1 \in 1 .. n /\ k - 1 # n
      BY <1>1, <2>4
    <3> QED
      BY <2>3, <3>1
  <2>5. \A k \in 1 .. n : w.stacks[k].first = IF k = 1 THEN 1 ELSE w.stacks[k - 1].last + 1
    BY <1>5, <2>2, <2>4
  <2> QED
    BY <2>2, <2>5 DEF Follows, w
<1>7. CASE ~captured
  <2> DEFINE s == [first |-> Len(v.targets) + 1, last |-> Len(v.targets) + 1, id |-> c.id]
  <2>1. w.stacks = Append(stacks, s) /\ s.first = i
    BY <1>1, <1>3, <1>7 DEF Opened
  <2> HIDE DEF w, n, stacks, s
  <2>2. /\ Len(w.stacks) = n + 1 /\ w.stacks[n + 1] = s
        /\ \A k \in 1 .. n : w.stacks[k] = stacks[k]
    BY <1>1, <2>1, AppendProperties DEF n, stacks
  <2>3. ASSUME NEW k \in 1 .. n + 1
        PROVE  w.stacks[k].first = IF k = 1 THEN 1 ELSE w.stacks[k - 1].last + 1
    <3>1. CASE k \in 1 .. n
      <4>1. k # 1 => k - 1 \in 1 .. n
        BY <1>1, <3>1
      <4> QED
        BY <1>5, <2>2, <3>1, <4>1
    <3>2. CASE k = n + 1 /\ n > 0
      <4>1. n \in 1 .. n /\ k # 1 /\ k - 1 = n
        BY <1>1, <3>2
      <4>2. w.stacks[k - 1].last = i - 1
        BY <1>2, <2>2, <3>2, <4>1
      <4> QED
        BY <1>1, <2>1, <2>2, <3>2, <4>1, <4>2
    <3>3. CASE k = n + 1 /\ n = 0
      BY <1>1, <1>2, <2>1, <2>2, <3>3
    <3> QED
      BY <1>1, <3>1, <3>2, <3>3
  <2> QED
    BY <2>2, <2>3 DEF Follows, w
<1> QED
  BY <1>6, <1>7

\* So the stacks of a branch lie end to end.
LEMMA StacksFollow ==
    ASSUME BranchInv PROVE Blocks(View(branch), Len(branch)) /\ Follows(View(branch))
<1> DEFINE n == Len(branch)
           V == Views(branch)
           Bad == {i \in 0 .. n : ~(Blocks(V[i], i) /\ Follows(V[i]))}
<1>0. branch \in Seq(CommitType) /\ n \in Nat
  BY DEF BranchInv
<1>1. /\ View(branch) = V[n] /\ V[0] = NoStacks
      /\ \A i \in 1 .. n : V[i] = Take(V[i - 1], branch[i])
  BY <1>0, ViewsStep
<1>2. Blocks(V[0], 0) /\ Follows(V[0])
  <2>1. NoStacks.stacks = <<>> /\ NoStacks.targets = <<>>
    BY DEF NoStacks
  <2> HIDE DEF V
  <2> QED
    BY <1>1, <2>1 DEF Blocks, Follows
<1>3. ASSUME NEW i \in 1 .. n, Blocks(V[i - 1], i - 1), Follows(V[i - 1])
      PROVE  Blocks(V[i], i) /\ Follows(V[i])
  <2> HIDE DEF V
  <2> QED
    BY <1>1, <1>3, TakenBlocks, TakenFollows
<1> HIDE DEF V
<1>4. Bad = {}
  <2> SUFFICES ASSUME Bad # {} PROVE FALSE
    OBVIOUS
  <2>1. Bad \in SUBSET Nat
    OBVIOUS
  <2>2. PICK m \in Bad : \A k \in Bad : m <= k
    <3> HIDE DEF Bad
    <3> QED
      BY <2>1, BoundedMin
  <2>3. m \in 0 .. n /\ ~(Blocks(V[m], m) /\ Follows(V[m])) /\ m # 0
    BY <1>2
  <2>4. m \in 1 .. n /\ m - 1 \in 0 .. n /\ m - 1 \notin Bad
    <3> HIDE DEF Bad
    <3> QED
      BY <1>0, <2>2, <2>3
  <2>5. Blocks(V[m - 1], m - 1) /\ Follows(V[m - 1])
    BY <2>4
  <2> QED
    BY <1>3, <2>3, <2>4, <2>5
<1>5. Blocks(V[n], n) /\ Follows(V[n])
  BY <1>0, <1>4
<1> QED
  BY <1>1, <1>5

\* Squashing keeps some of the commits.
LEMMA HostsAreFewer ==
    ASSUME BranchInv PROVE Len(Hosts[Len(branch)]) <= Len(branch)
<1> DEFINE n == Len(branch)
           Few(i) == Hosts[i] \in Seq(Nat) /\ Len(Hosts[i]) <= i
           Bad == {i \in 0 .. n : ~Few(i)}
<1>0. branch \in Seq(CommitType) /\ n \in Nat
  BY DEF BranchInv
<1>1. /\ Hosts[0] = <<>>
      /\ \A i \in 1 .. n : Hosts[i] = IF Stays(i) THEN Append(Hosts[i - 1], i) ELSE Hosts[i - 1]
  BY <1>0, HostsStep
<1>2. Few(0)
  BY <1>1
<1>3. ASSUME NEW i \in 1 .. n, Few(i - 1) PROVE Few(i)
  <2>1. CASE Stays(i)
    <3>1. Hosts[i] = Append(Hosts[i - 1], i)
      BY <1>1, <2>1
    <3>2. Hosts[i] \in Seq(Nat) /\ Len(Hosts[i]) = Len(Hosts[i - 1]) + 1
      BY <1>3, <3>1, AppendProperties
    <3>3. Len(Hosts[i - 1]) \in Nat
      BY <1>3
    <3> QED
      BY <1>3, <3>2, <3>3
  <2>2. CASE ~Stays(i)
    <3>1. Hosts[i] = Hosts[i - 1]
      BY <1>1, <2>2
    <3>2. Len(Hosts[i - 1]) \in Nat
      BY <1>3
    <3> QED
      BY <1>3, <3>1, <3>2
  <2> QED
    BY <2>1, <2>2
<1> HIDE DEF n, Few
<1>4. Bad = {}
  <2> SUFFICES ASSUME Bad # {} PROVE FALSE
    OBVIOUS
  <2>1. Bad \in SUBSET Nat
    BY <1>0
  <2>2. PICK m \in Bad : \A k \in Bad : m <= k
    <3> HIDE DEF Bad
    <3> QED
      BY <2>1, BoundedMin
  <2>3. m \in 0 .. n /\ ~Few(m) /\ m # 0
    BY <1>2
  <2>4. m \in 1 .. n /\ m - 1 \in 0 .. n /\ m - 1 \notin Bad
    <3> HIDE DEF Bad
    <3> QED
      BY <1>0, <2>2, <2>3
  <2>5. Few(m - 1)
    BY <2>4
  <2> QED
    BY <1>3, <2>3, <2>4, <2>5
<1>5. Few(n)
  BY <1>0, <1>4
<1> QED
  BY <1>5 DEF n, Few

\* The branch stays within its bound, and its stacks cover it.
LEMMA StacksTypes == StacksSpec => []StacksTypeOK
<1> DEFINE Short == Len(branch) <= MaxCommits
<1>1. StacksInit => Short
  BY StacksAssumption DEF StacksInit
<1>2. BranchInv /\ Short /\ [StacksNext]_branch => Short'
  <2> SUFFICES ASSUME BranchInv, Short, [StacksNext]_branch PROVE Short'
    OBVIOUS
  <2>0. Len(branch) \in Nat /\ MaxCommits \in Nat /\ branch \in Seq(CommitType)
    BY StacksAssumption DEF BranchInv
  <2>1. CASE AddCommit
    <3>1. PICK c \in Commits : branch' = Append(branch, c)
      BY <2>1 DEF AddCommit
    <3>2. c \in CommitType /\ Len(branch) < MaxCommits
      BY <2>1, CommitsTyped DEF Wellformed, AddCommit
    <3>3. Len(branch') = Len(branch) + 1
      BY <2>0, <3>1, <3>2, AppendProperties
    <3> QED
      BY <2>0, <3>2, <3>3
  <2>2. CASE Autosquash
    <3> DEFINE h == Hosts[Len(branch)]
    <3>1. branch' = [k \in DOMAIN h |-> Result(h[k])]
      BY <2>0, <2>2, HostsStep DEF Autosquash
    <3>2. h \in Seq(1 .. Len(branch)) /\ Len(h) <= Len(branch)
      BY HostsTyped, HostsAreFewer
    <3>3. branch' \in Seq(CommitType)
      BY <2>2, SquashedTyped DEF Autosquash
    <3> HIDE DEF h
    <3>4. DOMAIN branch' = 1 .. Len(h) /\ Len(h) \in Nat
      BY <3>1, <3>2
    <3>5. Len(branch') = Len(h)
      BY <3>3, <3>4
    <3> QED
      BY <2>0, <3>2, <3>4, <3>5
  <2>3. CASE UNCHANGED branch
    BY <2>3
  <2> QED
    BY <2>1, <2>2, <2>3 DEF StacksNext
<1>3. BranchInv /\ Short => StacksTypeOK
  <2> SUFFICES ASSUME BranchInv, Short PROVE StacksTypeOK
    OBVIOUS
  <2> DEFINE stacks == StacksOf(branch)
  <2>1. Blocks(View(branch), Len(branch)) /\ Follows(View(branch)) /\ stacks = View(branch).stacks
    BY StacksFollow DEF StacksOf
  <2>2. branch # <<>> => Len(branch) > 0
    BY DEF BranchInv
  <2> HIDE DEF stacks
  <2>3. /\ stacks \in Seq(StackType) /\ DOMAIN stacks = 1 .. Len(stacks) /\ Len(stacks) \in Nat
        /\ Len(branch) > 0 => Len(stacks) > 0
        /\ Len(stacks) > 0 => stacks[Len(stacks)].last = Len(branch)
        /\ \A k \in 1 .. Len(stacks) : stacks[k].first <= stacks[k].last
    BY <2>1 DEF Blocks
  <2>4. \A k \in 1 .. Len(stacks) : stacks[k].first = IF k = 1 THEN 1 ELSE stacks[k - 1].last + 1
    BY <2>1 DEF Follows
  <2>5. branch # <<>> => Last(stacks).last = Len(branch)
    BY <2>2, <2>3 DEF Last
  <2> QED
    BY <2>3, <2>4, <2>5 DEF StacksTypeOK, stacks
<1> HIDE DEF Short
<1> QED
  BY <1>1, <1>2, <1>3, BranchInvariant, PTL DEF StacksSpec

(* The tag bump: why the numbers of its versions stay below the number of bumps.  A    *)
(* version has a part that is one more than that of a version found, and a bump makes  *)
(* only one, so no part is greater than the number of bumps that are past their tag.   *)

\* The bumps, by their number, that will create no tag any more.
Waiting == {"fetch", "compare", "list", "tag"}
Ended == {k \in 1 .. bumps : \A b \in Bumps : bump[b].step \in Waiting => bump[b].nth # k}
Done == Cardinality(Ended)

\* Every bump has a number of its own.
CountInv ==
    /\ bumps \in 0 .. MaxBumps /\ origin.tip \in 0 .. MaxTip
    /\ \A b \in Bumps : bump[b].step # "idle" => bump[b].nth \in 1 .. bumps
    /\ \A b, c \in Bumps : /\ bump[b].step # "idle" /\ bump[c].step # "idle"
                           /\ bump[b].nth = bump[c].nth
                           => b = c

\* No tag, and no version that was found, has a part above the number of ended bumps.
Tagged == [commit : 0 .. MaxTip, nth : 1 .. MaxBumps]

SizeInv ==
    /\ DOMAIN origin.tags \subseteq Box(Done)
    /\ \A v \in DOMAIN origin.tags : origin.tags[v] \in Tagged
    /\ \A m \in Machines : /\ DOMAIN clone[m].tags \subseteq Box(Done)
                           /\ \A v \in DOMAIN clone[m].tags : clone[m].tags[v] \in Tagged
    /\ \A b \in Bumps : bump[b].step = "tag" => bump[b].latest \in Box(Done)

\* Some of the numbers up to n are at most n.
LEMMA SomeOf ==
    ASSUME NEW n \in Nat, NEW S \in SUBSET (1 .. n)
    PROVE  IsFiniteSet(S) /\ Cardinality(S) \in Nat /\ Cardinality(S) <= n
<1>1. IsFiniteSet(1 .. n) /\ Cardinality(1 .. n) = n
  BY FS_Interval
<1> QED
  BY <1>1, FS_Subset, FS_CardinalityType

\* A greater box holds a smaller one.
LEMMA BoxHolds ==
    ASSUME NEW n \in Nat, NEW k \in Nat, n <= k PROVE Box(n) \subseteq Box(k)
<1>1. 0 .. n \subseteq 0 .. k
  OBVIOUS
<1> QED
  BY <1>1 DEF Box

\* When more bumps have ended, the box is not smaller.
LEMMA MoreEnded ==
    ASSUME CountInv, CountInv', Ended \subseteq Ended'
    PROVE  Done \in Nat /\ Done' \in Nat /\ Done <= Done' /\ Done' <= bumps' /\ Box(Done) \subseteq Box(Done')
<1>1. bumps \in Nat /\ bumps' \in Nat
  BY DEF CountInv
<1>2. Ended \in SUBSET (1 .. bumps) /\ Ended' \in SUBSET (1 .. bumps')
  BY DEF Ended
<1>3. /\ IsFiniteSet(Ended) /\ Cardinality(Ended) \in Nat
      /\ IsFiniteSet(Ended') /\ Cardinality(Ended') \in Nat /\ Cardinality(Ended') <= bumps'
  BY <1>1, <1>2, SomeOf
<1>4. Cardinality(Ended) <= Cardinality(Ended')
  BY <1>3, FS_Subset
<1>5. Done \in Nat /\ Done' \in Nat /\ Done <= Done' /\ Done' <= bumps'
  BY <1>3, <1>4 DEF Done
<1> QED
  BY <1>5, BoxHolds

\* A bump that goes on keeps its number, one that ends leaves it.
LEMMA JobCounts ==
    ASSUME CountInv, NEW b \in Bumps, UNCHANGED bumps, origin'.tip \in 0 .. MaxTip,
           \A c \in Bumps \ {b} : bump'[c] = bump[c],
           \/ bump'[b].step = "idle"
           \/ bump[b].step # "idle" /\ bump'[b].nth = bump[b].nth,
           bump'[b].step \in Waiting => bump[b].step \in Waiting
    PROVE  CountInv' /\ Ended \subseteq Ended'
<1>1. \A c \in Bumps : bump'[c].step # "idle" =>
        bump[c].step # "idle" /\ bump'[c].nth = bump[c].nth
  OBVIOUS
<1>2. \A c \in Bumps : bump'[c].step \in Waiting =>
        bump[c].step \in Waiting /\ bump'[c].nth = bump[c].nth
  BY <1>1 DEF Waiting
<1>3. CountInv'
  BY <1>1 DEF CountInv
<1>4. Ended \subseteq Ended'
  BY <1>2 DEF Ended
<1> QED
  BY <1>3, <1>4

\* Tags that fit before fit after.
LEMMA SizesKeep ==
    ASSUME CountInv, CountInv', Ended \subseteq Ended',
           \A v \in DOMAIN origin'.tags : v \in Box(Done) /\ origin'.tags[v] \in Tagged,
           \A m \in Machines : \A v \in DOMAIN clone'[m].tags :
             v \in Box(Done) /\ clone'[m].tags[v] \in Tagged,
           \A b \in Bumps : bump'[b].step = "tag" => bump'[b].latest \in Box(Done)
    PROVE  SizeInv'
<1>1. Box(Done) \subseteq Box(Done')
  BY MoreEnded
<1> DEFINE d == Box(Done')
<1>2. /\ DOMAIN origin'.tags \subseteq d
      /\ \A m \in Machines : DOMAIN clone'[m].tags \subseteq d
      /\ \A b \in Bumps : bump'[b].step = "tag" => bump'[b].latest \in d
  BY <1>1
<1> QED
  BY <1>2 DEF SizeInv

\* The tags as they are.
LEMMA SizesAre ==
    ASSUME SizeInv
    PROVE  /\ \A v \in DOMAIN origin.tags : v \in Box(Done) /\ origin.tags[v] \in Tagged
           /\ \A m \in Machines : \A v \in DOMAIN clone[m].tags :
                v \in Box(Done) /\ clone[m].tags[v] \in Tagged
           /\ \A b \in Bumps : bump[b].step = "tag" => bump[b].latest \in Box(Done)
  BY DEF SizeInv

\* A bump starts: its number is new, and it has not ended.
LEMMA StartCounts ==
    ASSUME BumpInv, CountInv, SizeInv, NEW b \in Bumps, StartBump(b) PROVE CountInv' /\ SizeInv'
<1>0. BumpTyped
  BY DEF BumpInv
<1>1. /\ bump[b].step = "idle" /\ bumps < MaxBumps /\ bumps' = bumps + 1
      /\ UNCHANGED <<origin, clone>> /\ bumps \in Nat /\ MaxBumps \in Nat
  BY BumpAssumption DEF StartBump, BumpAt, CountInv
<1>2. /\ bump'[b].step = "fetch" /\ bump'[b].nth = bumps + 1
      /\ \A c \in Bumps \ {b} : bump'[c] = bump[c]
  BY <1>0 DEF StartBump, BumpTyped, NoBump
<1>3. \A c \in Bumps : bump[c].step # "idle" =>
        bump[c].nth \in 1 .. bumps /\ bump[c].nth \in 1 .. bumps' /\ bump[c].nth # bumps + 1
  BY <1>1 DEF CountInv
<1>4. bumps + 1 \in 1 .. bumps' /\ bumps' \in 0 .. MaxBumps
  BY <1>1
<1>5. CountInv'
  <2>1. \A c \in Bumps : bump'[c].step # "idle" => bump'[c].nth \in 1 .. bumps'
    BY <1>2, <1>3, <1>4
  <2>2. \A c, d \in Bumps : bump'[c].step # "idle" /\ bump'[d].step # "idle"
                            /\ bump'[c].nth = bump'[d].nth => c = d
    BY <1>2, <1>3 DEF CountInv
  <2> QED
    BY <1>1, <1>4, <2>1, <2>2 DEF CountInv
<1>6. Ended \subseteq Ended'
  <2> SUFFICES ASSUME NEW k \in Ended PROVE k \in Ended'
    OBVIOUS
  <2>1. k \in 1 .. bumps /\ \A c \in Bumps : bump[c].step \in Waiting => bump[c].nth # k
    BY DEF Ended
  <2>2. k \in 1 .. bumps' /\ k # bumps + 1
    BY <1>1, <2>1
  <2>3. \A c \in Bumps : bump'[c].step \in Waiting => bump'[c].nth # k
    BY <1>2, <2>1, <2>2
  <2> QED
    BY <2>2, <2>3 DEF Ended
<1> QED
  BY <1>1, <1>2, <1>5, <1>6, SizesAre, SizesKeep

\* The table of one clone changes.
LEMMA OneTable ==
    ASSUME BumpTyped, NEW m \in Machines, NEW tags, NEW tracked,
           \/ clone' = [clone EXCEPT ![m].tags = tags]
           \/ clone' = [clone EXCEPT ![m].tracked = tracked, ![m].tags = tags]
    PROVE  clone'[m].tags = tags /\ \A k \in Machines \ {m} : clone'[k] = clone[k]
  BY DEF BumpTyped, Clones

\* A bump ends and leaves its number.
LEMMA EndCounts ==
    ASSUME BumpTyped, CountInv, NEW b \in Bumps, EndBump(b), UNCHANGED <<bumps, origin>>
    PROVE  CountInv' /\ Ended \subseteq Ended' /\ bump'[b].step = "idle"
           /\ \A c \in Bumps \ {b} : bump'[c] = bump[c]
<1>1. bump'[b].step = "idle" /\ \A c \in Bumps \ {b} : bump'[c] = bump[c]
  BY EndBumpStep
<1>2. origin'.tip \in 0 .. MaxTip
  BY DEF CountInv
<1>3. bump'[b].step \notin Waiting
  BY <1>1 DEF Waiting
<1> QED
  BY <1>1, <1>2, <1>3, JobCounts

\* A fetch brings tags that origin has.
LEMMA FetchCounts ==
    ASSUME BumpInv, CountInv, SizeInv, NEW b \in Bumps, FetchTags(b) \/ FetchTagsFails(b)
    PROVE  CountInv' /\ SizeInv'
<1>0. BumpTyped
  BY DEF BumpInv
<1> DEFINE m == bump[b].machine
           tags == [v \in DOMAIN clone[m].tags \cup DOMAIN origin.tags |->
                      IF v \in DOMAIN clone[m].tags THEN clone[m].tags[v] ELSE origin.tags[v]]
<1>1. /\ bump[b].step = "fetch" /\ UNCHANGED <<origin, bumps>> /\ m \in Machines
      /\ clone' = [clone EXCEPT ![m].tracked = origin.tip, ![m].tags = tags]
  BY <1>0 DEF FetchTags, FetchTagsFails, BumpAt, BumpTyped, Fetched, Clones
<1>2. \A k \in Machines : \A v \in DOMAIN clone'[k].tags : v \in Box(Done) /\ clone'[k].tags[v] \in Tagged
  <2>1. \A v \in DOMAIN tags : v \in Box(Done) /\ tags[v] \in Tagged
    BY <1>1, SizesAre
  <2> HIDE DEF tags, m
  <2>2. clone'[m].tags = tags /\ \A k \in Machines \ {m} : clone'[k] = clone[k]
    BY <1>0, <1>1, OneTable
  <2> QED
    BY <2>1, <2>2, SizesAre
<1>3. /\ \A c \in Bumps \ {b} : bump'[c] = bump[c]
      /\ bump'[b].step = "idle" \/ (bump'[b].step = "compare" /\ bump'[b].nth = bump[b].nth)
  <2>1. CASE FetchTagsFails(b)
    <3>1. EndBump(b)
      BY <2>1 DEF FetchTagsFails
    <3>2. bump'[b].step = "idle" /\ \A c \in Bumps \ {b} : bump'[c] = bump[c]
      BY <1>0, <3>1, EndBumpStep
    <3> QED
      BY <3>2
  <2>2. CASE FetchTags(b)
    <3>1. bump[b] \in BumpJob
      BY <1>0 DEF BumpTyped
    <3> QED
      BY <1>0, <2>2, <3>1 DEF FetchTags, BumpTyped, BumpJob
  <2> QED
    BY <2>1, <2>2
<1>4. CountInv' /\ Ended \subseteq Ended'
  <2>1. origin'.tip \in 0 .. MaxTip /\ bump[b].step \in Waiting /\ bump[b].step # "idle"
    BY <1>1 DEF CountInv, Waiting
  <2> QED
    BY <1>1, <1>3, <2>1, JobCounts
<1>5. /\ \A c \in Bumps : bump'[c].step = "tag" => bump'[c].latest \in Box(Done)
      /\ \A v \in DOMAIN origin'.tags : v \in Box(Done) /\ origin'.tags[v] \in Tagged
  BY <1>1, <1>3, SizesAre
<1> QED
  BY <1>2, <1>4, <1>5, SizesKeep

\* The version that is found is one of the clone's.
LEMMA LookCounts ==
    ASSUME BumpInv, CountInv, SizeInv, NEW b \in Bumps,
           Compare(b) \/ List(b) \/ Refuse(b) \/ StopBump(b)
    PROVE  CountInv' /\ SizeInv'
<1>0. BumpTyped /\ bump[b] \in BumpJob
  BY DEF BumpInv, BumpTyped
<1>1. UNCHANGED <<origin, clone, bumps>> /\ bump[b].step # "idle"
  BY DEF Compare, List, Refuse, StopBump, BumpAt
<1>2. Done \in Nat
  <2>1. bumps \in Nat /\ Ended \in SUBSET (1 .. bumps)
    BY DEF CountInv, Ended
  <2> QED
    BY <2>1, SomeOf DEF Done
<1>3. /\ \A c \in Bumps \ {b} : bump'[c] = bump[c]
      /\ \/ bump'[b].step = "idle"
         \/ /\ bump'[b].nth = bump[b].nth /\ bump[b].step \in Waiting
            /\ bump'[b].step = "tag" => bump'[b].latest \in Box(Done)
  <2>1. CASE EndBump(b)
    BY <1>0, <2>1, EndBumpStep
  <2>2. CASE Compare(b)
    BY <1>0, <2>2 DEF Compare, BumpAt, BumpTyped, BumpJob, Waiting
  <2>3. CASE List(b) /\ ~EndBump(b)
    <3>1. bump[b].step = "list" /\ bump[b].machine \in Machines
      BY <1>0, <2>3 DEF List, BumpAt, BumpTyped
    <3>2. PICK series \in {Every, 0} :
            LET found == Selected(DOMAIN Ours(b).tags, series)
            IN  bump' = [bump EXCEPT ![b].step = "tag", ![b].series = series,
                             ![b].latest = IF found = {} THEN <<0, 0, 0>> ELSE Highest(found)]
      BY <2>3 DEF List
    <3> DEFINE found == Selected(DOMAIN Ours(b).tags, series)
               v == IF found = {} THEN <<0, 0, 0>> ELSE Highest(found)
    <3>3. bump' = [bump EXCEPT ![b].step = "tag", ![b].series = series, ![b].latest = v]
      BY <3>2
    <3>4. v \in Box(Done)
      <4>1. CASE found = {}
        <5>1. 0 \in 0 .. Done
          BY <1>2
        <5> QED
          BY <4>1, <5>1 DEF Box
      <4>2. CASE found # {}
        <5>1. DOMAIN Ours(b).tags \subseteq Box(Done)
          BY <3>1 DEF SizeInv, Ours
        <5>2. found \in SUBSET ((0 .. Done) \X (0 .. Done) \X (0 .. Done))
          BY <5>1 DEF Selected, Box
        <5> HIDE DEF found
        <5>3. Highest(found) \in found
          BY <1>2, <4>2, <5>2, HighestPicks
        <5> QED
          BY <4>2, <5>2, <5>3 DEF Box
      <4> QED
        BY <4>1, <4>2
    <3> HIDE DEF v
    <3>5. /\ bump'[b].step = "tag" /\ bump'[b].nth = bump[b].nth /\ bump'[b].latest = v
          /\ \A c \in Bumps \ {b} : bump'[c] = bump[c]
      BY <1>0, <3>3 DEF BumpTyped, BumpJob
    <3> QED
      BY <3>1, <3>4, <3>5 DEF Waiting
  <2> QED
    BY <2>1, <2>2, <2>3 DEF Refuse, StopBump
<1>4. CountInv' /\ Ended \subseteq Ended'
  <2>1. origin'.tip \in 0 .. MaxTip
    BY <1>1 DEF CountInv
  <2>2. "idle" \notin Waiting
    BY DEF Waiting
  <2>3. bump'[b].step \in Waiting => bump[b].step \in Waiting
    BY <1>3, <2>2
  <2> QED
    BY <1>1, <1>3, <2>1, <2>3, JobCounts
<1>5. \A c \in Bumps : bump'[c].step = "tag" => bump'[c].latest \in Box(Done)
  BY <1>3, SizesAre
<1>6. /\ \A v \in DOMAIN origin'.tags : v \in Box(Done) /\ origin'.tags[v] \in Tagged
      /\ \A m \in Machines : \A v \in DOMAIN clone'[m].tags :
           v \in Box(Done) /\ clone'[m].tags[v] \in Tagged
  BY <1>1, SizesAre
<1> QED
  BY <1>4, <1>5, <1>6, SizesKeep

\* Origin takes a tag of the clone.
LEMMA PushCounts ==
    ASSUME BumpInv, CountInv, SizeInv, NEW b \in Bumps, PushTag(b) PROVE CountInv' /\ SizeInv'
<1>0. BumpTyped /\ FreshInv(b)
  BY DEF BumpInv
<1> DEFINE v == bump[b].version
           t == Ours(b).tags
<1>1. /\ bump'[b].step = "idle" /\ \A c \in Bumps \ {b} : bump'[c] = bump[c]
      /\ bump[b].step = "push"
      /\ origin'.tags = [w \in DOMAIN origin.tags \cup {v} |-> IF w = v THEN t[v] ELSE origin.tags[w]]
  BY PushTagStep
<1>2. UNCHANGED <<clone, bumps>> /\ origin'.tip = origin.tip
  BY <1>0 DEF PushTag, BumpTyped
<1>3. bump[b].machine \in Machines /\ v \in DOMAIN t
  BY <1>0, <1>1 DEF BumpTyped, BumpAt, FreshInv
<1>4. v \in Box(Done) /\ t[v] \in Tagged
  BY <1>3, SizesAre DEF Ours
<1>5. CountInv' /\ Ended \subseteq Ended'
  <2>1. origin'.tip \in 0 .. MaxTip /\ bump'[b].step \notin Waiting
    BY <1>1, <1>2 DEF CountInv, Waiting
  <2> QED
    BY <1>1, <1>2, <2>1, JobCounts
<1> HIDE DEF v, t
<1>6. \A w \in DOMAIN origin'.tags : w \in Box(Done) /\ origin'.tags[w] \in Tagged
  BY <1>1, <1>4, SizesAre
<1>7. /\ \A c \in Bumps : bump'[c].step = "tag" => bump'[c].latest \in Box(Done)
      /\ \A m \in Machines : \A w \in DOMAIN clone'[m].tags :
           w \in Box(Done) /\ clone'[m].tags[w] \in Tagged
  BY <1>1, <1>2, SizesAre
<1> QED
  BY <1>5, <1>6, <1>7, SizesKeep

\* A bump that has created its tag has ended, so that the box has grown by one.
LEMMA TagCounts ==
    ASSUME BumpInv, CountInv, SizeInv, NEW b \in Bumps, CreateTag(b) PROVE CountInv' /\ SizeInv'
<1>0. BumpTyped /\ TipInv /\ bump[b] \in BumpJob
  BY DEF BumpInv, BumpTyped
<1> DEFINE m == bump[b].machine
           nth == bump[b].nth
<1>1. /\ bump[b].step = "tag" /\ UNCHANGED <<origin, bumps>> /\ m \in Machines
      /\ bump[b].latest \in Triples /\ bump[b].latest \in Box(Done)
  BY <1>0, SizesAre DEF CreateTag, BumpAt, BumpTyped, BumpJob
<1>2. PICK kind \in Kinds, push \in BOOLEAN :
         LET v == NextVersion(bump[b].latest, kind)
         IN  IF v \in DOMAIN Ours(b).tags
             THEN EndBump(b) /\ UNCHANGED clone
             ELSE /\ clone' = [clone EXCEPT ![bump[b].machine].tags =
                                 [w \in DOMAIN @ \cup {v} |->
                                    IF w = v THEN [commit |-> Commit(b), nth |-> bump[b].nth]
                                    ELSE @[w]]]
                  /\ IF push
                     THEN bump' = [bump EXCEPT ![b].step = "push", ![b].version = v]
                     ELSE EndBump(b)
  BY DEF CreateTag
<1> DEFINE v == NextVersion(bump[b].latest, kind)
           x == [commit |-> Commit(b), nth |-> nth]
           tags == [w \in DOMAIN clone[m].tags \cup {v} |-> IF w = v THEN x ELSE clone[m].tags[w]]
<1>3. \/ UNCHANGED clone /\ EndBump(b)
      \/ /\ clone' = [clone EXCEPT ![m].tags = tags]
         /\ EndBump(b) \/ bump' = [bump EXCEPT ![b].step = "push", ![b].version = v]
  <2>1. clone[m] \in Clones
    BY <1>0, <1>1 DEF BumpTyped
  <2> QED
    BY <1>0, <1>1, <1>2, <2>1 DEF BumpTyped, Clones
<1>4. /\ \A c \in Bumps \ {b} : bump'[c] = bump[c]
      /\ bump'[b].step = "idle" \/ (bump'[b].step = "push" /\ bump'[b].nth = nth)
  <2>1. CASE EndBump(b)
    <3>1. bump'[b].step = "idle" /\ \A c \in Bumps \ {b} : bump'[c] = bump[c]
      BY <1>0, <2>1, EndBumpStep
    <3> QED
      BY <3>1
  <2>2. CASE bump' = [bump EXCEPT ![b].step = "push", ![b].version = v]
    <3> HIDE DEF v
    <3> QED
      BY <1>0, <2>2 DEF BumpTyped, BumpJob
  <2> QED
    BY <1>3, <2>1, <2>2
<1>5. CountInv' /\ Ended \subseteq Ended'
  <2>1. origin'.tip \in 0 .. MaxTip /\ bump'[b].step \notin Waiting
    BY <1>1, <1>4 DEF CountInv, Waiting
  <2> QED
    BY <1>1, <1>4, <2>1, JobCounts
<1>6. nth \in 1 .. bumps /\ bumps \in 0 .. MaxBumps /\ MaxBumps \in Nat
  BY <1>1, BumpAssumption DEF CountInv
<1>7. Done \in Nat /\ Done' \in Nat /\ Done + 1 <= Done'
  <2>1. nth \notin Ended
    BY <1>1 DEF Ended, Waiting
  <2>2. nth \in Ended'
    <3> SUFFICES ASSUME NEW c \in Bumps, bump'[c].step \in Waiting PROVE bump'[c].nth # nth
      BY <1>1, <1>6 DEF Ended
    <3>1. c # b /\ bump'[c] = bump[c]
      BY <1>4 DEF Waiting
    <3>2. bump[c].step # "idle" /\ bump[b].step # "idle"
      BY <1>1, <3>1 DEF Waiting
    <3> QED
      BY <3>1, <3>2 DEF CountInv
  <2>3. Ended \cup {nth} \subseteq Ended'
    BY <1>5, <2>2
  <2>4. Ended \in SUBSET (1 .. bumps) /\ Ended' \in SUBSET (1 .. bumps') /\ bumps \in Nat /\ bumps' = bumps
    BY <1>1, <1>6 DEF Ended
  <2>5. /\ IsFiniteSet(Ended) /\ Cardinality(Ended) \in Nat
        /\ IsFiniteSet(Ended') /\ Cardinality(Ended') \in Nat
    BY <2>4, SomeOf
  <2>6. IsFiniteSet(Ended \cup {nth}) /\ Cardinality(Ended \cup {nth}) = Cardinality(Ended) + 1
    BY <2>1, <2>5, FS_AddElement
  <2>7. Cardinality(Ended \cup {nth}) <= Cardinality(Ended')
    BY <2>3, <2>5, FS_Subset
  <2> QED
    BY <2>5, <2>6, <2>7 DEF Done
<1>8. Box(Done) \subseteq Box(Done')
  <2>1. Done <= Done'
    BY <1>7
  <2> QED
    BY <1>7, <2>1, BoxHolds
<1>9. v \in Box(Done')
  <2> DEFINE l == bump[b].latest
  <2>1. l[1] \in 0 .. Done /\ l[2] \in 0 .. Done /\ l[3] \in 0 .. Done
    BY <1>1 DEF Box
  <2>2. \A i \in 0 .. Done : i \in 0 .. Done' /\ i + 1 \in 0 .. Done'
    BY <1>7
  <2>3. 0 \in 0 .. Done'
    BY <1>7
  <2>4. v \in {<<l[1] + 1, 0, 0>>, <<l[1], l[2] + 1, 0>>, <<l[1], l[2], l[3] + 1>>}
    BY BumpAssumption DEF NextVersion
  <2> HIDE DEF v, l
  <2> QED
    BY <2>1, <2>2, <2>3, <2>4 DEF Box
<1>10. x \in Tagged
  <2>1. /\ clone[m].head \in Nat /\ clone[m].tracked \in Nat /\ origin.tip \in Nat
        /\ clone[m].head <= origin.tip /\ clone[m].tracked <= origin.tip
    BY <1>0, <1>1 DEF BumpTyped, Clones, TipInv
  <2>2. Commit(b) \in {clone[m].head, clone[m].tracked}
    BY DEF Commit, Ours
  <2>3. origin.tip <= MaxTip /\ MaxTip \in Nat
    BY BumpAssumption DEF CountInv
  <2>4. Commit(b) \in 0 .. MaxTip
    BY <2>1, <2>2, <2>3
  <2>5. nth \in 1 .. MaxBumps
    BY <1>6
  <2> QED
    BY <2>4, <2>5 DEF Tagged
<1>11. \A k \in Machines : \A w \in DOMAIN clone'[k].tags : w \in Box(Done') /\ clone'[k].tags[w] \in Tagged
  <2>1. \A k \in Machines : \A w \in DOMAIN clone[k].tags : w \in Box(Done') /\ clone[k].tags[w] \in Tagged
    BY <1>8, SizesAre
  <2>2. \A w \in DOMAIN tags : w \in Box(Done') /\ tags[w] \in Tagged
    <3> HIDE DEF v, x
    <3> QED
      BY <1>1, <1>9, <1>10, <2>1
  <2>3. CASE UNCHANGED clone
    BY <2>1, <2>3
  <2>4. CASE clone' = [clone EXCEPT ![m].tags = tags]
    <3> HIDE DEF tags
    <3>1. clone'[m].tags = tags /\ \A k \in Machines \ {m} : clone'[k] = clone[k]
      BY <1>0, <1>1, <2>4, OneTable
    <3> QED
      BY <2>1, <2>2, <3>1
  <2> QED
    BY <1>3, <2>3, <2>4
<1>12. SizeInv'
  <2>1. \A w \in DOMAIN origin'.tags : w \in Box(Done') /\ origin'.tags[w] \in Tagged
    BY <1>1, <1>8, SizesAre
  <2>2. \A c \in Bumps : bump'[c].step = "tag" => bump'[c].latest \in Box(Done')
    BY <1>4, <1>8, SizesAre
  <2>3. /\ DOMAIN origin'.tags \subseteq Box(Done')
        /\ \A k \in Machines : DOMAIN clone'[k].tags \subseteq Box(Done')
    BY <1>11, <2>1
  <2> QED
    BY <1>11, <2>1, <2>2, <2>3 DEF SizeInv
<1> QED
  BY <1>5, <1>12

\* What goes on around the bumps brings no tag.
LEMMA AroundCounts ==
    ASSUME BumpInv, CountInv, SizeInv,
           Advance \/ \E m \in Machines : Pull(m, "head") \/ Pull(m, "main") \/ DeleteTag(m)
    PROVE  CountInv' /\ SizeInv'
<1>0. BumpTyped
  BY DEF BumpInv
<1>1. UNCHANGED <<bump, bumps>> /\ origin'.tags = origin.tags /\ origin'.tip \in 0 .. MaxTip
  <2>1. origin.tip \in 0 .. MaxTip /\ MaxTip \in Nat
    BY BumpAssumption DEF CountInv
  <2>2. CASE Advance
    <3>1. /\ origin.tip < MaxTip /\ origin'.tip = origin.tip + 1 /\ origin'.tags = origin.tags
          /\ UNCHANGED <<bump, bumps>>
      BY <1>0, <2>2 DEF Advance, BumpTyped
    <3> QED
      BY <2>1, <3>1
  <2>3. CASE \E m \in Machines : Pull(m, "head") \/ Pull(m, "main") \/ DeleteTag(m)
    BY <2>1, <2>3 DEF Pull, DeleteTag
  <2> QED
    BY <2>2, <2>3
<1>2. CountInv' /\ Ended \subseteq Ended'
  <2>1. Ended' = Ended
    BY <1>1 DEF Ended
  <2> QED
    BY <1>1, <2>1 DEF CountInv
<1>3. \A k \in Machines : \A v \in DOMAIN clone'[k].tags : v \in Box(Done) /\ clone'[k].tags[v] \in Tagged
  <2>1. CASE Advance
    BY <2>1, SizesAre DEF Advance
  <2>2. ASSUME NEW m \in Machines, Pull(m, "head") \/ Pull(m, "main")
        PROVE  \A k \in Machines : clone'[k].tags = clone[k].tags
    BY <2>2, PullStep
  <2>3. ASSUME NEW m \in Machines, DeleteTag(m)
        PROVE  \A k \in Machines : \A v \in DOMAIN clone'[k].tags :
                 v \in DOMAIN clone[k].tags /\ clone'[k].tags[v] = clone[k].tags[v]
    <3>1. PICK u \in DOMAIN clone[m].tags :
            clone' = [clone EXCEPT ![m].tags = [w \in DOMAIN @ \ {u} |-> @[w]]]
      BY <2>3 DEF DeleteTag
    <3> DEFINE tags == [w \in DOMAIN clone[m].tags \ {u} |-> clone[m].tags[w]]
    <3>2. clone' = [clone EXCEPT ![m].tags = tags]
      BY <1>0, <3>1 DEF BumpTyped, Clones
    <3>3. \A v \in DOMAIN tags : v \in DOMAIN clone[m].tags /\ tags[v] = clone[m].tags[v]
      OBVIOUS
    <3> HIDE DEF tags
    <3>4. clone'[m].tags = tags /\ \A k \in Machines \ {m} : clone'[k] = clone[k]
      BY <1>0, <3>2, OneTable
    <3> QED
      BY <3>3, <3>4
  <2> QED
    BY <2>1, <2>2, <2>3, SizesAre
<1>4. /\ \A v \in DOMAIN origin'.tags : v \in Box(Done) /\ origin'.tags[v] \in Tagged
      /\ \A b \in Bumps : bump'[b].step = "tag" => bump'[b].latest \in Box(Done)
  BY <1>1, SizesAre
<1> QED
  BY <1>2, <1>3, <1>4, SizesKeep

\* Versions, commits and numbers of bumps stay within their bounds.
LEMMA BumpTypes == BumpSpec => []BumpTypeOK
<1>1. BumpInit => CountInv /\ SizeInv
  <2> SUFFICES ASSUME BumpInit PROVE CountInv /\ SizeInv
    OBVIOUS
  <2>1. /\ origin.tip = 0 /\ DOMAIN origin.tags = {} /\ bumps = 0
        /\ \A m \in Machines : DOMAIN clone[m].tags = {}
        /\ \A b \in Bumps : bump[b].step = "idle"
    BY NoBumpIdle DEF BumpInit
  <2>2. CountInv
    BY <2>1, BumpAssumption DEF CountInv
  <2> QED
    BY <2>1, <2>2 DEF SizeInv
<1>2. BumpInv /\ CountInv /\ SizeInv /\ [BumpNext]_bumpVars => (CountInv /\ SizeInv)'
  <2> SUFFICES ASSUME BumpInv, CountInv, SizeInv, [BumpNext]_bumpVars PROVE (CountInv /\ SizeInv)'
    OBVIOUS
  <2>1. CASE UNCHANGED bumpVars
    <3>1. UNCHANGED <<origin, clone, bump, bumps>>
      BY <2>1 DEF bumpVars
    <3>2. Done' = Done
      BY <3>1 DEF Done, Ended
    <3> QED
      BY <3>1, <3>2 DEF CountInv, SizeInv
  <2> QED
    BY <2>1, StartCounts, FetchCounts, LookCounts, TagCounts, PushCounts, AroundCounts DEF BumpNext
<1>3. BumpInv /\ CountInv /\ SizeInv => BumpTypeOK
  <2> SUFFICES ASSUME BumpInv, CountInv, SizeInv PROVE BumpTypeOK
    OBVIOUS
  <2>1. Done \in Nat /\ bumps \in Nat /\ Done <= bumps /\ bumps <= MaxBumps /\ MaxBumps \in Nat
    <3>1. bumps \in 0 .. MaxBumps /\ MaxBumps \in Nat /\ Ended \in SUBSET (1 .. bumps)
      BY BumpAssumption DEF CountInv, Ended
    <3>2. bumps \in Nat
      BY <3>1
    <3> QED
      BY <3>1, <3>2, SomeOf DEF Done
  <2>2. Box(Done) \subseteq TagVersions
    <3>1. Done <= MaxBumps
      BY <2>1
    <3> QED
      BY <2>1, <3>1, BoxHolds DEF Box, TagVersions
  <2>3. \A m \in Machines : clone[m].tracked \in 0 .. MaxTip
    <3> SUFFICES ASSUME NEW m \in Machines PROVE clone[m].tracked \in 0 .. MaxTip
      OBVIOUS
    <3>1. clone[m].tracked \in Nat /\ clone[m].tracked <= origin.tip /\ origin.tip \in 0 .. MaxTip
      BY DEF BumpInv, BumpTyped, Clones, TipInv, CountInv
    <3> QED
      BY <3>1, BumpAssumption
  <2> QED
    BY <2>2, <2>3 DEF BumpTypeOK, Tags, SizeInv, CountInv, Tagged
<1> QED
  BY <1>1, <1>2, <1>3, BumpStarts, BumpInductive, PTL DEF BumpSpec

(* The composition: a step of the whole is a step of each component or leaves it alone. *)

\* The components that move one at a time keep their types, and the stacks of the branch
\* cover it, for all values of the constants of each.
THEOREM ComponentsTypesCorrect == ComponentsSpec => []ComponentsTypeOK
<1>0. ComponentsInit =>
        /\ ImportInit /\ CacheInit /\ SetupInit /\ StacksInit /\ NamesInit
        /\ BumpInit /\ AutoInit /\ FilesInit
  BY DEF ComponentsInit
<1>1. ComponentsSpec => []ImportTypeOK
  <2>1. [ComponentsNext]_vars => [ImportNext]_importVars
    BY DEF ComponentsNext, vars
  <2> QED
    BY <1>0, <2>1, ImportTypes, PTL DEF ComponentsSpec, ImportSpec
<1>2. ComponentsSpec => []CacheTypeOK
  <2>1. [ComponentsNext]_vars => [CacheNext]_cacheVars
    BY DEF ComponentsNext, vars
  <2> QED
    BY <1>0, <2>1, CacheTypes, PTL DEF ComponentsSpec, CacheSpec
<1>3. ComponentsSpec => []SetupTypeOK
  <2>1. [ComponentsNext]_vars => [SetupNext]_setupVars
    BY DEF ComponentsNext, vars
  <2> QED
    BY <1>0, <2>1, SetupTypes, PTL DEF ComponentsSpec, SetupSpec
<1>4. ComponentsSpec => []StacksTypeOK
  <2>1. [ComponentsNext]_vars => [StacksNext]_branch
    BY DEF ComponentsNext, vars
  <2> QED
    BY <1>0, <2>1, StacksTypes, PTL DEF ComponentsSpec, StacksSpec
<1>5. ComponentsSpec => []NamesTypeOK
  <2>1. [ComponentsNext]_vars => [NamesNext]_nameVars
    BY DEF ComponentsNext, vars
  <2> QED
    BY <1>0, <2>1, NamesTyped, PTL DEF ComponentsSpec, NamesSpec
<1>6. ComponentsSpec => []BumpTypeOK
  <2>1. [ComponentsNext]_vars => [BumpNext]_bumpVars
    BY DEF ComponentsNext, vars
  <2> QED
    BY <1>0, <2>1, BumpTypes, PTL DEF ComponentsSpec, BumpSpec
<1>7. ComponentsSpec => []AutoTypeOK
  <2>1. [ComponentsNext]_vars => [AutoNext]_autoVars
    BY DEF ComponentsNext, vars
  <2> QED
    BY <1>0, <2>1, AutoTypes, PTL DEF ComponentsSpec, AutoSpec
<1>8. ComponentsSpec => []FilesTypeOK
  <2>1. [ComponentsNext]_vars => [FilesNext]_fileVars
    BY DEF ComponentsNext, vars
  <2> QED
    BY <1>0, <2>1, FilesTypes, PTL DEF ComponentsSpec, FilesSpec
<1>9. /\ ImportTypeOK /\ CacheTypeOK /\ SetupTypeOK /\ StacksTypeOK /\ NamesTypeOK
      /\ BumpTypeOK /\ AutoTypeOK /\ FilesTypeOK
      => ComponentsTypeOK
  BY DEF ComponentsTypeOK
<1> QED
  BY <1>1, <1>2, <1>3, <1>4, <1>5, <1>6, <1>7, <1>8, <1>9, PTL
=============================================================================

------------------------- MODULE ComponentsProofs --------------------------
(***************************************************************************)
(* Proofs about components that share no state with the others: the        *)
(* choices of the setup prompts (SetupChoices), the tag bump (BumpTag),    *)
(* the history under any sequence of commands (MCReviewHistory), the       *)
(* assessment by a model (AutoReview), the stacks of a branch              *)
(* (CommitStacks) and the review of files (FileReview), for every number   *)
(* of processes, machines, tags, attempts, items, calls, commits and       *)
(* sessions.                                                               *)
(***************************************************************************)
EXTENDS SetupChoices, BumpTag, AutoReview, MCReviewHistory, CommitStacks, FileReview,
        ReviewHistoryProofs, FiniteSetTheorems, SequenceTheorems, WellFoundedInduction, TLAPS

(* The choices of the setup prompts *)

\* The types of the variables of the setup.
Job == [op : {"none", "create", "config"}, feature : Features, read : [Features -> Answers],
        late : SUBSET Features, owner : Owners, asked : Nat, own : BOOLEAN,
        step : {"idle", "load", "encode", "read", "decide", "owned", "prompt", "run"}]

SettingsFile == [there : BOOLEAN, choice : [Features -> Answers]]
Identities == [login : Owners \cup {""}, fetched : Nat]

SetupTyped ==
    /\ settings \in SettingsFile /\ identity \in Identities
    /\ account \in Owners /\ leftAt \in [Owners -> Nat] /\ time \in Nat
    /\ setup \in [Setups -> Job]

\* What the cache says of an account that the user has left was true before they left;
\* a process that has asked the cache asked it before the identity was too old.
IdentityInv ==
    /\ identity.login # "" =>
         /\ identity.fetched <= time
         /\ identity.login # account => identity.fetched <= leftAt[identity.login]
    /\ \A o \in Owners : leftAt[o] <= time
    /\ \A p \in Setups :
         setup[p].step \in {"prompt", "run"} =>
           /\ setup[p].asked <= time /\ Lifetime > 0
           /\ setup[p].owner # account => setup[p].asked < leftAt[setup[p].owner] + Lifetime

\* A missing file has no choices, neither has one whose creator still writes it; what a
\* process has read is outdated only where it is late.
ChoicesInv ==
    /\ ~settings.there => settings.choice = Unset
    /\ \A p \in Setups :
         /\ setup[p].step = "encode" /\ setup[p].own => settings.choice = Unset
         /\ setup[p].step \in {"decide", "owned", "prompt"} => Overwritten(p) \subseteq setup[p].late

\* Settings without a choice.
LEMMA UnsetTyped == Unset \in [Features -> Answers]
  BY DEF Unset, Features, Answers

\* A process that sets nothing up.
LEMMA NoSetupTyped == NoSetup \in Job /\ NoSetup.step = "idle" /\ NoSetup.op = "none"
  BY UnsetTyped, SetupAssumption DEF NoSetup, Job, Features

\* The job of a process that is done with one feature.
LEMMA AfterFeatureTyped ==
    ASSUME NEW j \in Job
    PROVE  AfterFeature(j) \in Job /\ AfterFeature(j).step \in {"idle", "load"}
<1>1. CASE j.op = "create" /\ j.feature = "mise"
  <2> DEFINE k == [NoSetup EXCEPT !.op = "create", !.step = "load", !.feature = "hk", !.owner = j.owner]
  <2>1. k \in Job /\ k.step = "load"
    BY NoSetupTyped DEF Job, Features
  <2> QED
    BY <1>1, <2>1 DEF AfterFeature
<1>2. CASE ~(j.op = "create" /\ j.feature = "mise")
  BY <1>2, NoSetupTyped DEF AfterFeature
<1> QED
  BY <1>1, <1>2

\* What a step of one process can do to it.
SetsJob(p, j) == setup' = [setup EXCEPT ![p] = j]

\* A saved choice, and the steps of the process that saved it.
LEMMA SaveSteps ==
    ASSUME SetupTyped, NEW p \in Setups, NEW f \in Features, NEW answer \in {"yes", "no"},
           Save(p, f, answer), setup[p].step \in {"decide", "prompt"}
    PROVE  /\ settings' = [there |-> TRUE, choice |-> [setup[p].read EXCEPT ![f] = answer]]
           /\ settings' \in SettingsFile
           /\ setup' \in [Setups -> Job]
           /\ \A q \in Setups \ {p} :
                /\ ~setup'[q].own /\ setup'[q].step = setup[q].step
                /\ setup'[q].read = setup[q].read
                /\ setup'[q].late = setup[q].late \cup {f} \cup Overwritten(p)
                /\ setup'[q].owner = setup[q].owner /\ setup'[q].asked = setup[q].asked
           /\ \/ setup'[p].step \in {"idle", "load"}
              \/ /\ setup'[p].step = "run"
                 /\ setup'[p].owner = setup[p].owner /\ setup'[p].asked = setup[p].asked
<1> USE DEF SetupTyped, SettingsFile
<1>1. settings' = [there |-> TRUE, choice |-> [setup[p].read EXCEPT ![f] = answer]]
  BY DEF Save
<1>2. [setup[p].read EXCEPT ![f] = answer] \in [Features -> Answers]
  BY DEF Job, Answers
<1>3. ASSUME NEW q \in Setups \ {p}
      PROVE  /\ setup'[q] \in Job
             /\ ~setup'[q].own /\ setup'[q].step = setup[q].step
             /\ setup'[q].read = setup[q].read
             /\ setup'[q].late = setup[q].late \cup {f} \cup Overwritten(p)
             /\ setup'[q].owner = setup[q].owner /\ setup'[q].asked = setup[q].asked
  <2>1. setup'[q] = [setup[q] EXCEPT !.own = FALSE, !.late = @ \cup {f} \cup Overwritten(p)]
    BY DEF Save
  <2> DEFINE l == setup[q].late \cup {f} \cup Overwritten(p)
  <2>2. l \in SUBSET Features /\ setup[q] \in Job
    BY DEF Overwritten, Job
  <2>3. setup'[q] = [setup[q] EXCEPT !.own = FALSE, !.late = l]
    BY <2>1, <2>2 DEF Job
  <2> HIDE DEF l
  <2>4. /\ setup'[q] \in Job
        /\ setup'[q].own = FALSE /\ setup'[q].step = setup[q].step
        /\ setup'[q].read = setup[q].read /\ setup'[q].late = l
        /\ setup'[q].owner = setup[q].owner /\ setup'[q].asked = setup[q].asked
    BY <2>2, <2>3 DEF Job
  <2> QED
    BY <2>4 DEF l
<1>4. /\ setup'[p] \in Job
      /\ \/ setup'[p].step \in {"idle", "load"}
         \/ /\ setup'[p].step = "run"
            /\ setup'[p].owner = setup[p].owner /\ setup'[p].asked = setup[p].asked
  <2>1. CASE setup[p].op = "create" /\ answer = "yes"
    <3>1. setup'[p] = [setup[p] EXCEPT !.step = "run"]
      BY <2>1 DEF Save
    <3> QED
      BY <3>1 DEF Job
  <2>2. CASE ~(setup[p].op = "create" /\ answer = "yes")
    <3>1. setup'[p] = AfterFeature(setup[p])
      BY <2>2 DEF Save
    <3> QED
      BY <3>1, AfterFeatureTyped
  <2> QED
    BY <2>1, <2>2
<1>5. setup' \in [Setups -> Job]
  <2>1. \A q \in Setups : setup'[q] \in Job
    BY <1>3, <1>4
  <2>2. DOMAIN setup' = Setups /\ setup' = [q \in Setups |-> setup'[q]]
    BY DEF Save
  <2> QED
    BY <2>1, <2>2
<1> QED
  BY <1>1, <1>2, <1>3, <1>4, <1>5

\* The steps of one process.
SetupStep(p) ==
    \/ StartSetup(p) \/ CreateFile(p) \/ Encode(p) \/ ReadSettings(p)
    \/ SaveFlag(p) \/ Ineligible(p) \/ Eligible(p) \/ OwnedCached(p)
    \/ FetchIdentity(p) \/ FetchIdentityFails(p) \/ Answer(p) \/ Run(p) \/ KillSetup(p)

\* A process that saves.
Saves(p) == \E f \in Features, answer \in {"yes", "no"} :
                Save(p, f, answer) /\ (setup[p].op = "config" \/ setup[p].feature = f)

\* A step that changes the settings creates or writes the file.
LEMMA SavingStep ==
    ASSUME NEW p \in Setups, SaveFlag(p) \/ Answer(p), setup[p] \in Job
    PROVE  /\ Saves(p) /\ setup[p].step \in {"decide", "prompt"}
           /\ UNCHANGED <<identity, account, leftAt, time>>
<1>1. CASE SaveFlag(p)
  BY <1>1 DEF SaveFlag, Saves, Stands
<1>2. CASE Answer(p)
  <2>1. setup[p].feature \in Features
    BY DEF Job
  <2> QED
    BY <1>2, <2>1 DEF Answer, Saves, Stands
<1> QED
  BY <1>1, <1>2

\* The other steps of a process change its own job.
LEMMA JobStep ==
    ASSUME SetupTyped, NEW p \in Setups, SetupStep(p), ~SaveFlag(p), ~Answer(p)
    PROVE  /\ UNCHANGED <<account, leftAt, time>>
           /\ \E j \in Job :
                /\ setup' = [setup EXCEPT ![p] = j]
                /\ j.step \in {"prompt", "run"}
                     => OwnedCached(p) /\ j.owner = setup[p].owner /\ j.asked = time
                /\ j.step \in {"decide", "owned", "prompt"}
                     => \/ j.read = settings.choice
                        \/ /\ setup[p].step \in {"decide", "owned", "prompt"}
                           /\ j.read = setup[p].read /\ j.late = setup[p].late
                /\ j.step = "encode" => CreateFile(p)
<1> USE DEF SetupTyped, SettingsFile
<1>0. setup[p] \in Job /\ time \in Nat
  OBVIOUS
<1>1. CASE StartSetup(p)
  <2>1. PICK o \in Owners, op \in {"create", "config"} :
          setup' = [setup EXCEPT ![p] = [NoSetup EXCEPT !.op = op, !.step = "load", !.owner = o]]
    BY <1>1 DEF StartSetup
  <2> DEFINE j == [NoSetup EXCEPT !.op = op, !.step = "load", !.owner = o]
  <2>2. j \in Job /\ j.step = "load"
    BY NoSetupTyped DEF Job
  <2> HIDE DEF j
  <2>3. UNCHANGED <<account, leftAt, time>>
    BY <1>1 DEF StartSetup
  <2> QED
    BY <2>1, <2>2, <2>3 DEF j
<1>2. CASE CreateFile(p)
  <2> DEFINE j == [setup[p] EXCEPT !.step = "encode", !.own = TRUE]
  <2>1. setup' = [setup EXCEPT ![p] = j] /\ UNCHANGED <<account, leftAt, time>>
    BY <1>2 DEF CreateFile
  <2>2. j \in Job /\ j.step = "encode"
    BY <1>0 DEF Job
  <2> HIDE DEF j
  <2> QED
    BY <1>2, <2>1, <2>2
<1>3. CASE Encode(p)
  <2> DEFINE j == [setup[p] EXCEPT !.step = "read"]
  <2>1. setup' = [setup EXCEPT ![p] = j] /\ UNCHANGED <<account, leftAt, time>>
    BY <1>3 DEF Encode, Proceed
  <2>2. j \in Job /\ j.step = "read"
    BY <1>0 DEF Job
  <2> HIDE DEF j
  <2> QED
    BY <2>1, <2>2
<1>4. CASE ReadSettings(p)
  <2> DEFINE j == [setup[p] EXCEPT !.step = "decide", !.read = settings.choice, !.late = {}]
  <2>1. setup' = [setup EXCEPT ![p] = j] /\ UNCHANGED <<account, leftAt, time>>
    BY <1>4 DEF ReadSettings, OnlySetup
  <2>2. j \in Job /\ j.step = "decide" /\ j.read = settings.choice
    BY <1>0 DEF Job
  <2> HIDE DEF j
  <2> QED
    BY <2>1, <2>2
<1>5. CASE Eligible(p)
  <2> DEFINE j == [setup[p] EXCEPT !.step = "owned"]
  <2>1. /\ setup' = [setup EXCEPT ![p] = j] /\ UNCHANGED <<account, leftAt, time>>
        /\ setup[p].step = "decide"
    BY <1>5 DEF Eligible, OnlySetup, Proceed, Stands
  <2>2. j \in Job /\ j.step = "owned" /\ j.read = setup[p].read /\ j.late = setup[p].late
    BY <1>0 DEF Job
  <2> HIDE DEF j
  <2> QED
    BY <2>1, <2>2
<1>6. ASSUME NextFeature(p), UNCHANGED <<account, leftAt, time>>
      PROVE  \E j \in Job : setup' = [setup EXCEPT ![p] = j] /\ j.step \in {"idle", "load"}
  BY <1>0, <1>6, AfterFeatureTyped DEF NextFeature
<1>7. CASE Ineligible(p) \/ FetchIdentityFails(p) \/ Run(p)
  BY <1>6, <1>7 DEF Ineligible, FetchIdentityFails, Run, OnlySetup
<1>8. CASE OwnedCached(p)
  <2>1. UNCHANGED <<account, leftAt, time>> /\ setup[p].step = "owned"
    BY <1>8 DEF OwnedCached, OnlySetup, Stands
  <2>2. CASE NextFeature(p)
    BY <1>6, <2>1, <2>2
  <2>3. CASE ~NextFeature(p)
    <3>1. PICK step \in {"run", "prompt"} :
            setup' = [setup EXCEPT ![p].asked = time, ![p].step = step]
      BY <1>8, <2>3 DEF OwnedCached
    <3> DEFINE j == [setup[p] EXCEPT !.asked = time, !.step = step]
    <3>2. setup' = [setup EXCEPT ![p] = j]
      BY <3>1
    <3>3. /\ j \in Job /\ j.step = step /\ j.owner = setup[p].owner /\ j.asked = time
          /\ j.read = setup[p].read /\ j.late = setup[p].late
      BY <1>0 DEF Job
    <3> HIDE DEF j
    <3> QED
      BY <1>8, <2>1, <3>2, <3>3
  <2> QED
    BY <2>2, <2>3
<1>9. CASE FetchIdentity(p)
  <2>1. /\ setup' = [setup EXCEPT ![p] = setup[p]] /\ UNCHANGED <<account, leftAt, time>>
        /\ setup[p].step = "owned"
    BY <1>9 DEF FetchIdentity, Stands
  <2> QED
    BY <1>0, <2>1
<1>10. CASE KillSetup(p)
  BY <1>10, NoSetupTyped DEF KillSetup, OnlySetup
<1> QED
  BY <1>1, <1>2, <1>3, <1>4, <1>5, <1>7, <1>8, <1>9, <1>10 DEF SetupStep

\* A step that changes no settings.
LEMMA SettingsKept ==
    ASSUME NEW p \in Setups, SetupStep(p), ~SaveFlag(p), ~Answer(p), ~CreateFile(p), ~Encode(p)
    PROVE  settings' = settings
BY DEF SetupStep, StartSetup, ReadSettings, Ineligible, Eligible, OwnedCached, FetchIdentity,
       FetchIdentityFails, Run, KillSetup, OnlySetup

\* Every step keeps the types.
LEMMA TypedStep == SetupTyped /\ [SetupNext]_setupVars => SetupTyped'
<1> SUFFICES ASSUME SetupTyped, [SetupNext]_setupVars PROVE SetupTyped'
  OBVIOUS
<1> USE DEF SetupTyped
<1>1. CASE SwitchAccount \/ Elapse \/ UNCHANGED setupVars
  BY <1>1 DEF SwitchAccount, Elapse, setupVars
<1>2. CASE RemoveIdentity
  <2>1. [login |-> "", fetched |-> 0] \in Identities
    BY DEF Identities
  <2> QED
    BY <1>2, <2>1 DEF RemoveIdentity
<1>3. ASSUME NEW p \in Setups, SetupStep(p) PROVE SetupTyped'
  <2>0. setup[p] \in Job
    OBVIOUS
  <2>1. CASE SaveFlag(p) \/ Answer(p)
    <3>1. PICK f \in Features, answer \in {"yes", "no"} : Save(p, f, answer)
      BY <2>0, <2>1, SavingStep DEF Saves
    <3>2. setup[p].step \in {"decide", "prompt"} /\ UNCHANGED <<identity, account, leftAt, time>>
      BY <2>0, <2>1, SavingStep
    <3>3. settings' \in SettingsFile /\ setup' \in [Setups -> Job]
      BY <3>1, <3>2, SaveSteps
    <3> QED
      BY <3>2, <3>3
  <2>2. CASE ~SaveFlag(p) /\ ~Answer(p)
    <3>1. /\ UNCHANGED <<account, leftAt, time>>
          /\ \E j \in Job : setup' = [setup EXCEPT ![p] = j]
      BY <1>3, <2>2, JobStep
    <3>2. identity' = identity \/ identity' = [login |-> account, fetched |-> time]
      BY <1>3, <2>2 DEF SetupStep, StartSetup, CreateFile, Encode, ReadSettings, Ineligible,
                        Eligible, OwnedCached, FetchIdentity, FetchIdentityFails, Run, KillSetup,
                        OnlySetup
    <3>3. identity' \in Identities
      <4>1. [login |-> account, fetched |-> time] \in Identities
        BY DEF Identities
      <4> QED
        BY <3>2, <4>1
    <3>4. [there |-> TRUE, choice |-> Unset] \in SettingsFile
      BY UnsetTyped DEF SettingsFile
    <3>5. settings' = settings \/ settings' = [there |-> TRUE, choice |-> Unset]
      <4>1. CASE CreateFile(p)
        BY <4>1 DEF CreateFile
      <4>2. CASE Encode(p)
        BY <4>2 DEF Encode
      <4> QED
        BY <1>3, <2>2, <4>1, <4>2, SettingsKept
    <3> QED
      BY <3>1, <3>3, <3>4, <3>5
  <2> QED
    BY <2>1, <2>2
<1> QED
  BY <1>1, <1>2, <1>3 DEF SetupNext, SetupStep

\* An identity that is not too old expires a lifetime after it was fetched.
LEMMA Fresh ==
    ASSUME NEW t \in Nat, NEW f \in Nat, NEW life \in Nat, f <= t, t - f < life
    PROVE  life > 0 /\ \A l \in Nat : f <= l => t < l + life
OBVIOUS

\* Every step keeps the invariant of the identity.
LEMMA IdentityStep ==
    ASSUME SetupTyped, IdentityInv, [SetupNext]_setupVars
    PROVE  IdentityInv'
<1> USE DEF SetupTyped
<1>0. Lifetime \in Nat /\ time \in Nat /\ \A p \in Setups : setup[p] \in Job
  BY SetupAssumption
<1>a. identity.login # "" =>
        /\ identity.fetched <= time
        /\ identity.login # account => identity.fetched <= leftAt[identity.login]
  BY DEF IdentityInv
<1>b. \A o \in Owners : leftAt[o] <= time
  BY DEF IdentityInv
<1>c. \A p \in Setups :
        setup[p].step \in {"prompt", "run"} =>
          /\ setup[p].asked <= time /\ Lifetime > 0
          /\ setup[p].owner # account => setup[p].asked < leftAt[setup[p].owner] + Lifetime
  BY DEF IdentityInv
<1>1. CASE UNCHANGED setupVars
  BY <1>1 DEF setupVars, IdentityInv
<1>2. CASE SwitchAccount
  <2>1. /\ account' # account /\ leftAt' = [leftAt EXCEPT ![account] = time]
        /\ UNCHANGED <<identity, time, setup>>
    BY <1>2 DEF SwitchAccount
  <2>2. leftAt'[account] = time /\ \A o \in Owners \ {account} : leftAt'[o] = leftAt[o]
    BY <2>1
  <2>3. identity.login # "" => identity.login \in Owners
    BY DEF Identities
  <2>4. \A p \in Setups : setup[p].owner \in Owners /\ setup[p].asked \in Nat
    BY <1>0 DEF Job
  <2>5. ASSUME NEW p \in Setups, setup[p].step \in {"prompt", "run"}, setup[p].owner # account'
        PROVE  setup[p].asked < leftAt'[setup[p].owner] + Lifetime
    <3>1. CASE setup[p].owner = account
      <4>1. leftAt'[setup[p].owner] = time
        BY <2>2, <3>1
      <4>2. setup[p].asked <= time /\ setup[p].asked \in Nat /\ Lifetime > 0
        BY <1>c, <2>4, <2>5
      <4> QED
        BY <1>0, <4>1, <4>2
    <3>2. CASE setup[p].owner # account
      BY <1>c, <2>2, <2>4, <2>5, <3>2
    <3> QED
      BY <3>1, <3>2
  <2>6. identity.login # "" /\ identity.login # account' => identity.fetched <= leftAt'[identity.login]
    BY <1>a, <2>1, <2>2, <2>3
  <2>7. \A o \in Owners : leftAt'[o] <= time
    BY <1>0, <1>b, <2>2
  <2> QED
    BY <2>1, <2>5, <2>6, <2>7 DEF IdentityInv
<1>3. CASE RemoveIdentity
  BY <1>3 DEF RemoveIdentity, IdentityInv
<1>4. CASE Elapse
  <2>1. time' = time + 1 /\ UNCHANGED <<identity, account, leftAt, setup>>
    BY <1>4 DEF Elapse
  <2>2. identity.fetched \in Nat /\ \A o \in Owners : leftAt[o] \in Nat
    BY DEF Identities
  <2>3. \A p \in Setups : setup[p].asked \in Nat
    BY <1>0 DEF Job
  <2>4. \A n \in Nat : n <= time => n <= time'
    BY <1>0, <2>1
  <2>5. \A o \in Owners : leftAt[o] <= time'
    BY <1>b, <2>2, <2>4
  <2>6. identity.login # "" => identity.fetched <= time'
    BY <1>a, <2>2, <2>4
  <2>7. \A p \in Setups : setup[p].step \in {"prompt", "run"} => setup[p].asked <= time'
    BY <1>c, <2>3, <2>4
  <2> QED
    BY <1>a, <1>c, <2>1, <2>5, <2>6, <2>7 DEF IdentityInv
<1>5. ASSUME NEW p \in Setups, SetupStep(p) PROVE IdentityInv'
  <2>1. CASE SaveFlag(p) \/ Answer(p)
    <3>1. PICK f \in Features, answer \in {"yes", "no"} : Save(p, f, answer)
      BY <1>0, <2>1, SavingStep DEF Saves
    <3>2. setup[p].step \in {"decide", "prompt"} /\ UNCHANGED <<identity, account, leftAt, time>>
      BY <1>0, <2>1, SavingStep
    <3>3. ASSUME NEW q \in Setups, setup'[q].step \in {"prompt", "run"}, q # p
          PROVE  /\ setup[q].step \in {"prompt", "run"}
                 /\ setup'[q].owner = setup[q].owner /\ setup'[q].asked = setup[q].asked
      BY <3>1, <3>2, <3>3, SaveSteps
    <3>4. ASSUME setup'[p].step \in {"prompt", "run"}
          PROVE  /\ setup[p].op = "create"
                 /\ setup'[p].owner = setup[p].owner /\ setup'[p].asked = setup[p].asked
      <4>1. setup[p].op = "create" /\ setup'[p] = [setup[p] EXCEPT !.step = "run"]
        <5>1. AfterFeature(setup[p]).step \in {"idle", "load"}
          BY <1>0, AfterFeatureTyped
        <5> QED
          BY <3>1, <3>4, <5>1 DEF Save
      <4> QED
        BY <1>0, <4>1 DEF Job
    <3>5. setup[p].op = "create" => setup[p].step = "prompt"
      BY <2>1 DEF SaveFlag, Answer, Stands
    <3> QED
      BY <3>2, <3>3, <3>4, <3>5 DEF IdentityInv
  <2>2. CASE ~SaveFlag(p) /\ ~Answer(p)
    <3>1. PICK j \in Job :
            /\ setup' = [setup EXCEPT ![p] = j]
            /\ j.step \in {"prompt", "run"}
                 => OwnedCached(p) /\ j.owner = setup[p].owner /\ j.asked = time
      BY <1>5, <2>2, JobStep
    <3>2. UNCHANGED <<account, leftAt, time>>
      BY <1>5, <2>2, JobStep
    <3>3. setup'[p] = j /\ \A q \in Setups \ {p} : setup'[q] = setup[q]
      BY <3>1
    <3>4. CASE OwnedCached(p) /\ j.step \in {"prompt", "run"}
      <4>1. identity' = identity /\ Valid /\ identity.login = setup[p].owner
        <5>1. CASE identity.login = setup[p].owner
          BY <3>4, <5>1 DEF OwnedCached, OnlySetup
        <5>2. CASE identity.login # setup[p].owner
          <6>1. AfterFeature(setup[p]).step \in {"idle", "load"} /\ NextFeature(p)
            BY <1>0, <3>4, <5>2, AfterFeatureTyped DEF OwnedCached
          <6> QED
            BY <3>3, <3>4, <6>1 DEF NextFeature
        <5> QED
          BY <5>1, <5>2
      <4>2. /\ identity.login # "" /\ time - identity.fetched < Lifetime /\ identity.fetched \in Nat
            /\ identity.login \in Owners
        BY <4>1 DEF Valid, Identities
      <4>3. j.owner = identity.login /\ j.asked = time
        BY <3>1, <3>4, <4>1
      <4>4. identity.fetched <= time
        BY <1>a, <4>2
      <4>5. Lifetime > 0
        BY <1>0, <4>2, <4>4, Fresh
      <4>6. j.owner # account => j.asked < leftAt[j.owner] + Lifetime
        <5> SUFFICES ASSUME j.owner # account PROVE time < leftAt[identity.login] + Lifetime
          BY <4>3
        <5>1. identity.fetched <= leftAt[identity.login]
          BY <1>a, <4>2, <4>3
        <5>2. leftAt[identity.login] \in Nat
          BY <4>2
        <5> QED
          BY <1>0, <4>2, <4>4, <5>1, <5>2, Fresh
      <4>7. /\ j.asked <= time
            /\ j.owner # account' => j.asked < leftAt'[j.owner] + Lifetime
        BY <1>0, <3>2, <4>3, <4>6
      <4>8. /\ identity'.login # "" =>
                 /\ identity'.fetched <= time'
                 /\ identity'.login # account' => identity'.fetched <= leftAt'[identity'.login]
            /\ \A o \in Owners : leftAt'[o] <= time'
        BY <1>a, <1>b, <3>2, <4>1
      <4> QED
        BY <1>c, <3>2, <3>3, <4>5, <4>7, <4>8 DEF IdentityInv
    <3>5. CASE j.step \notin {"prompt", "run"}
      <4>1. identity' = identity \/ identity' = [login |-> account, fetched |-> time]
        BY <1>5, <2>2 DEF SetupStep, StartSetup, CreateFile, Encode, ReadSettings, Ineligible,
                          Eligible, OwnedCached, FetchIdentity, FetchIdentityFails, Run, KillSetup,
                          OnlySetup
      <4>2. identity'.login # "" =>
              /\ identity'.fetched <= time
              /\ identity'.login # account => identity'.fetched <= leftAt[identity'.login]
        <5>1. CASE identity' = identity
          BY <1>a, <5>1
        <5>2. CASE identity' = [login |-> account, fetched |-> time]
          <6>1. identity'.login = account /\ identity'.fetched = time
            BY <5>2
          <6>2. time <= time
            BY <1>0
          <6> QED
            BY <6>1, <6>2, Zenon
        <5> QED
          BY <4>1, <5>1, <5>2
      <4> QED
        BY <3>2, <3>3, <3>5, <4>2 DEF IdentityInv
    <3> QED
      BY <3>1, <3>4, <3>5
  <2> QED
    BY <2>1, <2>2
<1> QED
  BY <1>1, <1>2, <1>3, <1>4, <1>5 DEF SetupNext, SetupStep

\* Every step keeps what the processes know of the choices.
LEMMA ChoicesStep ==
    ASSUME SetupTyped, ChoicesInv, [SetupNext]_setupVars
    PROVE  ChoicesInv'
<1> USE DEF SetupTyped
<1>0. \A p \in Setups : setup[p] \in Job
  OBVIOUS
<1>1. CASE UNCHANGED <<settings, setup>>
  BY <1>1 DEF ChoicesInv, Overwritten
<1>2. ASSUME NEW p \in Setups, SetupStep(p) PROVE ChoicesInv'
  <2>1. CASE SaveFlag(p) \/ Answer(p)
    <3>1. PICK f \in Features, answer \in {"yes", "no"} : Save(p, f, answer)
      BY <1>0, <2>1, SavingStep DEF Saves
    <3>2. setup[p].step \in {"decide", "prompt"}
      BY <1>0, <2>1, SavingStep
    <3>3. settings'.there /\ settings'.choice = [setup[p].read EXCEPT ![f] = answer]
      BY <3>1 DEF Save
    <3>4. setup'[p].step \notin {"encode", "decide", "owned", "prompt"}
      BY <3>1, <3>2, SaveSteps
    <3>5. ASSUME NEW q \in Setups \ {p}
          PROVE  /\ ~setup'[q].own /\ setup'[q].step = setup[q].step
                 /\ setup'[q].read = setup[q].read
                 /\ setup'[q].late = setup[q].late \cup {f} \cup Overwritten(p)
      BY <3>1, <3>2, SaveSteps
    <3>6. ASSUME NEW q \in Setups \ {p}, setup'[q].step \in {"decide", "owned", "prompt"}
          PROVE  Overwritten(q)' \subseteq setup'[q].late
      <4> SUFFICES ASSUME NEW g \in Features, settings'.choice[g] # setup'[q].read[g],
                          g # f, g \notin Overwritten(p)
                   PROVE  g \in setup[q].late
        BY <3>5 DEF Overwritten
      <4>1. setup[p].read \in [Features -> Answers]
        BY <1>0 DEF Job
      <4>2. settings'.choice[g] = settings.choice[g]
        BY <3>3, <4>1 DEF Overwritten
      <4> QED
        BY <3>5, <3>6, <4>2 DEF ChoicesInv, Overwritten
    <3> QED
      BY <3>3, <3>4, <3>5, <3>6 DEF ChoicesInv
  <2>2. CASE ~SaveFlag(p) /\ ~Answer(p)
    <3>1. PICK j \in Job :
            /\ setup' = [setup EXCEPT ![p] = j]
            /\ j.step \in {"decide", "owned", "prompt"}
                 => \/ j.read = settings.choice
                    \/ /\ setup[p].step \in {"decide", "owned", "prompt"}
                       /\ j.read = setup[p].read /\ j.late = setup[p].late
            /\ j.step = "encode" => CreateFile(p)
      BY <1>2, <2>2, JobStep
    <3>2. setup'[p] = j /\ \A q \in Setups \ {p} : setup'[q] = setup[q]
      BY <3>1
    <3>3. settings'.choice = settings.choice /\ (settings'.there \/ ~settings.there)
      <4>1. CASE CreateFile(p)
        BY <4>1 DEF CreateFile, ChoicesInv
      <4>2. CASE Encode(p)
        BY <4>2 DEF Encode, ChoicesInv, Stands
      <4>3. CASE ~CreateFile(p) /\ ~Encode(p)
        BY <1>2, <2>2, <4>3, SettingsKept
      <4> QED
        BY <4>1, <4>2, <4>3
    <3>4. ASSUME NEW q \in Setups, setup'[q].step = "encode", setup'[q].own
          PROVE  settings'.choice = Unset
      BY <3>1, <3>2, <3>3, <3>4 DEF CreateFile, ChoicesInv
    <3>5. ASSUME NEW q \in Setups, setup'[q].step \in {"decide", "owned", "prompt"}
          PROVE  Overwritten(q)' \subseteq setup'[q].late
      BY <3>1, <3>2, <3>3, <3>5 DEF ChoicesInv, Overwritten
    <3>6. ~settings'.there => settings'.choice = Unset
      BY <3>3 DEF ChoicesInv
    <3> QED
      BY <3>4, <3>5, <3>6 DEF ChoicesInv
  <2> QED
    BY <2>1, <2>2
<1>3. CASE SwitchAccount \/ RemoveIdentity \/ Elapse
  BY <1>1, <1>3 DEF SwitchAccount, RemoveIdentity, Elapse
<1> QED
  BY <1>1, <1>2, <1>3 DEF SetupNext, SetupStep, setupVars

\* What changes the settings, and whose choice it changes.
LEMMA OverlapLoses ==
    ASSUME SetupTyped, ChoicesInv, [SetupNext]_setupVars, NEW f \in Features,
           settings.choice[f] # "unset", settings'.choice[f] # settings.choice[f]
    PROVE  \E p \in Setups :
             /\ setup'[p] # setup[p] /\ setup[p].step \in {"decide", "prompt"}
             /\ f \in setup[p].late \/ setup[p].op = "config" \/ setup[p].feature = f
<1> USE DEF SetupTyped
<1>0. \A p \in Setups : setup[p] \in Job
  OBVIOUS
<1>1. PICK p \in Setups : SetupStep(p)
  <2>1. SwitchAccount \/ RemoveIdentity \/ Elapse \/ UNCHANGED setupVars => settings' = settings
    BY DEF SwitchAccount, RemoveIdentity, Elapse, setupVars
  <2> QED
    BY <2>1 DEF SetupNext, SetupStep
<1>2. CASE SaveFlag(p) \/ Answer(p)
  <2>1. PICK g \in Features, answer \in {"yes", "no"} :
          Save(p, g, answer) /\ (setup[p].op = "config" \/ setup[p].feature = g)
    BY <1>0, <1>2, SavingStep DEF Saves
  <2>2. setup[p].step \in {"decide", "prompt"}
    BY <1>0, <1>2, SavingStep
  <2>3. setup'[p] # setup[p]
    BY <2>1, <2>2, SaveSteps
  <2>4. settings'.choice = [setup[p].read EXCEPT ![g] = answer]
    BY <2>1 DEF Save
  <2>5. CASE f = g
    BY <2>1, <2>2, <2>3, <2>5
  <2>6. CASE f # g
    <3>1. setup[p].read \in [Features -> Answers]
      BY <1>0 DEF Job
    <3>2. f \in Overwritten(p)
      BY <2>4, <2>6, <3>1 DEF Overwritten
    <3>3. f \in setup[p].late
      BY <2>2, <3>2 DEF ChoicesInv
    <3> QED
      BY <2>2, <2>3, <3>3
  <2> QED
    BY <2>5, <2>6
<1>3. CASE ~SaveFlag(p) /\ ~Answer(p)
  <2>1. CreateFile(p) \/ Encode(p)
    BY <1>1, <1>3, SettingsKept
  <2>2. settings.choice = Unset
    BY <2>1 DEF CreateFile, Encode, Stands, ChoicesInv
  <2> QED
    BY <2>2 DEF Unset
<1> QED
  BY <1>2, <1>3

\* What every reachable state of the setup satisfies.
SetupInv == SetupTyped /\ IdentityInv /\ ChoicesInv

\* The invariant holds in every reachable state.
LEMMA SetupInvariant == SetupSpec => []SetupInv
<1>1. ASSUME SetupInit PROVE SetupInv
  <2>1. \A p \in Setups : setup[p] = NoSetup
    BY <1>1 DEF SetupInit
  <2>2. SetupTyped
    <3>1. [there |-> FALSE, choice |-> Unset] \in SettingsFile
      BY UnsetTyped DEF SettingsFile
    <3>2. [login |-> FirstOwner, fetched |-> 0] \in Identities
      BY SetupAssumption DEF Identities
    <3> QED
      BY <1>1, <3>1, <3>2, SetupAssumption, NoSetupTyped DEF SetupInit, SetupTyped
  <2>3. IdentityInv
    BY <1>1, <2>1, NoSetupTyped, SetupAssumption DEF SetupInit, IdentityInv
  <2>4. ChoicesInv
    BY <1>1, <2>1, NoSetupTyped DEF SetupInit, ChoicesInv
  <2> QED
    BY <2>2, <2>3, <2>4 DEF SetupInv
<1>2. SetupInv /\ [SetupNext]_setupVars => SetupInv'
  BY TypedStep, IdentityStep, ChoicesStep DEF SetupInv
<1> QED
  BY <1>1, <1>2, PTL DEF SetupSpec

\* For any number of commands and accounts, Timber runs the tools of repositories of an
\* account that the user has left for no longer than the lifetime of the cache.
THEOREM AccountsExpire == SetupSpec => []LeftAccountsExpire
<1>1. SetupInv => LeftAccountsExpire
  BY DEF SetupInv, IdentityInv, LeftAccountsExpire, Stands
<1> QED
  BY <1>1, SetupInvariant, PTL

\* A choice is lost only to a process that had read the file before it was saved, for
\* any number of commands.
THEOREM ChoicesSurvive == SetupSpec => ChoicesAreLostOnlyToOverlap
<1> DEFINE Loses ==
      \A f \in Features :
        settings.choice[f] # "unset" /\ settings'.choice[f] # settings.choice[f]
          => \E p \in Setups :
               /\ setup'[p] # setup[p] /\ setup[p].step \in {"decide", "prompt"}
               /\ \/ f \in setup[p].late
                  \/ setup[p].op = "config"
                  \/ setup[p].feature = f
<1>1. SetupInv /\ [SetupNext]_setupVars => [Loses]_setupVars
  BY OverlapLoses DEF SetupInv
<1> QED
  BY <1>1, SetupInvariant, PTL DEF SetupSpec, ChoicesAreLostOnlyToOverlap
----------------------------------------------------------------------------
(* The tag bump *)

\* Versions, and tags that name them.
Triples == Nat \X Nat \X Nat
TagTables == UNION {[V -> [commit : Nat, nth : Nat]] : V \in SUBSET Triples}

\* A bounded set of naturals that is not empty has a greatest member.
LEMMA MaxPart ==
    ASSUME NEW n \in Nat, NEW S \in SUBSET (0 .. n), S # {}
    PROVE  \E m \in S : \A x \in S : x <= m
<1> DEFINE T == {x + 1 : x \in S}
<1>1. n + 1 \in Nat /\ T \in SUBSET (1 .. n + 1) /\ T # {}
  <2>1. \A x \in S : x + 1 \in 1 .. n + 1
    OBVIOUS
  <2>2. PICK x \in S : TRUE
    OBVIOUS
  <2>3. x + 1 \in T
    OBVIOUS
  <2> QED
    BY <2>1, <2>3
<1>2. PICK y \in T : \A x \in T : x <= y
  <2> HIDE DEF T
  <2> QED
    BY <1>1, BoundedMax
<1>3. PICK m \in S : y = m + 1
  BY <1>2
<1>4. ASSUME NEW x \in S PROVE x <= m
  <2>1. x + 1 <= y
    BY <1>2
  <2> QED
    BY <1>3, <2>1
<1> QED
  BY <1>4

\* Finitely many versions have a newest one, and Highest is it.
LEMMA HighestPicks ==
    ASSUME NEW n \in Nat, NEW V \in SUBSET ((0 .. n) \X (0 .. n) \X (0 .. n)), V # {}
    PROVE  Highest(V) \in V /\ \A w \in V : w = Highest(V) \/ Newer(Highest(V), w)
<1>0. \A v \in V : /\ v[1] \in 0 .. n /\ v[2] \in 0 .. n /\ v[3] \in 0 .. n
                   /\ v = <<v[1], v[2], v[3]>>
  OBVIOUS
<1> DEFINE P1 == {v[1] : v \in V}
<1>1. PICK a \in P1 : \A x \in P1 : x <= a
  <2>1. P1 \in SUBSET (0 .. n) /\ P1 # {}
    BY <1>0
  <2> HIDE DEF P1
  <2> QED
    BY <2>1, MaxPart
<1> DEFINE V1 == {v \in V : v[1] = a}
           P2 == {v[2] : v \in V1}
<1>2. PICK b \in P2 : \A x \in P2 : x <= b
  <2>1. P2 \in SUBSET (0 .. n) /\ P2 # {}
    BY <1>0, <1>1
  <2> HIDE DEF P2
  <2> QED
    BY <2>1, MaxPart
<1> DEFINE V2 == {v \in V1 : v[2] = b}
           P3 == {v[3] : v \in V2}
<1>3. PICK c \in P3 : \A x \in P3 : x <= c
  <2>1. P3 \in SUBSET (0 .. n) /\ P3 # {}
    BY <1>0, <1>2
  <2> HIDE DEF P3
  <2> QED
    BY <2>1, MaxPart
<1>4. PICK h \in V : h[1] = a /\ h[2] = b /\ h[3] = c
  BY <1>3
<1>5. ASSUME NEW w \in V \ {h} PROVE Newer(h, w)
  <2>1. w[1] <= a /\ (w[1] = a => w[2] <= b) /\ (w[1] = a /\ w[2] = b => w[3] <= c)
    BY <1>1, <1>2, <1>3
  <2>2. w[1] # a \/ w[2] # b \/ w[3] # c
    BY <1>0, <1>4
  <2> QED
    BY <1>0, <1>4, <2>1, <2>2 DEF Newer
<1>6. Highest(V) \in V /\ \A w \in V \ {Highest(V)} : Newer(Highest(V), w)
  BY <1>5 DEF Highest
<1> QED
  BY <1>6

\* Versions are ordered, and the next one is newer.
LEMMA NewerOrders ==
    ASSUME NEW u \in Triples, NEW v \in Triples, NEW w \in Triples, Newer(u, v), Newer(v, w)
    PROVE  Newer(u, w)
  BY DEF Triples, Newer

\* The version that a bump makes is newer than the one it found.
LEMMA NextIsNewer ==
    ASSUME NEW v \in Triples, NEW kind \in Kinds
    PROVE  NextVersion(v, kind) \in Triples /\ Newer(NextVersion(v, kind), v)
<1>1. kind \in {"major", "minor", "patch"}
  BY BumpAssumption
<1>2. v[1] \in Nat /\ v[2] \in Nat /\ v[3] \in Nat
  BY DEF Triples
<1>3. NextVersion(v, kind) \in {<<v[1] + 1, 0, 0>>, <<v[1], v[2] + 1, 0>>, <<v[1], v[2], v[3] + 1>>}
  BY <1>1 DEF NextVersion
<1> QED
  BY <1>2, <1>3 DEF Newer, Triples

\* The types of the variables of the bump.
Clones == [head : Nat, main : Nat, tracks : BOOLEAN, tracked : Nat, tags : TagTables]

BumpJob == [step : {"idle", "fetch", "compare", "list", "tag", "push"},
            machine : Machines \cup {""}, target : {"worktree", "default"},
            fetched : Nat, known : SUBSET Triples, series : Int,
            latest : Triples, version : Triples, nth : Nat]

BumpTyped ==
    /\ origin \in [tip : Nat, tags : TagTables]
    /\ clone \in [Machines -> Clones]
    /\ bump \in [Bumps -> BumpJob]
    /\ bumps \in Nat
    /\ \A b \in Bumps : ~BumpAt(b, "idle") => bump[b].machine \in Machines

\* No branch is ahead of the one that it follows.
TipInv == \A m \in Machines : /\ clone[m].head <= origin.tip
                              /\ clone[m].tracked <= origin.tip

\* All tags fit into one box, so that every set of them has a highest.
Box(n) == (0 .. n) \X (0 .. n) \X (0 .. n)
\* The published versions are bounded, so that a highest one exists.
BoxInv == \E n \in Nat : /\ DOMAIN origin.tags \subseteq Box(n)
                         /\ \A m \in Machines : DOMAIN clone[m].tags \subseteq Box(n)

\* What a bump has found out stays true while it runs.
Surpasses(v, b) == \A w \in Selected(bump[b].known, bump[b].series) : v = w \/ Newer(v, w)

\* What a bump knows of the tags at each of its steps.
FreshInv(b) ==
    /\ bump[b].step \in {"compare", "list", "tag", "push"} =>
         /\ bump[b].known \subseteq DOMAIN Ours(b).tags
         /\ bump[b].fetched <= Ours(b).tracked
    /\ bump[b].step \in {"list", "tag", "push"} /\ bump[b].target = "worktree" =>
         bump[b].fetched <= Ours(b).head
    /\ bump[b].step = "tag" => Surpasses(bump[b].latest, b)
    /\ bump[b].step = "push" =>
         /\ bump[b].version \in DOMAIN Ours(b).tags
         /\ bump[b].fetched <= Ours(b).tags[bump[b].version].commit
         /\ \A w \in Selected(bump[b].known, bump[b].series) : Newer(bump[b].version, w)

\* What every reachable state of the bump satisfies.
BumpInv == BumpTyped /\ TipInv /\ BoxInv /\ \A b \in Bumps : FreshInv(b)
-----------------------------------------------------------------------------
\* A table of tags, and what changes of it are tables.
LEMMA TablesAre ==
    /\ \A t \in TagTables : /\ DOMAIN t \subseteq Triples
                            /\ \A v \in DOMAIN t : t[v] \in [commit : Nat, nth : Nat]
    /\ \A V \in SUBSET Triples : [V -> [commit : Nat, nth : Nat]] \subseteq TagTables
  BY DEF TagTables

\* A table with what another has, or with one tag more or less.
LEMMA TablesMerge ==
    ASSUME NEW s \in TagTables, NEW t \in TagTables
    PROVE  [v \in DOMAIN s \cup DOMAIN t |-> IF v \in DOMAIN s THEN s[v] ELSE t[v]] \in TagTables
  BY TablesAre

\* A table with one more tag.
LEMMA TablesAdd ==
    ASSUME NEW t \in TagTables, NEW v \in Triples, NEW x \in [commit : Nat, nth : Nat]
    PROVE  [w \in DOMAIN t \cup {v} |-> IF w = v THEN x ELSE t[w]] \in TagTables
<1>1. \A w \in DOMAIN t : t[w] \in [commit : Nat, nth : Nat]
  BY TablesAre
<1>2. DOMAIN t \cup {v} \in SUBSET Triples
  BY TablesAre
<1>3. [w \in DOMAIN t \cup {v} |-> IF w = v THEN x ELSE t[w]]
         \in [DOMAIN t \cup {v} -> [commit : Nat, nth : Nat]]
  BY <1>1
<1> QED
  BY <1>2, <1>3, TablesAre

\* A table without one of its tags.
LEMMA TablesRemove ==
    ASSUME NEW t \in TagTables, NEW v
    PROVE  [w \in DOMAIN t \ {v} |-> t[w]] \in TagTables
  BY TablesAre

\* A process that bumps nothing.
LEMMA NoBumpIdle == NoBump \in BumpJob /\ NoBump.step = "idle"
  BY DEF NoBump, BumpJob, Triples, Every

\* Every action but a bump's tag and the user's leaves the clones alone, or fetches.
Grows(m) ==
    /\ DOMAIN clone[m].tags \subseteq DOMAIN clone'[m].tags
    /\ \A v \in DOMAIN clone[m].tags : clone'[m].tags[v] = clone[m].tags[v]
    /\ clone[m].tracked <= clone'[m].tracked /\ clone[m].head <= clone'[m].head

\* `git fetch` takes what origin has.
LEMMA FetchedGrows ==
    ASSUME BumpTyped, TipInv, NEW m \in Machines, clone' = Fetched(m), origin' = origin
    PROVE  /\ clone' \in [Machines -> Clones] /\ TipInv' /\ \A k \in Machines : Grows(k)
           /\ clone'[m].tracked = origin.tip
           /\ DOMAIN clone'[m].tags = DOMAIN clone[m].tags \cup DOMAIN origin.tags
           /\ \A k \in Machines \ {m} : clone'[k] = clone[k]
<1> DEFINE tags == [v \in DOMAIN clone[m].tags \cup DOMAIN origin.tags |->
                      IF v \in DOMAIN clone[m].tags THEN clone[m].tags[v] ELSE origin.tags[v]]
           new == [clone[m] EXCEPT !.tracked = origin.tip, !.tags = tags]
<1>1. clone' = [clone EXCEPT ![m] = new]
  BY DEF Fetched, BumpTyped, Clones
<1>2. clone[m] \in Clones /\ clone[m].tags \in TagTables /\ origin.tags \in TagTables /\ origin.tip \in Nat
  BY DEF BumpTyped, Clones
<1>3. tags \in TagTables
  BY <1>2, TablesMerge
<1>4. /\ DOMAIN tags = DOMAIN clone[m].tags \cup DOMAIN origin.tags
      /\ \A v \in DOMAIN clone[m].tags : tags[v] = clone[m].tags[v]
  OBVIOUS
<1> HIDE DEF tags
<1>5. new \in Clones /\ new.tracked = origin.tip /\ new.tags = tags /\ new.head = clone[m].head
  BY <1>2, <1>3 DEF Clones
<1> HIDE DEF new
<1>6. clone' \in [Machines -> Clones] /\ clone'[m] = new /\ \A k \in Machines \ {m} : clone'[k] = clone[k]
  BY <1>1, <1>5 DEF BumpTyped
<1>7. \A k \in Machines : /\ clone[k].head \in Nat /\ clone[k].tracked \in Nat
                          /\ clone[k].tracked <= origin.tip
  BY DEF BumpTyped, Clones, TipInv
<1>8. \A k \in Machines : Grows(k)
  BY <1>2, <1>4, <1>5, <1>6, <1>7 DEF Grows
<1>9. TipInv'
  BY <1>2, <1>5, <1>6, <1>7 DEF TipInv
<1> QED
  BY <1>4, <1>5, <1>6, <1>8, <1>9

\* A bump that is under way holds the tags of its clone: they only become more.
Holds == \A b \in Bumps : ~BumpAt(b, "idle") => Grows(bump[b].machine)

\* What leaves the clones alone shrinks none of them.
LEMMA StandsStill ==
    ASSUME BumpTyped, UNCHANGED clone
    PROVE  \A m \in Machines : Grows(m)
<1>1. \A m \in Machines : clone[m].tracked \in Nat /\ clone[m].head \in Nat
  BY DEF BumpTyped, Clones
<1> QED
  BY <1>1 DEF Grows

\* The job of one process changes.
LEMMA JobTyped ==
    ASSUME BumpTyped, NEW b \in Bumps, NEW job \in BumpJob, bump' = [bump EXCEPT ![b] = job],
           job.step # "idle" => job.machine \in Machines
    PROVE  /\ bump' \in [Bumps -> BumpJob]
           /\ \A c \in Bumps : ~BumpAt(c, "idle")' => bump'[c].machine \in Machines
           /\ bump'[b] = job /\ \A c \in Bumps \ {b} : bump'[c] = bump[c]
  BY DEF BumpTyped, BumpAt

\* The versions of one clone that a pattern selects have a highest.
LEMMA FoundTriples ==
    ASSUME BumpTyped, BoxInv, NEW b \in Bumps, ~BumpAt(b, "idle"), NEW series,
           Selected(DOMAIN Ours(b).tags, series) # {}
    PROVE  LET found == Selected(DOMAIN Ours(b).tags, series)
           IN  /\ Highest(found) \in Triples
               /\ \A w \in found : Highest(found) = w \/ Newer(Highest(found), w)
<1> DEFINE found == Selected(DOMAIN Ours(b).tags, series)
<1>1. found \subseteq DOMAIN Ours(b).tags
  BY DEF Selected
<1>2. PICK n \in Nat : DOMAIN Ours(b).tags \subseteq Box(n)
  BY DEF BoxInv, BumpTyped, Ours
<1>3. found \in SUBSET ((0 .. n) \X (0 .. n) \X (0 .. n)) /\ found # {}
  BY <1>1, <1>2 DEF Box
<1> HIDE DEF found
<1>4. Highest(found) \in found /\ \A w \in found : w = Highest(found) \/ Newer(Highest(found), w)
  BY <1>3, HighestPicks
<1>5. Highest(found) \in Triples
  BY <1>3, <1>4 DEF Triples
<1> QED
  BY <1>4, <1>5 DEF found

\* The steps of one bump: what they make of its job and of its clone.
LEMMA StartBumpStep ==
    ASSUME BumpInv, NEW b \in Bumps, StartBump(b)
    PROVE  /\ BumpTyped' /\ \A m \in Machines : Grows(m)
           /\ bump'[b].step = "fetch" /\ \A c \in Bumps \ {b} : bump'[c] = bump[c]
<1>1. BumpTyped
  BY DEF BumpInv
<1>2. PICK m \in Machines, target \in {"worktree", "default"} :
         bump' = [bump EXCEPT ![b] = [NoBump EXCEPT !.step = "fetch", !.machine = m,
                                                    !.target = target, !.nth = bumps + 1]]
  BY DEF StartBump
<1> DEFINE job == [NoBump EXCEPT !.step = "fetch", !.machine = m, !.target = target, !.nth = bumps + 1]
<1>3. job \in BumpJob /\ job.step = "fetch" /\ job.machine = m
  <2>1. bumps + 1 \in Nat
    BY <1>1 DEF BumpTyped
  <2> QED
    BY <2>1, NoBumpIdle DEF BumpJob
<1>4. bump' = [bump EXCEPT ![b] = job]
  BY <1>2
<1> HIDE DEF job
<1>5. UNCHANGED <<origin, clone>> /\ bumps' = bumps + 1
  BY DEF StartBump
<1>6. /\ bump' \in [Bumps -> BumpJob]
      /\ \A c \in Bumps : ~BumpAt(c, "idle")' => bump'[c].machine \in Machines
      /\ bump'[b] = job /\ \A c \in Bumps \ {b} : bump'[c] = bump[c]
  BY <1>1, <1>3, <1>4, JobTyped
<1>7. \A k \in Machines : Grows(k)
  BY <1>1, <1>5, StandsStill
<1> QED
  BY <1>1, <1>3, <1>5, <1>6, <1>7 DEF BumpTyped

\* A bump ends.
LEMMA EndBumpStep ==
    ASSUME BumpTyped, NEW b \in Bumps, EndBump(b)
    PROVE  /\ bump' \in [Bumps -> BumpJob]
           /\ \A c \in Bumps : ~BumpAt(c, "idle")' => bump'[c].machine \in Machines
           /\ bump'[b].step = "idle" /\ \A c \in Bumps \ {b} : bump'[c] = bump[c]
<1>1. bump' = [bump EXCEPT ![b] = NoBump]
  BY DEF EndBump
<1> QED
  BY <1>1, NoBumpIdle, JobTyped

\* A bump fetches the tags of the remote.
LEMMA FetchTagsStep ==
    ASSUME BumpInv, NEW b \in Bumps, FetchTags(b) \/ FetchTagsFails(b)
    PROVE  /\ BumpTyped' /\ TipInv' /\ \A m \in Machines : Grows(m)
           /\ bump'[b].step = "compare" =>
                /\ bump'[b].known \subseteq DOMAIN Ours(b)'.tags
                /\ bump'[b].fetched <= Ours(b)'.tracked
           /\ bump'[b].step \in {"idle", "compare"} /\ \A c \in Bumps \ {b} : bump'[c] = bump[c]
           /\ \A m \in Machines : DOMAIN clone'[m].tags \subseteq DOMAIN clone[m].tags \cup DOMAIN origin.tags
<1>0. BumpTyped /\ TipInv
  BY DEF BumpInv
<1> DEFINE m == bump[b].machine
<1>1. /\ clone' = Fetched(m) /\ origin' = origin /\ bumps' = bumps /\ m \in Machines
      /\ bump[b].step = "fetch" /\ bump[b] \in BumpJob
  BY <1>0 DEF FetchTags, FetchTagsFails, BumpTyped, BumpAt
<1>2. /\ clone' \in [Machines -> Clones] /\ TipInv' /\ \A k \in Machines : Grows(k)
      /\ clone'[m].tracked = origin.tip
      /\ DOMAIN clone'[m].tags = DOMAIN clone[m].tags \cup DOMAIN origin.tags
      /\ \A k \in Machines \ {m} : clone'[k] = clone[k]
  BY <1>0, <1>1, FetchedGrows
<1>3. CASE FetchTagsFails(b)
  <2>1. EndBump(b)
    BY <1>3 DEF FetchTagsFails
  <2> QED
    BY <1>0, <1>1, <1>2, <2>1, EndBumpStep DEF BumpTyped
<1>4. CASE FetchTags(b)
  <2> DEFINE job == [bump[b] EXCEPT !.step = "compare", !.fetched = origin.tip, !.known = DOMAIN origin.tags]
  <2>1. bump' = [bump EXCEPT ![b] = job]
    BY <1>0, <1>4 DEF FetchTags, BumpTyped
  <2>2. origin.tip \in Nat /\ DOMAIN origin.tags \subseteq Triples
    BY <1>0, TablesAre DEF BumpTyped
  <2>3. /\ job \in BumpJob /\ job.machine = m /\ job.step = "compare"
        /\ job.fetched = origin.tip /\ job.known = DOMAIN origin.tags
    BY <1>1, <2>2 DEF BumpJob
  <2> HIDE DEF job
  <2>4. /\ bump' \in [Bumps -> BumpJob]
        /\ \A c \in Bumps : ~BumpAt(c, "idle")' => bump'[c].machine \in Machines
        /\ bump'[b] = job /\ \A c \in Bumps \ {b} : bump'[c] = bump[c]
    BY <1>0, <1>1, <2>1, <2>3, JobTyped
  <2>5. Ours(b)' = clone'[m]
    BY <2>3, <2>4 DEF Ours
  <2> QED
    BY <1>0, <1>1, <1>2, <2>2, <2>3, <2>4, <2>5 DEF BumpTyped
<1> QED
  BY <1>3, <1>4

\* A bump that is not behind its upstream has all that it fetched.
LEMMA CompareStep ==
    ASSUME BumpInv, NEW b \in Bumps, Compare(b)
    PROVE  BumpTyped' /\ FreshInv(b)' /\ \A c \in Bumps \ {b} : bump'[c] = bump[c]
<1>0. BumpTyped /\ FreshInv(b)
  BY DEF BumpInv
<1>1. /\ UNCHANGED <<origin, clone, bumps>> /\ bump[b].step = "compare" /\ ~Behind(b)
      /\ bump[b].machine \in Machines /\ bump[b] \in BumpJob
  BY <1>0 DEF Compare, BumpAt, BumpTyped
<1> DEFINE job == [bump[b] EXCEPT !.step = "list"]
<1>2. bump' = [bump EXCEPT ![b] = job]
  BY <1>0 DEF Compare, BumpTyped
<1>3. /\ job \in BumpJob /\ job.machine = bump[b].machine /\ job.step = "list"
      /\ job.fetched = bump[b].fetched /\ job.known = bump[b].known
      /\ job.target = bump[b].target
  BY <1>1 DEF BumpJob
<1> HIDE DEF job
<1>4. /\ bump' \in [Bumps -> BumpJob]
      /\ \A c \in Bumps : ~BumpAt(c, "idle")' => bump'[c].machine \in Machines
      /\ bump'[b] = job /\ \A c \in Bumps \ {b} : bump'[c] = bump[c]
  BY <1>0, <1>1, <1>2, <1>3, JobTyped
<1>5. Ours(b)' = Ours(b)
  BY <1>1, <1>3, <1>4 DEF Ours
<1>6. bump[b].target = "worktree" => bump[b].fetched <= Ours(b).head
  <2>1. SUFFICES ASSUME bump[b].target = "worktree" PROVE bump[b].fetched <= Ours(b).head
    OBVIOUS
  <2>2. ~(Ours(b).head < Ours(b).tracked)
    BY <1>1, <2>1 DEF Behind, HasUpstream, HeadOf
  <2>3. bump[b].fetched <= Ours(b).tracked
    BY <1>0, <1>1 DEF FreshInv
  <2>4. Ours(b).head \in Nat /\ Ours(b).tracked \in Nat /\ bump[b].fetched \in Nat
    BY <1>0, <1>1 DEF Ours, BumpTyped, Clones, BumpJob
  <2> QED
    BY <2>2, <2>3, <2>4
<1>7. FreshInv(b)'
  BY <1>0, <1>1, <1>3, <1>4, <1>5, <1>6 DEF FreshInv
<1> QED
  BY <1>0, <1>1, <1>4, <1>7 DEF BumpTyped

\* The highest version that is found surpasses all that the fetch brought.
LEMMA ListStep ==
    ASSUME BumpInv, NEW b \in Bumps, List(b)
    PROVE  BumpTyped' /\ FreshInv(b)' /\ \A c \in Bumps \ {b} : bump'[c] = bump[c]
<1>0. BumpTyped /\ FreshInv(b) /\ BoxInv
  BY DEF BumpInv
<1>1. /\ UNCHANGED <<origin, clone, bumps>> /\ bump[b].step = "list"
      /\ bump[b].machine \in Machines /\ bump[b] \in BumpJob
  BY <1>0 DEF List, BumpAt, BumpTyped
<1>2. CASE EndBump(b)
  <2>1. /\ bump' \in [Bumps -> BumpJob]
        /\ \A c \in Bumps : ~BumpAt(c, "idle")' => bump'[c].machine \in Machines
        /\ bump'[b].step = "idle" /\ \A c \in Bumps \ {b} : bump'[c] = bump[c]
    BY <1>0, <1>2, EndBumpStep
  <2> QED
    BY <1>0, <1>1, <2>1 DEF BumpTyped, FreshInv
<1>3. ASSUME NEW series \in {Every, 0},
             LET found == Selected(DOMAIN Ours(b).tags, series)
             IN  bump' = [bump EXCEPT ![b].step = "tag", ![b].series = series,
                             ![b].latest = IF found = {} THEN <<0, 0, 0>> ELSE Highest(found)]
      PROVE  BumpTyped' /\ FreshInv(b)' /\ \A c \in Bumps \ {b} : bump'[c] = bump[c]
  <2> DEFINE found == Selected(DOMAIN Ours(b).tags, series)
             v == IF found = {} THEN <<0, 0, 0>> ELSE Highest(found)
             job == [bump[b] EXCEPT !.step = "tag", !.series = series, !.latest = v]
  <2>1. v \in Triples /\ \A w \in found : v = w \/ Newer(v, w)
    <3>1. CASE found = {}
      BY <3>1 DEF Triples
    <3>2. CASE found # {}
      BY <1>0, <1>1, <3>2, FoundTriples DEF BumpAt
    <3> QED
      BY <3>1, <3>2
  <2>2. bump' = [bump EXCEPT ![b] = job]
    BY <1>0, <1>3 DEF BumpTyped
  <2> HIDE DEF v
  <2>3. /\ job \in BumpJob /\ job.machine = bump[b].machine /\ job.step = "tag"
        /\ job.fetched = bump[b].fetched /\ job.known = bump[b].known
        /\ job.target = bump[b].target /\ job.series = series /\ job.latest = v
    <3>1. series \in Int /\ v \in Triples
      BY <2>1 DEF Every
    <3> HIDE DEF found
    <3> QED
      BY <1>1, <3>1 DEF BumpJob
  <2>4. Selected(bump[b].known, series) \subseteq found
    BY <1>0, <1>1 DEF Selected, FreshInv
  <2> HIDE DEF job, found
  <2>5. /\ bump' \in [Bumps -> BumpJob]
        /\ \A c \in Bumps : ~BumpAt(c, "idle")' => bump'[c].machine \in Machines
        /\ bump'[b] = job /\ \A c \in Bumps \ {b} : bump'[c] = bump[c]
    BY <1>0, <1>1, <2>2, <2>3, JobTyped
  <2>6. Ours(b)' = Ours(b)
    BY <1>1, <2>3, <2>5 DEF Ours
  <2>7. \A w \in Selected(bump'[b].known, bump'[b].series) :
           bump'[b].latest = w \/ Newer(bump'[b].latest, w)
    BY <2>1, <2>3, <2>4, <2>5
  <2>8. FreshInv(b)'
    BY <1>0, <1>1, <2>3, <2>5, <2>6, <2>7 DEF FreshInv, Surpasses
  <2> QED
    BY <1>0, <1>1, <2>5, <2>8 DEF BumpTyped
<1> QED
  BY <1>2, <1>3 DEF List

\* The tag is newer than what the fetch brought, and names a commit that has it all.
LEMMA CreateTagStep ==
    ASSUME BumpInv, NEW b \in Bumps, CreateTag(b)
    PROVE  /\ BumpTyped' /\ FreshInv(b)' /\ TipInv' /\ \A c \in Bumps \ {b} : bump'[c] = bump[c]
           /\ \A m \in Machines : Grows(m)
           /\ \E v \in Triples : \A m \in Machines : DOMAIN clone'[m].tags \subseteq DOMAIN clone[m].tags \cup {v}
<1>0. BumpTyped /\ FreshInv(b) /\ TipInv
  BY DEF BumpInv
<1> DEFINE m == bump[b].machine
<1>1. /\ UNCHANGED <<origin, bumps>> /\ bump[b].step = "tag"
      /\ m \in Machines /\ bump[b] \in BumpJob
  BY <1>0 DEF CreateTag, BumpAt, BumpTyped
<1>2. PICK kind \in Kinds, push \in BOOLEAN :
         LET v == NextVersion(bump[b].latest, kind)
         IN  IF v \in DOMAIN Ours(b).tags
             THEN EndBump(b) /\ UNCHANGED clone
             ELSE /\ clone' = [clone EXCEPT ![bump[b].machine].tags =
                                 [w \in DOMAIN @ \cup {v} |->
                                    IF w = v THEN [commit |-> Commit(b), nth |-> bump[b].nth]
                                    ELSE @[w]]]
                  /\ IF push
                     THEN bump' = [bump EXCEPT ![b].step = "push", ![b].version = v]
                     ELSE EndBump(b)
  BY DEF CreateTag
<1> DEFINE v == NextVersion(bump[b].latest, kind)
<1>3. v \in Triples /\ Newer(v, bump[b].latest) /\ bump[b].latest \in Triples
  BY <1>1, NextIsNewer DEF BumpJob
<1>4. ASSUME EndBump(b)
      PROVE  /\ bump' \in [Bumps -> BumpJob]
             /\ \A c \in Bumps : ~BumpAt(c, "idle")' => bump'[c].machine \in Machines
             /\ bump'[b].step = "idle" /\ \A c \in Bumps \ {b} : bump'[c] = bump[c]
  BY <1>0, <1>4, EndBumpStep
<1>5. CASE v \in DOMAIN Ours(b).tags
  <2>1. EndBump(b) /\ UNCHANGED clone
    BY <1>2, <1>5
  <2>2. \A k \in Machines : Grows(k)
    BY <1>0, <2>1, StandsStill
  <2> QED
    BY <1>0, <1>1, <1>3, <1>4, <2>1, <2>2 DEF BumpTyped, FreshInv, TipInv
<1>6. CASE v \notin DOMAIN Ours(b).tags
  <2> DEFINE x == [commit |-> Commit(b), nth |-> bump[b].nth]
             tags == [w \in DOMAIN clone[m].tags \cup {v} |-> IF w = v THEN x ELSE clone[m].tags[w]]
             new == [clone[m] EXCEPT !.tags = tags]
  <2>1. clone[m] \in Clones /\ clone[m].tags \in TagTables /\ clone[m].head \in Nat
        /\ clone[m].tracked \in Nat /\ Ours(b) = clone[m] /\ bump[b].nth \in Nat
    BY <1>0, <1>1 DEF BumpTyped, Clones, Ours, BumpJob
  <2>2. Commit(b) \in Nat /\ bump[b].fetched <= Commit(b)
    BY <1>0, <1>1, <2>1 DEF Commit, FreshInv, BumpJob
  <2>3. x \in [commit : Nat, nth : Nat] /\ x.commit = Commit(b)
    BY <2>1, <2>2
  <2>4. clone' = [clone EXCEPT ![m] = new]
    BY <1>0, <1>1, <1>2, <1>6 DEF BumpTyped
  <2> HIDE DEF v, x
  <2>5. tags \in TagTables
    BY <1>3, <2>1, <2>3, TablesAdd
  <2>6. /\ DOMAIN tags = DOMAIN clone[m].tags \cup {v} /\ tags[v] = x
        /\ v \notin DOMAIN clone[m].tags
        /\ \A w \in DOMAIN clone[m].tags : tags[w] = clone[m].tags[w]
    BY <1>6, <2>1
  <2> HIDE DEF tags
  <2>7. new \in Clones /\ new.tags = tags /\ new.head = clone[m].head /\ new.tracked = clone[m].tracked
    BY <2>1, <2>5 DEF Clones
  <2> HIDE DEF new
  <2>8. clone' \in [Machines -> Clones] /\ clone'[m] = new /\ \A k \in Machines \ {m} : clone'[k] = clone[k]
    BY <1>0, <1>1, <2>4, <2>7 DEF BumpTyped
  <2>9. \A k \in Machines : clone[k].head \in Nat /\ clone[k].tracked \in Nat
    BY <1>0 DEF BumpTyped, Clones
  <2>10. \A k \in Machines : Grows(k)
    BY <2>1, <2>6, <2>7, <2>8, <2>9 DEF Grows
  <2>11. TipInv'
    BY <1>0, <1>1, <2>7, <2>8 DEF TipInv
  <2>12. \A k \in Machines : DOMAIN clone'[k].tags \subseteq DOMAIN clone[k].tags \cup {v}
    BY <2>6, <2>7, <2>8
  <2>13. CASE EndBump(b)
    BY <1>0, <1>1, <1>3, <1>4, <2>8, <2>10, <2>11, <2>12, <2>13 DEF BumpTyped, FreshInv
  <2>14. CASE bump' = [bump EXCEPT ![b].step = "push", ![b].version = v]
    <3> DEFINE job == [bump[b] EXCEPT !.step = "push", !.version = v]
    <3>1. bump' = [bump EXCEPT ![b] = job]
      BY <1>0, <2>14 DEF BumpTyped
    <3>2. /\ job \in BumpJob /\ job.machine = m /\ job.step = "push" /\ job.version = v
          /\ job.fetched = bump[b].fetched /\ job.known = bump[b].known
          /\ job.target = bump[b].target /\ job.series = bump[b].series
      BY <1>1, <1>3 DEF BumpJob
    <3> HIDE DEF job
    <3>3. /\ bump' \in [Bumps -> BumpJob]
          /\ \A c \in Bumps : ~BumpAt(c, "idle")' => bump'[c].machine \in Machines
          /\ bump'[b] = job /\ \A c \in Bumps \ {b} : bump'[c] = bump[c]
      BY <1>0, <1>1, <3>1, <3>2, JobTyped
    <3>4. Ours(b)' = new
      BY <2>8, <3>2, <3>3 DEF Ours
    <3>5. ASSUME NEW w \in Selected(bump[b].known, bump[b].series) PROVE Newer(v, w)
      <4>1. w \in Triples
        BY <1>1 DEF Selected, BumpJob
      <4>2. bump[b].latest = w \/ Newer(bump[b].latest, w)
        BY <1>0, <1>1 DEF FreshInv, Surpasses
      <4>3. Newer(v, bump[b].latest)
        BY <1>3
      <4> QED
        BY <1>3, <4>1, <4>2, <4>3, NewerOrders
    <3>6. FreshInv(b)'
      BY <1>0, <1>1, <2>1, <2>2, <2>3, <2>6, <2>7, <3>2, <3>3, <3>4, <3>5 DEF FreshInv
    <3> QED
      BY <1>0, <1>1, <1>3, <2>8, <2>10, <2>11, <2>12, <3>3, <3>6 DEF BumpTyped
  <2> QED
    BY <1>2, <1>6, <2>13, <2>14 DEF v
<1> QED
  BY <1>5, <1>6

\* Origin takes the tag.
LEMMA PushTagStep ==
    ASSUME BumpInv, NEW b \in Bumps, PushTag(b)
    PROVE  /\ BumpTyped' /\ TipInv' /\ bump'[b].step = "idle"
           /\ \A c \in Bumps \ {b} : bump'[c] = bump[c]
           /\ \E v \in DOMAIN Ours(b).tags : DOMAIN origin'.tags = DOMAIN origin.tags \cup {v}
           /\ bump[b].step = "push" /\ bump[b].version \notin DOMAIN origin.tags
           /\ origin'.tags = [w \in DOMAIN origin.tags \cup {bump[b].version} |->
                                IF w = bump[b].version THEN Ours(b).tags[bump[b].version]
                                ELSE origin.tags[w]]
<1>0. BumpTyped /\ FreshInv(b) /\ TipInv
  BY DEF BumpInv
<1> DEFINE v == bump[b].version
           tags == [w \in DOMAIN origin.tags \cup {v} |-> IF w = v THEN Ours(b).tags[v] ELSE origin.tags[w]]
           new == [origin EXCEPT !.tags = tags]
<1>1. /\ UNCHANGED <<clone, bumps>> /\ bump[b].step = "push" /\ v \notin DOMAIN origin.tags
      /\ bump[b].machine \in Machines /\ bump[b] \in BumpJob /\ EndBump(b) /\ origin' = new
  BY <1>0 DEF PushTag, BumpAt, BumpTyped, Taken
<1>2. Ours(b).tags \in TagTables /\ origin.tags \in TagTables /\ v \in DOMAIN Ours(b).tags
  BY <1>0, <1>1 DEF BumpTyped, Clones, Ours, FreshInv
<1>3. v \in Triples /\ Ours(b).tags[v] \in [commit : Nat, nth : Nat]
  BY <1>2, TablesAre
<1>4. tags \in TagTables
  BY <1>2, <1>3, TablesAdd
<1>5. DOMAIN tags = DOMAIN origin.tags \cup {v}
  OBVIOUS
<1> HIDE DEF tags
<1>6. new \in [tip : Nat, tags : TagTables] /\ new.tags = tags /\ new.tip = origin.tip
  BY <1>0, <1>4 DEF BumpTyped
<1> HIDE DEF new
<1>7. /\ bump' \in [Bumps -> BumpJob]
      /\ \A c \in Bumps : ~BumpAt(c, "idle")' => bump'[c].machine \in Machines
      /\ bump'[b].step = "idle" /\ \A c \in Bumps \ {b} : bump'[c] = bump[c]
  BY <1>0, <1>1, EndBumpStep
<1>8. BumpTyped' /\ TipInv'
  BY <1>0, <1>1, <1>6, <1>7 DEF BumpTyped, TipInv
<1> QED
  BY <1>1, <1>2, <1>5, <1>6, <1>7, <1>8 DEF tags

\* A bump gives up.
LEMMA QuitStep ==
    ASSUME BumpInv, NEW b \in Bumps, Refuse(b) \/ StopBump(b)
    PROVE  /\ BumpTyped' /\ bump'[b].step = "idle" /\ \A c \in Bumps \ {b} : bump'[c] = bump[c]
           /\ UNCHANGED <<origin, clone>>
<1>1. EndBump(b) /\ UNCHANGED <<origin, clone, bumps>>
  BY DEF Refuse, StopBump
<1> QED
  BY <1>1, EndBumpStep DEF BumpInv, BumpTyped

\* What goes on around the bumps.
LEMMA AdvanceStep ==
    ASSUME BumpInv, Advance
    PROVE  BumpTyped' /\ TipInv' /\ UNCHANGED <<clone, bump>> /\ origin'.tags = origin.tags
<1> DEFINE new == [origin EXCEPT !.tip = @ + 1]
<1>1. origin' = new /\ UNCHANGED <<clone, bump, bumps>>
  BY DEF Advance
<1>2. /\ new \in [tip : Nat, tags : TagTables] /\ new.tags = origin.tags
      /\ new.tip = origin.tip + 1 /\ origin.tip \in Nat
  BY DEF BumpInv, BumpTyped
<1> HIDE DEF new
<1>3. BumpTyped'
  BY <1>1, <1>2 DEF BumpInv, BumpTyped, BumpAt
<1>4. ASSUME NEW m \in Machines PROVE clone[m].head <= origin.tip + 1 /\ clone[m].tracked <= origin.tip + 1
  BY <1>2 DEF BumpInv, TipInv, BumpTyped, Clones
<1> QED
  BY <1>1, <1>2, <1>3, <1>4 DEF TipInv

\* The user pulls.
LEMMA PullStep ==
    ASSUME BumpInv, NEW m \in Machines, Pull(m, "head") \/ Pull(m, "main")
    PROVE  /\ BumpTyped' /\ TipInv' /\ UNCHANGED <<origin, bump>> /\ \A k \in Machines : Grows(k)
           /\ \A k \in Machines : clone'[k].tags = clone[k].tags
<1>0. BumpTyped /\ TipInv
  BY DEF BumpInv
<1>1. origin.tip \in Nat /\ clone[m] \in Clones
  BY <1>0 DEF BumpTyped
<1>2. PICK new \in Clones :
        /\ clone' = [clone EXCEPT ![m] = new] /\ new.tracked = origin.tip
        /\ new.head \in {clone[m].head, origin.tip} /\ new.tags = clone[m].tags
  <2>1. CASE Pull(m, "head")
    <3> DEFINE new == [clone[m] EXCEPT !.tracked = origin.tip, !.head = origin.tip]
    <3>1. clone' = [clone EXCEPT ![m] = new]
      BY <1>0, <1>1, <2>1 DEF Pull, BumpTyped, Clones
    <3>2. new \in Clones /\ new.tracked = origin.tip /\ new.head = origin.tip /\ new.tags = clone[m].tags
      BY <1>1 DEF Clones
    <3> QED
      BY <3>1, <3>2
  <2>2. CASE Pull(m, "main")
    <3> DEFINE new == [clone[m] EXCEPT !.tracked = origin.tip, !.main = origin.tip]
    <3>1. clone' = [clone EXCEPT ![m] = new]
      BY <1>0, <1>1, <2>2 DEF Pull, BumpTyped, Clones
    <3>2. new \in Clones /\ new.tracked = origin.tip /\ new.head = clone[m].head /\ new.tags = clone[m].tags
      BY <1>1 DEF Clones
    <3> QED
      BY <3>1, <3>2
  <2> QED
    BY <2>1, <2>2
<1>3. UNCHANGED <<origin, bump, bumps>>
  BY DEF Pull
<1>4. clone' \in [Machines -> Clones] /\ clone'[m] = new /\ \A k \in Machines \ {m} : clone'[k] = clone[k]
  BY <1>0, <1>2 DEF BumpTyped
<1>5. \A k \in Machines : /\ clone[k].head \in Nat /\ clone[k].tracked \in Nat
                          /\ clone[k].tracked <= origin.tip /\ clone[k].head <= origin.tip
  BY <1>0 DEF BumpTyped, Clones, TipInv
<1>6. \A k \in Machines : Grows(k)
  BY <1>1, <1>2, <1>4, <1>5 DEF Grows
<1>7. TipInv'
  BY <1>1, <1>2, <1>3, <1>4, <1>5 DEF TipInv
<1>8. BumpTyped'
  BY <1>0, <1>3, <1>4 DEF BumpTyped, BumpAt
<1> QED
  BY <1>2, <1>3, <1>4, <1>6, <1>7, <1>8

\* A tag is deleted only where no bump runs.
LEMMA DeleteTagStep ==
    ASSUME BumpInv, NEW m \in Machines, DeleteTag(m)
    PROVE  /\ BumpTyped' /\ TipInv' /\ UNCHANGED <<origin, bump>> /\ Holds
           /\ \A k \in Machines : DOMAIN clone'[k].tags \subseteq DOMAIN clone[k].tags
<1>0. BumpTyped /\ TipInv
  BY DEF BumpInv
<1>1. PICK v \in DOMAIN clone[m].tags : clone' = [clone EXCEPT ![m].tags = [w \in DOMAIN @ \ {v} |-> @[w]]]
  BY DEF DeleteTag
<1> DEFINE tags == [w \in DOMAIN clone[m].tags \ {v} |-> clone[m].tags[w]]
           new == [clone[m] EXCEPT !.tags = tags]
<1>2. clone[m] \in Clones /\ clone[m].tags \in TagTables
  BY <1>0 DEF BumpTyped, Clones
<1>3. tags \in TagTables
  BY <1>2, TablesRemove
<1>4. DOMAIN tags \subseteq DOMAIN clone[m].tags
  OBVIOUS
<1>5. clone' = [clone EXCEPT ![m] = new]
  BY <1>0, <1>1 DEF BumpTyped
<1> HIDE DEF tags
<1>6. new \in Clones /\ new.tags = tags /\ new.head = clone[m].head /\ new.tracked = clone[m].tracked
  BY <1>2, <1>3 DEF Clones
<1> HIDE DEF new
<1>7. clone' \in [Machines -> Clones] /\ clone'[m] = new /\ \A k \in Machines \ {m} : clone'[k] = clone[k]
  BY <1>0, <1>5, <1>6 DEF BumpTyped
<1>8. UNCHANGED <<origin, bump, bumps>>
  BY DEF DeleteTag
<1>9. Holds
  <2> SUFFICES ASSUME NEW b \in Bumps, ~BumpAt(b, "idle") PROVE Grows(bump[b].machine)
    BY DEF Holds
  <2>1. bump[b].machine # m /\ bump[b].machine \in Machines
    BY <1>0 DEF DeleteTag, BumpTyped
  <2> DEFINE k == bump[b].machine
  <2>2. clone'[k] = clone[k] /\ clone[k].head \in Nat /\ clone[k].tracked \in Nat
    BY <1>0, <1>7, <2>1 DEF BumpTyped, Clones
  <2> HIDE DEF k
  <2>3. Grows(k)
    BY <2>2 DEF Grows
  <2> QED
    BY <2>3 DEF k
<1>10. BumpTyped' /\ TipInv'
  BY <1>0, <1>6, <1>7, <1>8 DEF BumpTyped, BumpAt, TipInv
<1> QED
  BY <1>4, <1>6, <1>7, <1>8, <1>9, <1>10

\* What other processes do leaves a bump with what it found out.
LEMMA FreshStays ==
    ASSUME BumpTyped, BumpTyped', NEW b \in Bumps, FreshInv(b), bump'[b] = bump[b],
           ~BumpAt(b, "idle") => Grows(bump[b].machine)
    PROVE  FreshInv(b)'
<1>1. CASE BumpAt(b, "idle")
  BY <1>1 DEF FreshInv, BumpAt
<1>2. CASE ~BumpAt(b, "idle")
  <2> DEFINE m == bump[b].machine
  <2>1. /\ m \in Machines /\ Ours(b) = clone[m] /\ Ours(b)' = clone'[m] /\ Grows(m)
        /\ bump[b].fetched \in Nat
    BY <1>2 DEF BumpTyped, Ours, BumpJob
  <2>2. /\ clone[m].tracked \in Nat /\ clone[m].head \in Nat
        /\ clone'[m].tracked \in Nat /\ clone'[m].head \in Nat
    BY <2>1 DEF BumpTyped, Clones
  <2> HIDE DEF m
  <2> QED
    BY <2>1, <2>2 DEF FreshInv, Grows, Surpasses
<1> QED
  BY <1>1, <1>2

\* A tag more fits into a larger box.
LEMMA BoxGrows ==
    ASSUME BoxInv, BumpTyped, NEW v \in Triples,
           DOMAIN origin'.tags \subseteq DOMAIN origin.tags \cup UNION {DOMAIN clone[m].tags : m \in Machines},
           \A m \in Machines : DOMAIN clone'[m].tags
                                  \subseteq DOMAIN clone[m].tags \cup DOMAIN origin.tags \cup {v}
    PROVE  BoxInv'
<1>1. PICK n \in Nat : /\ DOMAIN origin.tags \subseteq Box(n)
                       /\ \A m \in Machines : DOMAIN clone[m].tags \subseteq Box(n)
  BY DEF BoxInv
<1>2. v[1] \in Nat /\ v[2] \in Nat /\ v[3] \in Nat /\ v = <<v[1], v[2], v[3]>>
  BY DEF Triples
<1> DEFINE k == n + v[1] + v[2] + v[3]
<1>3. k \in Nat /\ 0 .. n \subseteq 0 .. k /\ v[1] \in 0 .. k /\ v[2] \in 0 .. k /\ v[3] \in 0 .. k
  BY <1>2
<1> HIDE DEF k
<1>4. Box(n) \subseteq Box(k) /\ v \in Box(k)
  BY <1>2, <1>3 DEF Box
<1>5. DOMAIN origin'.tags \subseteq Box(n)
  BY <1>1
<1>6. \A m \in Machines : DOMAIN clone'[m].tags \subseteq Box(k)
  BY <1>1, <1>4
<1> QED
  BY <1>3, <1>4, <1>5, <1>6 DEF BoxInv

\* The invariant holds again after each step.
LEMMA BumpInductive == BumpInv /\ [BumpNext]_bumpVars => BumpInv'
<1> SUFFICES ASSUME BumpInv, [BumpNext]_bumpVars PROVE BumpInv'
  OBVIOUS
<1>0. BumpTyped /\ TipInv /\ BoxInv /\ \A b \in Bumps : FreshInv(b)
  BY DEF BumpInv
<1>1. <<0, 0, 0>> \in Triples
  BY DEF Triples
<1>2. ASSUME UNCHANGED origin PROVE DOMAIN origin'.tags \subseteq DOMAIN origin.tags
  BY <1>2
<1>3. ASSUME UNCHANGED clone PROVE \A m \in Machines : DOMAIN clone'[m].tags \subseteq DOMAIN clone[m].tags
  BY <1>3
<1>4. ASSUME NEW b \in Bumps,
             \/ StartBump(b) \/ FetchTags(b) \/ FetchTagsFails(b) \/ Compare(b) \/ Refuse(b)
             \/ List(b) \/ CreateTag(b) \/ PushTag(b) \/ StopBump(b)
      PROVE  BumpInv'
  <2>1. /\ BumpTyped' /\ TipInv' /\ BoxInv' /\ FreshInv(b)' /\ \A m \in Machines : Grows(m)
        /\ \A c \in Bumps \ {b} : bump'[c] = bump[c]
    <3>1. CASE StartBump(b)
      <4>1. UNCHANGED <<origin, clone>>
        BY <3>1 DEF StartBump
      <4>2. /\ BumpTyped' /\ \A m \in Machines : Grows(m)
            /\ bump'[b].step = "fetch" /\ \A c \in Bumps \ {b} : bump'[c] = bump[c]
        BY <3>1, StartBumpStep
      <4> QED
        BY <1>0, <4>1, <4>2 DEF TipInv, BoxInv, FreshInv
    <3>2. CASE FetchTags(b) \/ FetchTagsFails(b)
      <4>1. origin' = origin
        BY <3>2 DEF FetchTags, FetchTagsFails
      <4>2. /\ BumpTyped' /\ TipInv' /\ \A m \in Machines : Grows(m)
            /\ bump'[b].step = "compare" =>
                 /\ bump'[b].known \subseteq DOMAIN Ours(b)'.tags
                 /\ bump'[b].fetched <= Ours(b)'.tracked
            /\ bump'[b].step \in {"idle", "compare"} /\ \A c \in Bumps \ {b} : bump'[c] = bump[c]
            /\ \A m \in Machines : DOMAIN clone'[m].tags \subseteq DOMAIN clone[m].tags \cup DOMAIN origin.tags
        BY <3>2, FetchTagsStep
      <4>3. BoxInv'
        BY <1>0, <1>1, <4>1, <4>2, BoxGrows
      <4>4. FreshInv(b)'
        BY <4>2 DEF FreshInv
      <4> QED
        BY <4>2, <4>3, <4>4
    <3>3. CASE Compare(b) \/ List(b)
      <4>1. UNCHANGED <<origin, clone>>
        BY <3>3 DEF Compare, List
      <4>2. BumpTyped' /\ FreshInv(b)' /\ \A c \in Bumps \ {b} : bump'[c] = bump[c]
        BY <3>3, CompareStep, ListStep
      <4> QED
        BY <1>0, <4>1, <4>2, StandsStill DEF TipInv, BoxInv
    <3>4. CASE CreateTag(b)
      <4>1. origin' = origin
        BY <3>4 DEF CreateTag
      <4>2. /\ BumpTyped' /\ FreshInv(b)' /\ TipInv' /\ \A c \in Bumps \ {b} : bump'[c] = bump[c]
            /\ \A m \in Machines : Grows(m)
        BY <3>4, CreateTagStep
      <4>3. PICK v \in Triples : \A m \in Machines : DOMAIN clone'[m].tags \subseteq DOMAIN clone[m].tags \cup {v}
        BY <3>4, CreateTagStep
      <4>4. BoxInv'
        BY <1>0, <4>1, <4>3, BoxGrows
      <4> QED
        BY <4>2, <4>4
    <3>5. CASE PushTag(b)
      <4>1. clone' = clone
        BY <3>5 DEF PushTag
      <4>2. /\ BumpTyped' /\ TipInv' /\ bump'[b].step = "idle"
            /\ \A c \in Bumps \ {b} : bump'[c] = bump[c]
        BY <3>5, PushTagStep
      <4>3. PICK v \in DOMAIN Ours(b).tags : DOMAIN origin'.tags = DOMAIN origin.tags \cup {v}
        BY <3>5, PushTagStep
      <4>4. bump[b].machine \in Machines
        BY <1>0, <3>5 DEF PushTag, BumpAt, BumpTyped
      <4>5. BoxInv'
        BY <1>0, <1>1, <4>1, <4>3, <4>4, BoxGrows DEF Ours
      <4>6. FreshInv(b)'
        BY <4>2 DEF FreshInv
      <4> QED
        BY <1>0, <4>1, <4>2, <4>5, <4>6, StandsStill
    <3>6. CASE Refuse(b) \/ StopBump(b)
      <4>1. /\ BumpTyped' /\ bump'[b].step = "idle" /\ \A c \in Bumps \ {b} : bump'[c] = bump[c]
            /\ UNCHANGED <<origin, clone>>
        BY <3>6, QuitStep
      <4> QED
        BY <1>0, <4>1, StandsStill DEF TipInv, BoxInv, FreshInv
    <3> QED
      BY <1>4, <3>1, <3>2, <3>3, <3>4, <3>5, <3>6
  <2>2. ASSUME NEW c \in Bumps, c # b PROVE FreshInv(c)'
    <3>1. ~BumpAt(c, "idle") => Grows(bump[c].machine)
      BY <1>0, <2>1 DEF BumpTyped
    <3> QED
      BY <1>0, <2>1, <2>2, <3>1, FreshStays
  <2> QED
    BY <2>1, <2>2 DEF BumpInv
<1>5. ASSUME BumpTyped', TipInv', BoxInv', bump' = bump, Holds
      PROVE  BumpInv'
  <2>1. ASSUME NEW c \in Bumps PROVE FreshInv(c)'
    BY <1>0, <1>5, FreshStays DEF Holds
  <2> QED
    BY <1>5, <2>1 DEF BumpInv
<1>6. (\A m \in Machines : Grows(m)) => Holds
  BY <1>0 DEF Holds, BumpTyped
<1>7. CASE Advance
  <2>1. BumpTyped' /\ TipInv' /\ UNCHANGED <<clone, bump>> /\ origin'.tags = origin.tags
    BY <1>7, AdvanceStep
  <2>2. BoxInv'
    BY <1>0, <2>1 DEF BoxInv
  <2> QED
    BY <1>0, <1>5, <1>6, <2>1, <2>2, StandsStill
<1>8. ASSUME NEW m \in Machines, Pull(m, "head") \/ Pull(m, "main") \/ DeleteTag(m)
      PROVE  BumpInv'
  <2>1. /\ BumpTyped' /\ TipInv' /\ UNCHANGED <<origin, bump>> /\ Holds
        /\ \A k \in Machines : DOMAIN clone'[k].tags \subseteq DOMAIN clone[k].tags
    <3>1. CASE Pull(m, "head") \/ Pull(m, "main")
      <4>1. /\ BumpTyped' /\ TipInv' /\ UNCHANGED <<origin, bump>> /\ \A k \in Machines : Grows(k)
            /\ \A k \in Machines : clone'[k].tags = clone[k].tags
        BY <3>1, PullStep
      <4> QED
        BY <1>6, <4>1
    <3>2. CASE DeleteTag(m)
      BY <3>2, DeleteTagStep
    <3> QED
      BY <1>8, <3>1, <3>2
  <2>2. BoxInv'
    BY <1>0, <1>1, <2>1, BoxGrows
  <2> QED
    BY <1>5, <2>1, <2>2
<1>9. CASE UNCHANGED bumpVars
  <2>1. UNCHANGED <<origin, clone, bump, bumps>>
    BY <1>9 DEF bumpVars
  <2>2. BumpTyped' /\ TipInv' /\ BoxInv'
    BY <1>0, <2>1 DEF BumpTyped, TipInv, BoxInv, BumpAt
  <2> QED
    BY <1>0, <1>5, <1>6, <2>1, <2>2, StandsStill
<1> QED
  BY <1>4, <1>7, <1>8, <1>9 DEF BumpNext

\* The invariant holds in the initial states.
LEMMA BumpStarts == BumpInit => BumpInv
<1> SUFFICES ASSUME BumpInit PROVE BumpInv
  OBVIOUS
<1> DEFINE none == [v \in {} |-> 0]
<1>1. none \in TagTables /\ DOMAIN none = {}
  <2>1. none \in [{} -> [commit : Nat, nth : Nat]] /\ {} \in SUBSET Triples
    OBVIOUS
  <2> QED
    BY <2>1, TablesAre
<1>2. PICK tracks \in BOOLEAN :
         clone = [m \in Machines |-> [head |-> 0, main |-> 0, tracks |-> tracks, tracked |-> 0,
                                      tags |-> none]]
  BY DEF BumpInit
<1>3. origin = [tip |-> 0, tags |-> none] /\ bumps = 0 /\ bump = [b \in Bumps |-> NoBump]
  BY DEF BumpInit
<1> HIDE DEF none
<1>4. BumpTyped
  BY <1>1, <1>2, <1>3, NoBumpIdle DEF BumpTyped, Clones, BumpAt
<1>5. TipInv /\ BoxInv
  BY <1>1, <1>2, <1>3 DEF TipInv, BoxInv
<1>6. \A b \in Bumps : FreshInv(b)
  BY <1>3, NoBumpIdle DEF FreshInv
<1> QED
  BY <1>4, <1>5, <1>6 DEF BumpInv

\* Origin keeps its tags, and a version that reaches it is newer than all that the bump
\* fetched and names a commit with all that was on origin's branch then.
THEOREM TagsGrow == BumpSpec => PublishedTagsGrow
<1> DEFINE kept == \A v \in DOMAIN origin.tags :
                     v \in DOMAIN origin'.tags /\ origin'.tags[v] = origin.tags[v]
           newest(b) == DOMAIN origin'.tags # DOMAIN origin.tags /\ bump'[b] # bump[b]
                => /\ \A v \in Selected(bump[b].known, bump[b].series) : Newer(bump[b].version, v)
                   /\ origin'.tags[bump[b].version].commit >= bump[b].fetched
           grow ==
             /\ \A v \in DOMAIN origin.tags :
                  v \in DOMAIN origin'.tags /\ origin'.tags[v] = origin.tags[v]
             /\ \A b \in Bumps :
                  DOMAIN origin'.tags # DOMAIN origin.tags /\ bump'[b] # bump[b]
                    => /\ \A v \in Selected(bump[b].known, bump[b].series) :
                            Newer(bump[b].version, v)
                       /\ origin'.tags[bump[b].version].commit >= bump[b].fetched
<1>1. ASSUME BumpInv, [BumpNext]_bumpVars PROVE grow
  <2>1. ASSUME NEW b \in Bumps, PushTag(b) PROVE grow
    <3>1. /\ \A c \in Bumps \ {b} : bump'[c] = bump[c]
          /\ bump[b].step = "push" /\ bump[b].version \notin DOMAIN origin.tags
          /\ origin'.tags = [w \in DOMAIN origin.tags \cup {bump[b].version} |->
                                IF w = bump[b].version THEN Ours(b).tags[bump[b].version]
                                ELSE origin.tags[w]]
      BY <1>1, <2>1, PushTagStep
    <3>2. FreshInv(b) /\ BumpTyped
      BY <1>1 DEF BumpInv
    <3>3. kept
      BY <3>1
    <3>4. newest(b)
      <4>1. origin'.tags[bump[b].version] = Ours(b).tags[bump[b].version]
        BY <3>1
      <4>2. bump[b].fetched <= Ours(b).tags[bump[b].version].commit
        BY <3>1, <3>2 DEF FreshInv
      <4>3. Ours(b).tags \in TagTables /\ bump[b].version \in DOMAIN Ours(b).tags
        BY <3>1, <3>2 DEF FreshInv, BumpTyped, BumpAt, Ours, Clones
      <4>4. Ours(b).tags[bump[b].version].commit \in Nat /\ bump[b].fetched \in Nat
        BY <3>2, <4>3, TablesAre DEF BumpTyped, BumpJob
      <4>5. \A v \in Selected(bump[b].known, bump[b].series) : Newer(bump[b].version, v)
        BY <3>1, <3>2 DEF FreshInv
      <4> QED
        BY <4>1, <4>2, <4>4, <4>5
    <3>5. \A c \in Bumps \ {b} : newest(c)
      BY <3>1
    <3> QED
      BY <3>3, <3>4, <3>5
  <2>2. ASSUME origin'.tags = origin.tags PROVE grow
    BY <2>2
  <2>3. CASE Advance
    <3>1. origin'.tags = origin.tags
      BY <1>1, <2>3, AdvanceStep
    <3> QED
      BY <2>2, <3>1
  <2>4. ASSUME UNCHANGED origin PROVE grow
    BY <2>2, <2>4
  <2> HIDE DEF grow
  <2> QED
    BY <1>1, <2>1, <2>3, <2>4 DEF BumpNext, bumpVars, StartBump, FetchTags, FetchTagsFails, Compare,
         Refuse, List, CreateTag, StopBump, Pull, DeleteTag
<1>2. BumpInv /\ [BumpNext]_bumpVars => grow
  BY <1>1
<1> HIDE DEF grow
<1>3. BumpSpec => [][grow]_bumpVars
  BY <1>2, BumpStarts, BumpInductive, PTL DEF BumpSpec
<1> QED
  BY <1>3 DEF PublishedTagsGrow, grow

----------------------------------------------------------------------------
(* The history *)

\* The attempt that decides among the first i, and what the reader makes of it.
Decider(h, s, i) == Newest({j \in 1 .. i : Decides(h[j], s)})
LatestOf(h, s, i) ==
    LET last == Decider(h, s, i)
    IN  IF last = None \/ Resets(h[last], s) \/ ~Matches(h[last], s) THEN None ELSE last

\* One attempt more decides, or leaves the decision to the ones before it.
LEMMA DeciderStep ==
    ASSUME NEW h, NEW s, NEW i \in Nat, i # 0
    PROVE  Decider(h, s, i) = IF Decides(h[i], s) THEN i ELSE Decider(h, s, i - 1)
<1> DEFINE D(k) == {j \in 1 .. k : Decides(h[j], s)}
<1>1. i - 1 \in Nat /\ i \in 1 .. i /\ 1 .. i = (1 .. (i - 1)) \cup {i}
  OBVIOUS
<1>2. D(i) \in SUBSET (1 .. i) /\ D(i - 1) \in SUBSET (1 .. (i - 1))
  OBVIOUS
<1>3. CASE Decides(h[i], s)
  <2>1. i \in D(i)
    BY <1>1, <1>3
  <2>2. Newest(D(i)) \in D(i) /\ i <= Newest(D(i))
    BY <1>2, <2>1, NewestInSet
  <2>3. Newest(D(i)) = i
    BY <2>2, <1>2
  <2> QED
    BY <2>3, <1>3 DEF Decider
<1>4. CASE ~Decides(h[i], s)
  <2>1. D(i) = D(i - 1)
    BY <1>1, <1>4
  <2> QED
    BY <2>1, <1>4 DEF Decider
<1> QED
  BY <1>3, <1>4

\* The reader follows the loop.
LEMMA ReadStep ==
    ASSUME NEW h, NEW s, NEW i \in Nat, i # 0
    PROVE  LatestOf(h, s, i) = Read(h, s, i, LatestOf(h, s, i - 1))
<1>1. CASE Decides(h[i], s)
  <2>1. Decider(h, s, i) = i /\ i # None
    BY <1>1, DeciderStep DEF None
  <2>2. LatestOf(h, s, i) = IF Resets(h[i], s) \/ ~Matches(h[i], s) THEN None ELSE i
    BY <2>1 DEF LatestOf
  <2>3. Resets(h[i], s) => h[i].status = "addressed"
    BY DEF Resets
  <2>4. ~Resets(h[i], s) =>
          h[i].status # "addressed" /\ (Matches(h[i], s) \/ SamePatch(h[i].stack, s))
    BY <1>1 DEF Decides
  <2> QED
    BY <2>2, <2>3, <2>4 DEF Read
<1>2. CASE ~Decides(h[i], s)
  <2>1. Decider(h, s, i) = Decider(h, s, i - 1)
    BY <1>2, DeciderStep
  <2>2. LatestOf(h, s, i) = LatestOf(h, s, i - 1)
    BY <2>1 DEF LatestOf
  <2>3. /\ ~Resets(h[i], s)
        /\ h[i].status # "addressed" => ~Matches(h[i], s) /\ ~SamePatch(h[i].stack, s)
    BY <1>2 DEF Decides
  <2> QED
    BY <2>2, <2>3 DEF Read
<1> QED
  BY <1>1, <1>2

\* Without attempts there is nothing to find.
LEMMA ReadNothing == ASSUME NEW h, NEW s PROVE LatestOf(h, s, 0) = None
<1>1. {j \in 1 .. 0 : Decides(h[j], s)} = {}
  OBVIOUS
<1> QED
  BY <1>1 DEF LatestOf, Decider, Newest

\* The loop over any history ends with what the reader returns.
THEOREM LatestIsTheLoop ==
    ASSUME NEW A, NEW h \in Seq(A), NEW s
    PROVE  Latest(h, s) = LoopLatest(h, s)
<1> DEFINE n == Len(h)
           Loop(f) == [i \in 0 .. n |-> IF i = 0 THEN None ELSE Read(h, s, i, f[i - 1])]
           found == CHOOSE f : f = Loop(f)
           reader == [i \in 0 .. n |-> LatestOf(h, s, i)]
<1>1. n \in Nat /\ DOMAIN h = 1 .. n
  OBVIOUS
<1> HIDE DEF n
<1>2. reader = Loop(reader)
  <2>1. \A i \in 0 .. n : i # 0 => i - 1 \in 0 .. n /\ i \in Nat
    BY <1>1
  <2>2. \A i \in 0 .. n : i # 0 => LatestOf(h, s, i) = Read(h, s, i, reader[i - 1])
    BY <2>1, ReadStep
  <2>3. \A i \in 0 .. n : LatestOf(h, s, i) = IF i = 0 THEN None ELSE Read(h, s, i, reader[i - 1])
    BY <2>2, ReadNothing
  <2> QED
    BY <2>3
<1>3. found = Loop(found)
  <2> HIDE DEF Loop, reader
  <2> QED
    BY <1>2
<1> HIDE DEF found
<1>4. \A i \in 0 .. n : found[i] = IF i = 0 THEN None ELSE Read(h, s, i, found[i - 1])
  BY <1>3
<1>5. \A i \in 0 .. n : found[i] = LatestOf(h, s, i)
  <2> DEFINE Differ == {i \in 0 .. n : found[i] # LatestOf(h, s, i)}
  <2> SUFFICES ASSUME Differ # {} PROVE FALSE
    OBVIOUS
  <2>1. Differ \in SUBSET Nat
    BY <1>1
  <2>2. PICK i \in Differ : \A j \in Differ : i <= j
    <3> HIDE DEF Differ
    <3> QED
      BY <2>1, BoundedMin
  <2>3. i \in 0 .. n /\ i # 0
    BY <1>1, <1>4, ReadNothing
  <2>4. i - 1 \in 0 .. n /\ i \in Nat /\ i - 1 \notin Differ
    BY <1>1, <2>2, <2>3
  <2>5. found[i - 1] = LatestOf(h, s, i - 1)
    BY <2>4
  <2> QED
    BY <1>4, <2>3, <2>4, <2>5, ReadStep
<1>6. n \in 0 .. n
  BY <1>1
<1>7. LoopLatest(h, s) = found[n]
  BY DEF LoopLatest, found, n
<1>8. Latest(h, s) = LatestOf(h, s, n)
  BY <1>1 DEF Latest, LatestOf, Decider
<1> QED
  BY <1>5, <1>6, <1>7, <1>8

\* A history is a sequence that attempts are appended to.
LEMMA HistoriesAreSequences == Spec => [](history \in Seq(Attempts))
<1> DEFINE Inv == history \in Seq(Attempts)
<1>1. Init => Inv
  BY DEF Init
<1>2. Inv /\ [Next]_history => Inv'
  BY DEF Next
<1> HIDE DEF Inv
<1> QED
  <2>1. Spec => []Inv
    BY <1>1, <1>2, PTL DEF Spec
  <2> QED
    BY <2>1 DEF Inv

\* Latest picks the attempt that the loop over the array ends with, in every history.
THEOREM ReaderIsTheLoop == Spec => []LatestIsLoop
<1>1. history \in Seq(Attempts) => LatestIsLoop
  BY LatestIsTheLoop DEF LatestIsLoop
<1> QED
  BY <1>1, HistoriesAreSequences, PTL

\* No history shows an approval over a newer unfinished review of the same patch.
THEOREM UnfinishedAlwaysHides == Spec => []UnfinishedHidesApproval
<1>1. history \in Seq(Attempts) => UnfinishedHidesApproval
  <2> SUFFICES ASSUME history \in Seq(Attempts), NEW s \in Versions
               PROVE  ApprovalIsNewest(history, s)
    BY DEF UnfinishedHidesApproval
  <2>1. Len(history) \in Nat /\ DOMAIN history \subseteq 1 .. Len(history)
    OBVIOUS
  <2> QED
    BY <2>1, NewerReviewHidesApproval
<1> QED
  BY <1>1, HistoriesAreSequences, PTL

\* A reset of everything leaves nothing of the stack, in every history.
THEOREM ResetsAlwaysEmpty == Spec => []ResetLeavesNothing
<1>1. history \in Seq(Attempts) => ResetLeavesNothing
  <2> SUFFICES ASSUME history \in Seq(Attempts), NEW s \in Versions
               PROVE  ResetEmpties(history, <<s>>)
    BY DEF ResetLeavesNothing
  <2>1. Len(history) \in Nat /\ DOMAIN history \subseteq 1 .. Len(history)
    OBVIOUS
  <2> QED
    BY <2>1, ResetsLeaveNothing
<1> QED
  BY <1>1, HistoriesAreSequences, PTL

----------------------------------------------------------------------------
(* The assessment by a model *)

Fields == DOMAIN NoTalk

\* A models file makes finitely many offers.
LEMMA OffersFinite == ASSUME NEW file PROVE IsFiniteSet(Offers(file))
<1>1. IsFiniteSet(Providers \X ModelIds)
  BY ModelsAssumption, FS_Product
<1>2. Offers(file) \in SUBSET (Providers \X ModelIds)
  BY DEF Offers
<1> QED
  BY <1>1, <1>2, FS_Subset

\* What Resolve returns was offered, and the selector names it or no other has its ID.
LEMMA ResolvedIsNamed ==
    ASSUME NEW file, NEW selector \in Selectors, NEW o \in Resolve(file, selector)
    PROVE  /\ o \in Offers(file) /\ o = <<o[1], o[2]>>
           /\ \/ selector = <<o[1]>> \o o[2]
              \/ selector = o[2] /\ \A other \in Offers(file) \ {o} : other[2] # o[2]
<1>1. CASE NamesProvider(file, selector)
  <2>1. o = <<selector[1], Tail(selector)>> /\ o \in Offers(file)
    BY <1>1 DEF Resolve
  <2>2. selector \in Seq(STRING) /\ selector # <<>>
    <3>1. CASE selector \in ModelIds
      BY <3>1, ModelsAssumption
    <3>2. CASE selector \in {<<x[1]>> \o x[2] : x \in Providers \X ModelIds}
      <4>1. PICK x \in Providers \X ModelIds : selector = <<x[1]>> \o x[2]
        BY <3>2
      <4>2. x[1] \in STRING /\ x[2] \in Seq(STRING)
        BY ModelsAssumption
      <4>3. <<x[1]>> \in Seq(STRING) /\ Len(<<x[1]>>) = 1 /\ Len(x[2]) \in Nat
        BY <4>2
      <4>4. selector \in Seq(STRING) /\ Len(selector) = 1 + Len(x[2])
        BY <4>1, <4>2, <4>3, ConcatProperties
      <4> QED
        BY <4>3, <4>4
    <3> QED
      BY <3>1, <3>2 DEF Selectors
  <2>3. selector = <<selector[1]>> \o Tail(selector)
    BY <2>2
  <2> QED
    BY <2>1, <2>3
<1>2. CASE ~NamesProvider(file, selector)
  <2>1. o \in Named(file, selector) /\ Cardinality(Named(file, selector)) = 1
    BY <1>2 DEF Resolve, ResolveUniqueModel
  <2>2. IsFiniteSet(Named(file, selector))
    <3>1. Named(file, selector) \in SUBSET Offers(file)
      BY DEF Named
    <3> QED
      BY <3>1, OffersFinite, FS_Subset
  <2>3. PICK x : Named(file, selector) = {x}
    BY <2>1, <2>2, FS_Singleton
  <2>4. o \in Offers(file) /\ o[2] = selector
    BY <2>1 DEF Named
  <2>5. ASSUME NEW other \in Offers(file) \ {o}, other[2] = o[2] PROVE FALSE
    <3>1. other \in Named(file, selector)
      BY <2>4, <2>5 DEF Named
    <3> QED
      BY <3>1, <2>1, <2>3
  <2>6. o = <<o[1], o[2]>>
    BY <2>4 DEF Offers
  <2> QED
    BY <2>4, <2>5, <2>6
<1> QED
  BY <1>1, <1>2

\* The body of SelectionIsNamed for what Select picks.
NamedBy(file, flag, model) ==
    LET id   == model[2]
        p    == model[1]
        rest == Offers(file) \ {<<p, id>>}
    IN  \/ /\ <<p, id>> \in Offers(file) /\ file[p].callable
           /\ \/ flag = <<p>> \o id
              \/ flag = id /\ \A o \in rest : o[2] # id
              \/ flag = NoSelector /\ rest = {}
        \/ Offers(file) = {} /\ flag = id /\ id # NoSelector

\* What the selection ends with was named, or is the only offer.
LEMMA SelectedIsNamed ==
    ASSUME NEW file, NEW flag \in Selectors \cup {NoSelector},
           NEW s \in SelectModel(file, flag), NEW model \in AutoModel(file, s)
    PROVE  NamedBy(file, flag, model)
<1>1. \/ flag # NoSelector /\ s = flag
      \/ flag = NoSelector /\ Cardinality(Offers(file)) = 1 /\ s \in Only(file)
  BY DEF SelectModel
<1>2. ASSUME Cardinality(Offers(file)) = 1 PROVE \E x : Offers(file) = {x}
  BY <1>2, OffersFinite, FS_Singleton
<1>3. CASE \A p \in Providers : ~file[p].there
  <2>1. Offers(file) = {}
    BY <1>3 DEF Offers
  <2>2. flag # NoSelector /\ s = flag
    BY <1>1, <1>2, <2>1
  <2>3. model = <<"", s>>
    BY <1>3 DEF AutoModel
  <2> QED
    BY <2>1, <2>2, <2>3 DEF NamedBy
<1>4. CASE \E p \in Providers : file[p].there
  <2>1. model \in Resolve(file, s) /\ Callable(file, model)
    BY <1>4 DEF AutoModel
  <2>2. s \in Selectors
    <3>1. CASE s \in Only(file)
      <4>1. PICK o \in Offers(file) : s = <<o[1]>> \o o[2]
        BY <3>1 DEF Only
      <4>2. o \in Providers \X ModelIds
        BY DEF Offers
      <4> QED
        BY <4>1, <4>2 DEF Selectors
    <3> QED
      BY <1>1, <3>1
  <2>3. /\ model \in Offers(file) /\ model = <<model[1], model[2]>>
        /\ \/ s = <<model[1]>> \o model[2]
           \/ s = model[2] /\ \A other \in Offers(file) \ {model} : other[2] # model[2]
    BY <2>1, <2>2, ResolvedIsNamed
  <2>4. <<model[1], model[2]>> \in Offers(file) /\ file[model[1]].callable
    BY <2>1, <2>3 DEF Callable
  <2>5. CASE flag # NoSelector /\ s = flag
    <3> DEFINE id == model[2]
               p == model[1]
    <3>1. \/ flag = <<p>> \o id
          \/ flag = id /\ \A o \in Offers(file) \ {<<p, id>>} : o[2] # id
      BY <2>3, <2>5
    <3> QED
      BY <2>4, <3>1 DEF NamedBy
  <2>6. CASE flag = NoSelector /\ Cardinality(Offers(file)) = 1
    <3>1. Offers(file) \ {<<model[1], model[2]>>} = {}
      BY <2>6, <2>4, <1>2
    <3> QED
      BY <2>4, <2>6, <3>1 DEF NamedBy
  <2> QED
    BY <1>1, <2>5, <2>6
<1> QED
  BY <1>3, <1>4

\* The calls that wait for their result, and the entries of a conversation.
Calls == [type : {"call"}, id : CallIds, tool : {"read_file", "search", "unknown"}]
Entries == ({"call", "output"} \X CallIds) \cup ({"reasoning"} \X {""})

\* The call at i has one answer, which came later.
Answered(sent, i) ==
    \E j \in (i + 1) .. Len(sent) :
        /\ sent[j] = <<"output", sent[i][2]>>
        /\ \A k \in DOMAIN sent \ {i, j} : sent[k][2] # sent[i][2]

\* Every call has its answer or waits for it; what waits was called once, and nothing
\* has answered it.
Talked(sent, pending) ==
    /\ \A i \in DOMAIN sent : sent[i][1] = "call" =>
          Answered(sent, i) \/ \E k \in DOMAIN pending : pending[k].id = sent[i][2]
    /\ \A j \in DOMAIN sent : sent[j][1] = "output" => sent[j][2] \in Called(sent)
    /\ \A k \in DOMAIN pending : \E i \in DOMAIN sent :
          /\ sent[i] = <<"call", pending[k].id>>
          /\ \A j \in DOMAIN sent \ {i} : sent[j][2] # sent[i][2]
    /\ \A k, l \in DOMAIN pending : pending[k].id = pending[l].id => k = l

\* One entry more.
LEMMA OneMore ==
    ASSUME NEW S, NEW s \in Seq(S), NEW e \in S
    PROVE  LET more == Append(s, e)
               n == Len(s)
           IN  /\ n \in Nat /\ DOMAIN s = 1 .. n
               /\ more \in Seq(S) /\ Len(more) = n + 1 /\ DOMAIN more = 1 .. (n + 1)
               /\ \A k \in DOMAIN s : more[k] = s[k] /\ k \in DOMAIN more
               /\ more[n + 1] = e /\ n + 1 \in DOMAIN more
               /\ \A k \in DOMAIN more : k \in DOMAIN s \/ k = n + 1
<1>1. Len(s) \in Nat /\ DOMAIN s = 1 .. Len(s)
  OBVIOUS
<1>2. /\ Append(s, e) \in Seq(S) /\ Len(Append(s, e)) = Len(s) + 1
      /\ \A k \in 1 .. Len(s) : Append(s, e)[k] = s[k]
      /\ Append(s, e)[Len(s) + 1] = e
  BY AppendProperties
<1>3. DOMAIN Append(s, e) = 1 .. (Len(s) + 1)
  BY <1>2
<1>4. \A k \in 1 .. (Len(s) + 1) : k \in 1 .. Len(s) \/ k = Len(s) + 1
  BY <1>1
<1>5. Len(s) + 1 \in 1 .. (Len(s) + 1) /\ \A k \in 1 .. Len(s) : k \in 1 .. (Len(s) + 1)
  BY <1>1
<1> QED
  BY <1>1, <1>2, <1>3, <1>4, <1>5

\* The IDs of the entries of a conversation.
LEMMA EntryIds ==
    ASSUME NEW sent \in Seq(Entries), NEW pending \in Seq(Calls), Talked(sent, pending),
           NEW j \in DOMAIN sent
    PROVE  sent[j][2] = "" \/ sent[j][2] \in Called(sent)
<1>1. sent[j] \in Entries
  OBVIOUS
<1>2. sent[j][1] = "call" => sent[j][2] \in Called(sent)
  BY DEF Called
<1>3. sent[j][1] = "output" => sent[j][2] \in Called(sent)
  BY DEF Talked
<1>4. sent[j][1] \in {"call", "output"} \/ sent[j][2] = ""
  BY <1>1 DEF Entries
<1> QED
  BY <1>2, <1>3, <1>4

\* An answer stays one when an entry with another ID follows.
LEMMA StaysAnswered ==
    ASSUME NEW sent \in Seq(Entries), NEW e \in Entries, NEW i \in DOMAIN sent,
           Answered(sent, i), e[2] # sent[i][2]
    PROVE  Answered(Append(sent, e), i)
<1> DEFINE more == Append(sent, e)
           n == Len(sent)
<1>1. /\ n \in Nat /\ DOMAIN sent = 1 .. n /\ Len(more) = n + 1 /\ DOMAIN more = 1 .. (n + 1)
      /\ \A k \in 1 .. n : more[k] = sent[k]
      /\ more[n + 1] = e
  BY AppendProperties
<1>2. PICK j \in (i + 1) .. n :
         /\ sent[j] = <<"output", sent[i][2]>>
         /\ \A k \in DOMAIN sent \ {i, j} : sent[k][2] # sent[i][2]
  BY DEF Answered
<1> HIDE DEF more, n
<1>3. j \in (i + 1) .. (n + 1) /\ j \in 1 .. n /\ i \in 1 .. n
  BY <1>1, <1>2
<1>4. more[j] = <<"output", more[i][2]>>
  BY <1>1, <1>2, <1>3
<1>5. \A k \in (1 .. (n + 1)) \ {i, j} : more[k][2] # more[i][2]
  <2> SUFFICES ASSUME NEW k \in (1 .. (n + 1)) \ {i, j} PROVE more[k][2] # more[i][2]
    OBVIOUS
  <2>1. k \in 1 .. n \/ k = n + 1
    BY <1>1
  <2> QED
    BY <1>1, <1>2, <1>3, <2>1
<1> QED
  BY <1>1, <1>3, <1>4, <1>5 DEF Answered, more, n

\* A call waits on when an entry with another ID follows.
LEMMA StaysAlone ==
    ASSUME NEW sent \in Seq(Entries), NEW e \in Entries, NEW i \in DOMAIN sent,
           \A j \in DOMAIN sent \ {i} : sent[j][2] # sent[i][2], e[2] # sent[i][2]
    PROVE  LET more == Append(sent, e)
           IN  /\ i \in DOMAIN more /\ more[i] = sent[i]
               /\ \A j \in DOMAIN more \ {i} : more[j][2] # more[i][2]
<1> DEFINE more == Append(sent, e)
           n == Len(sent)
<1>1. /\ n \in Nat /\ DOMAIN sent = 1 .. n /\ DOMAIN more = 1 .. (n + 1)
      /\ \A k \in 1 .. n : more[k] = sent[k]
      /\ more[n + 1] = e
  BY AppendProperties
<1> HIDE DEF more, n
<1>2. i \in 1 .. n /\ i \in 1 .. (n + 1) /\ more[i] = sent[i]
  BY <1>1
<1>3. \A j \in (1 .. (n + 1)) \ {i} : more[j][2] # more[i][2]
  <2> SUFFICES ASSUME NEW j \in (1 .. (n + 1)) \ {i} PROVE more[j][2] # more[i][2]
    OBVIOUS
  <2>1. j \in 1 .. n \/ j = n + 1
    BY <1>1
  <2> QED
    BY <1>1, <1>2, <2>1
<1> QED
  BY <1>1, <1>2, <1>3 DEF more

\* What the IDs of the calls are after one entry more.
LEMMA CalledMore ==
    ASSUME NEW sent \in Seq(Entries), NEW e \in Entries
    PROVE  /\ Called(sent) \subseteq Called(Append(sent, e))
           /\ e[1] = "call" => e[2] \in Called(Append(sent, e))
<1> DEFINE more == Append(sent, e)
           n == Len(sent)
<1>1. /\ n \in Nat /\ DOMAIN sent = 1 .. n /\ DOMAIN more = 1 .. (n + 1)
      /\ \A k \in 1 .. n : more[k] = sent[k]
      /\ more[n + 1] = e
  BY AppendProperties
<1> HIDE DEF more, n
<1>2. n + 1 \in DOMAIN more /\ \A k \in 1 .. n : k \in DOMAIN more
  BY <1>1
<1> QED
  BY <1>1, <1>2 DEF Called, more

\* Reasoning says nothing of the calls.
LEMMA TalkedReasoning ==
    ASSUME NEW sent \in Seq(Entries), NEW pending \in Seq(Calls), Talked(sent, pending)
    PROVE  Talked(Append(sent, <<"reasoning", "">>), pending)
<1> DEFINE e == <<"reasoning", "">>
           more == Append(sent, e)
           n == Len(sent)
<1>0. e \in Entries /\ e[1] = "reasoning" /\ e[2] = ""
  BY DEF Entries
<1> HIDE DEF e
<1>1. /\ n \in Nat /\ DOMAIN sent = 1 .. n /\ DOMAIN more = 1 .. (n + 1)
      /\ \A k \in DOMAIN sent : more[k] = sent[k] /\ k \in DOMAIN more
      /\ more[n + 1] = e /\ n + 1 \in DOMAIN more
      /\ \A k \in DOMAIN more : k \in DOMAIN sent \/ k = n + 1
  <2>1. e \in Entries
    BY <1>0
  <2> QED
    BY <2>1, OneMore
<1>2. \A i \in DOMAIN sent : sent[i][1] = "call" => e[2] # sent[i][2]
  <2>1. \A i \in DOMAIN sent : sent[i] \in Entries
    OBVIOUS
  <2> QED
    BY <1>0, <2>1, AutoReviewAssumption DEF Entries
<1> HIDE DEF more, n
<1>3. \A i \in DOMAIN more : more[i][1] = "call" =>
         Answered(more, i) \/ \E k \in DOMAIN pending : pending[k].id = more[i][2]
  <2> SUFFICES ASSUME NEW i \in DOMAIN more, more[i][1] = "call"
               PROVE  Answered(more, i) \/ \E k \in DOMAIN pending : pending[k].id = more[i][2]
    OBVIOUS
  <2>1. i \in DOMAIN sent /\ more[i] = sent[i]
    BY <1>0, <1>1
  <2>2. Answered(sent, i) => Answered(more, i)
    BY <1>0, <1>2, <2>1, StaysAnswered DEF more
  <2> QED
    BY <2>1, <2>2 DEF Talked
<1>4. \A j \in DOMAIN more : more[j][1] = "output" => more[j][2] \in Called(more)
  <2>1. Called(sent) \subseteq Called(more)
    BY <1>0, CalledMore DEF more
  <2>2. \A j \in DOMAIN sent : sent[j][1] = "output" => sent[j][2] \in Called(sent)
    BY DEF Talked
  <2> QED
    BY <1>0, <1>1, <2>1, <2>2
<1>5. \A k \in DOMAIN pending : \E i \in DOMAIN more :
         /\ more[i] = <<"call", pending[k].id>>
         /\ \A j \in DOMAIN more \ {i} : more[j][2] # more[i][2]
  <2> SUFFICES ASSUME NEW k \in DOMAIN pending
               PROVE  \E i \in DOMAIN more :
                         /\ more[i] = <<"call", pending[k].id>>
                         /\ \A j \in DOMAIN more \ {i} : more[j][2] # more[i][2]
    OBVIOUS
  <2>1. PICK i \in DOMAIN sent :
           /\ sent[i] = <<"call", pending[k].id>>
           /\ \A j \in DOMAIN sent \ {i} : sent[j][2] # sent[i][2]
    BY DEF Talked
  <2>2. e[2] # sent[i][2]
    BY <1>2, <2>1
  <2>3. /\ i \in DOMAIN more /\ more[i] = sent[i]
        /\ \A j \in DOMAIN more \ {i} : more[j][2] # more[i][2]
    BY <1>0, <2>1, <2>2, StaysAlone DEF more
  <2> QED
    BY <2>1, <2>3
<1> QED
  BY <1>3, <1>4, <1>5 DEF Talked, more, e

\* A call with an ID that no call has had.
LEMMA TalkedCall ==
    ASSUME NEW sent \in Seq(Entries), NEW pending \in Seq(Calls), Talked(sent, pending),
           NEW call \in Calls, call.id \notin Called(sent)
    PROVE  Talked(Append(sent, <<"call", call.id>>), Append(pending, call))
<1> DEFINE e == <<"call", call.id>>
           more == Append(sent, e)
           n == Len(sent)
           waiting == Append(pending, call)
           m == Len(pending)
<1>0. e \in Entries /\ e[1] = "call" /\ e[2] = call.id /\ call.id # ""
  BY AutoReviewAssumption DEF Entries, Calls
<1> HIDE DEF e
<1>1. /\ n \in Nat /\ DOMAIN sent = 1 .. n /\ DOMAIN more = 1 .. (n + 1)
      /\ \A k \in DOMAIN sent : more[k] = sent[k] /\ k \in DOMAIN more
      /\ more[n + 1] = e /\ n + 1 \in DOMAIN more
      /\ \A k \in DOMAIN more : k \in DOMAIN sent \/ k = n + 1
  <2>1. e \in Entries
    BY <1>0
  <2> QED
    BY <2>1, OneMore
<1>2. /\ m \in Nat /\ DOMAIN pending = 1 .. m /\ DOMAIN waiting = 1 .. (m + 1)
      /\ \A k \in DOMAIN pending : waiting[k] = pending[k] /\ k \in DOMAIN waiting
      /\ waiting[m + 1] = call /\ m + 1 \in DOMAIN waiting
      /\ \A k \in DOMAIN waiting : k \in DOMAIN pending \/ k = m + 1
  BY OneMore
<1>3. \A j \in DOMAIN sent : sent[j][2] # e[2]
  BY <1>0, EntryIds
<1> HIDE DEF more, n, waiting, m
<1>4. \A i \in DOMAIN more : more[i][1] = "call" =>
         Answered(more, i) \/ \E k \in DOMAIN waiting : waiting[k].id = more[i][2]
  <2> SUFFICES ASSUME NEW i \in DOMAIN more, more[i][1] = "call"
               PROVE  Answered(more, i) \/ \E k \in DOMAIN waiting : waiting[k].id = more[i][2]
    OBVIOUS
  <2>1. CASE i \in DOMAIN sent
    <3>1. more[i] = sent[i]
      BY <1>1, <2>1
    <3>2. Answered(sent, i) => Answered(more, i)
      BY <1>0, <1>3, <2>1, StaysAnswered DEF more
    <3>3. (\E k \in DOMAIN pending : pending[k].id = sent[i][2])
             => \E k \in DOMAIN waiting : waiting[k].id = more[i][2]
      BY <1>2, <3>1
    <3> QED
      BY <2>1, <3>1, <3>2, <3>3 DEF Talked
  <2>2. CASE i = n + 1
    BY <1>0, <1>1, <1>2, <2>2
  <2> QED
    BY <1>1, <2>1, <2>2
<1>5. \A j \in DOMAIN more : more[j][1] = "output" => more[j][2] \in Called(more)
  <2>1. Called(sent) \subseteq Called(more)
    BY <1>0, CalledMore DEF more
  <2>2. \A j \in DOMAIN sent : sent[j][1] = "output" => sent[j][2] \in Called(sent)
    BY DEF Talked
  <2> QED
    BY <1>0, <1>1, <2>1, <2>2
<1>6. \A k \in DOMAIN waiting : \E i \in DOMAIN more :
         /\ more[i] = <<"call", waiting[k].id>>
         /\ \A j \in DOMAIN more \ {i} : more[j][2] # more[i][2]
  <2> SUFFICES ASSUME NEW k \in DOMAIN waiting
               PROVE  \E i \in DOMAIN more :
                         /\ more[i] = <<"call", waiting[k].id>>
                         /\ \A j \in DOMAIN more \ {i} : more[j][2] # more[i][2]
    OBVIOUS
  <2>1. CASE k \in DOMAIN pending
    <3>1. PICK i \in DOMAIN sent :
             /\ sent[i] = <<"call", pending[k].id>>
             /\ \A j \in DOMAIN sent \ {i} : sent[j][2] # sent[i][2]
      BY <2>1 DEF Talked
    <3>2. e[2] # sent[i][2]
      BY <1>3, <3>1
    <3>3. /\ i \in DOMAIN more /\ more[i] = sent[i]
          /\ \A j \in DOMAIN more \ {i} : more[j][2] # more[i][2]
      BY <1>0, <3>1, <3>2, StaysAlone DEF more
    <3> QED
      BY <1>2, <2>1, <3>1, <3>3
  <2>2. CASE k = m + 1
    <3>1. more[n + 1] = <<"call", waiting[k].id>>
      BY <1>1, <1>2, <2>2 DEF e
    <3>2. \A j \in DOMAIN more \ {n + 1} : more[j][2] # more[n + 1][2]
      BY <1>1, <1>3
    <3> QED
      BY <1>1, <3>1, <3>2
  <2> QED
    BY <1>2, <2>1, <2>2
<1>7. \A k, l \in DOMAIN waiting : waiting[k].id = waiting[l].id => k = l
  <2>1. \A k \in DOMAIN pending : pending[k].id # call.id
    <3> SUFFICES ASSUME NEW k \in DOMAIN pending PROVE pending[k].id # call.id
      OBVIOUS
    <3>1. PICK i \in DOMAIN sent : sent[i] = <<"call", pending[k].id>>
      BY DEF Talked
    <3>2. sent[i][2] = pending[k].id /\ sent[i][2] # e[2]
      BY <1>3, <3>1
    <3> QED
      BY <1>0, <3>2
  <2>2. \A k, l \in DOMAIN pending : pending[k].id = pending[l].id => k = l
    BY DEF Talked
  <2> QED
    BY <1>2, <2>1, <2>2
<1> QED
  BY <1>4, <1>5, <1>6, <1>7 DEF Talked, more, e, waiting

\* The first of the calls that wait is answered.
LEMMA TalkedOutput ==
    ASSUME NEW sent \in Seq(Entries), NEW pending \in Seq(Calls), Talked(sent, pending),
           pending # <<>>
    PROVE  Talked(Append(sent, <<"output", Head(pending).id>>), Tail(pending))
<1> DEFINE call == pending[1]
           e == <<"output", call.id>>
           more == Append(sent, e)
           n == Len(sent)
           rest == Tail(pending)
           m == Len(pending)
<1>2. /\ m \in Nat /\ m >= 1 /\ DOMAIN pending = 1 .. m /\ DOMAIN rest = 1 .. (m - 1)
      /\ \A k \in 1 .. (m - 1) : rest[k] = pending[k + 1] /\ k + 1 \in DOMAIN pending
      /\ \A k \in DOMAIN pending : k = 1 \/ (k - 1 \in DOMAIN rest /\ rest[k - 1] = pending[k])
      /\ call \in Calls /\ 1 \in DOMAIN pending
      /\ Head(pending) = call
  <2>1. m \in Nat /\ m >= 1 /\ DOMAIN pending = 1 .. m /\ Head(pending) = call
    OBVIOUS
  <2>2. rest \in Seq(Calls) /\ Len(rest) = m - 1 /\ \A k \in 1 .. Len(rest) : rest[k] = pending[k + 1]
    BY HeadTailProperties
  <2>3. DOMAIN rest = 1 .. (m - 1)
    BY <2>2
  <2>4. 1 \in DOMAIN pending /\ call \in Calls
    BY <2>1 DEF call
  <2> HIDE DEF m, rest, call
  <2>5. \A k \in 1 .. (m - 1) : k + 1 \in 1 .. m
    BY <2>1
  <2>6. \A k \in 1 .. m : k = 1 \/ (k - 1 \in 1 .. (m - 1) /\ rest[k - 1] = pending[k])
    <3>1. \A k \in 1 .. m : k = 1 \/ (k - 1 \in 1 .. (m - 1) /\ (k - 1) + 1 = k)
      BY <2>1
    <3> QED
      BY <2>2, <2>3, <3>1
  <2> QED
    BY <2>1, <2>2, <2>3, <2>4, <2>5, <2>6
<1>0. e \in Entries /\ e[1] = "output" /\ e[2] = call.id
  BY <1>2 DEF Entries, Calls
<1> HIDE DEF e
<1>1. /\ n \in Nat /\ DOMAIN sent = 1 .. n /\ DOMAIN more = 1 .. (n + 1) /\ Len(more) = n + 1
      /\ \A k \in DOMAIN sent : more[k] = sent[k] /\ k \in DOMAIN more
      /\ more[n + 1] = e /\ n + 1 \in DOMAIN more
      /\ \A k \in DOMAIN more : k \in DOMAIN sent \/ k = n + 1
  <2>1. e \in Entries
    BY <1>0
  <2> QED
    BY <2>1, OneMore
<1> HIDE DEF more, n, rest, m
<1>3. PICK c \in DOMAIN sent :
         /\ sent[c] = <<"call", call.id>>
         /\ \A j \in DOMAIN sent \ {c} : sent[j][2] # sent[c][2]
  BY <1>2 DEF Talked
<1>4. \A i \in DOMAIN more : more[i][1] = "call" =>
         Answered(more, i) \/ \E k \in DOMAIN rest : rest[k].id = more[i][2]
  <2> SUFFICES ASSUME NEW i \in DOMAIN more, more[i][1] = "call"
               PROVE  Answered(more, i) \/ \E k \in DOMAIN rest : rest[k].id = more[i][2]
    OBVIOUS
  <2>1. i \in DOMAIN sent /\ more[i] = sent[i]
    BY <1>0, <1>1
  <2>2. CASE i = c
    <3>1. n + 1 \in (i + 1) .. Len(more)
      BY <1>1, <2>1
    <3>2. more[n + 1] = <<"output", more[i][2]>>
      BY <1>1, <1>3, <2>1, <2>2 DEF e
    <3>3. \A k \in DOMAIN more \ {i, n + 1} : more[k][2] # more[i][2]
      BY <1>1, <1>3, <2>1, <2>2
    <3> QED
      BY <3>1, <3>2, <3>3 DEF Answered
  <2>3. CASE i # c
    <3>1. e[2] # sent[i][2]
      BY <1>0, <1>3, <2>1, <2>3
    <3>2. Answered(sent, i) => Answered(more, i)
      BY <1>0, <2>1, <3>1, StaysAnswered DEF more
    <3>3. \A k \in DOMAIN pending : pending[k].id = sent[i][2] => k # 1
      BY <1>0, <3>1
    <3>4. (\E k \in DOMAIN pending : pending[k].id = sent[i][2])
             => \E k \in DOMAIN rest : rest[k].id = more[i][2]
      BY <1>2, <2>1, <3>3
    <3> QED
      BY <2>1, <3>2, <3>4 DEF Talked
  <2> QED
    BY <2>2, <2>3
<1>5. \A j \in DOMAIN more : more[j][1] = "output" => more[j][2] \in Called(more)
  <2>1. Called(sent) \subseteq Called(more)
    BY <1>0, CalledMore DEF more
  <2>2. call.id \in Called(sent)
    BY <1>3 DEF Called
  <2> QED
    BY <1>0, <1>1, <2>1, <2>2 DEF Talked
<1>6. \A k \in DOMAIN rest : \E i \in DOMAIN more :
         /\ more[i] = <<"call", rest[k].id>>
         /\ \A j \in DOMAIN more \ {i} : more[j][2] # more[i][2]
  <2> SUFFICES ASSUME NEW k \in DOMAIN rest
               PROVE  \E i \in DOMAIN more :
                         /\ more[i] = <<"call", rest[k].id>>
                         /\ \A j \in DOMAIN more \ {i} : more[j][2] # more[i][2]
    OBVIOUS
  <2>1. k + 1 \in DOMAIN pending /\ rest[k] = pending[k + 1] /\ k + 1 # 1
    BY <1>2
  <2>2. PICK i \in DOMAIN sent :
           /\ sent[i] = <<"call", pending[k + 1].id>>
           /\ \A j \in DOMAIN sent \ {i} : sent[j][2] # sent[i][2]
    BY <2>1 DEF Talked
  <2>3. pending[k + 1].id # call.id
    BY <1>2, <2>1 DEF Talked
  <2>4. e[2] # sent[i][2]
    BY <1>0, <2>2, <2>3
  <2>5. /\ i \in DOMAIN more /\ more[i] = sent[i]
        /\ \A j \in DOMAIN more \ {i} : more[j][2] # more[i][2]
    BY <1>0, <2>2, <2>4, StaysAlone DEF more
  <2> QED
    BY <2>1, <2>2, <2>5
<1>7. \A k, l \in DOMAIN rest : rest[k].id = rest[l].id => k = l
  <2>1. \A k, l \in DOMAIN pending : pending[k].id = pending[l].id => k = l
    BY DEF Talked
  <2> SUFFICES ASSUME NEW k \in DOMAIN rest, NEW l \in DOMAIN rest, rest[k].id = rest[l].id
               PROVE  k = l
    OBVIOUS
  <2>2. /\ k \in 1 .. (m - 1) /\ l \in 1 .. (m - 1)
        /\ pending[k + 1].id = pending[l + 1].id /\ k + 1 \in DOMAIN pending /\ l + 1 \in DOMAIN pending
    BY <1>2
  <2>3. k + 1 = l + 1
    BY <2>1, <2>2
  <2> QED
    BY <2>2, <2>3
<1>8. Talked(more, rest)
  BY <1>4, <1>5, <1>6, <1>7 DEF Talked
<1> QED
  BY <1>2, <1>8 DEF more, e, rest

\* What has been read of a response.
Reads == [ok : BOOLEAN, texts : Seq(Replies), pending : Seq(Calls), sent : Seq(Entries)]

\* The messages among the first i items.
Said(items, i) == {j \in 1 .. i : items[j].type = "message"}

\* What r says of the first i items.
ReadSoFar(items, i, r) ==
    /\ r \in Reads
    /\ r.ok =>
         /\ Len(r.texts) = Cardinality(Said(items, i))
         /\ \A k \in DOMAIN r.texts :
              \E j \in 1 .. i : items[j] = [type |-> "message", text |-> r.texts[k]]
         /\ r.pending = <<>> => \A j \in 1 .. i : items[j].type \in {"reasoning", "message"}
         /\ Talked(r.sent, r.pending)

\* One message more, or none.
LEMMA MessagesStep ==
    ASSUME NEW items, NEW i \in Nat, i # 0
    PROVE  /\ IsFiniteSet(Said(items, i)) /\ Cardinality(Said(items, i)) \in Nat
           /\ Cardinality(Said(items, i)) =
                IF items[i].type = "message" THEN Cardinality(Said(items, i - 1)) + 1
                                             ELSE Cardinality(Said(items, i - 1))
<1>1. i - 1 \in Nat /\ 1 .. i = (1 .. (i - 1)) \cup {i} /\ i \notin 1 .. (i - 1)
  OBVIOUS
<1>2. \A k \in Nat : IsFiniteSet(Said(items, k))
  <2> SUFFICES ASSUME NEW k \in Nat PROVE IsFiniteSet(Said(items, k))
    OBVIOUS
  <2>1. IsFiniteSet(1 .. k)
    BY FS_Interval
  <2>2. Said(items, k) \in SUBSET (1 .. k)
    BY DEF Said
  <2> QED
    BY <2>1, <2>2, FS_Subset
<1>3. IsFiniteSet(Said(items, i)) /\ IsFiniteSet(Said(items, i - 1))
  BY <1>1, <1>2
<1>4. Cardinality(Said(items, i)) \in Nat
  BY <1>3, FS_CardinalityType
<1>5. CASE items[i].type = "message"
  <2>1. Said(items, i) = Said(items, i - 1) \cup {i} /\ i \notin Said(items, i - 1)
    BY <1>1, <1>5 DEF Said
  <2>2. Cardinality(Said(items, i - 1) \cup {i}) = Cardinality(Said(items, i - 1)) + 1
    BY <1>3, <2>1, FS_AddElement
  <2> QED
    BY <1>3, <1>4, <1>5, <2>1, <2>2
<1>6. CASE items[i].type # "message"
  <2>1. Said(items, i) = Said(items, i - 1)
    BY <1>1, <1>6 DEF Said
  <2> QED
    BY <1>3, <1>4, <1>6, <2>1
<1> QED
  BY <1>5, <1>6

\* applyReviewItem keeps what is known of the response.
LEMMA ApplyReads ==
    ASSUME NEW items \in Seq(Items), NEW i \in 1 .. Len(items),
           NEW r, ReadSoFar(items, i - 1, r)
    PROVE  ReadSoFar(items, i, Apply(r, items[i]))
<1> DEFINE item == items[i]
           s == Apply(r, item)
<1>0. /\ r \in Reads /\ item \in Items /\ i \in Nat /\ i # 0
      /\ \A j \in 1 .. i : j \in 1 .. (i - 1) \/ j = i
      /\ \A j \in 1 .. (i - 1) : j \in 1 .. i
      /\ i \in 1 .. i
  BY DEF ReadSoFar
<1>1. CASE ~r.ok
  <2>1. s = r
    BY <1>1 DEF Apply
  <2> QED
    BY <1>0, <1>1, <2>1 DEF ReadSoFar
<1>2. CASE r.ok /\ item.type = "other"
  <2>1. s = [r EXCEPT !.ok = FALSE]
    BY <1>2 DEF Apply
  <2>2. s \in Reads /\ ~s.ok
    BY <1>0, <2>1 DEF Reads
  <2> QED
    BY <2>2 DEF ReadSoFar
<1>3. CASE r.ok /\ item.type = "reasoning"
  <2>1. s = [r EXCEPT !.sent = Append(@, <<"reasoning", "">>)]
    BY <1>3 DEF Apply
  <2>2. r.sent \in Seq(Entries) /\ r.pending \in Seq(Calls) /\ <<"reasoning", "">> \in Entries
    BY <1>0 DEF Reads, Entries
  <2>3. Append(r.sent, <<"reasoning", "">>) \in Seq(Entries)
    <3> DEFINE e == <<"reasoning", "">>
    <3>1. e \in Entries /\ r.sent \in Seq(Entries)
      BY <2>2
    <3> HIDE DEF e
    <3>2. Append(r.sent, e) \in Seq(Entries)
      BY <3>1, AppendProperties
    <3> QED
      BY <3>2 DEF e
  <2>4. /\ s \in Reads /\ s.ok /\ s.texts = r.texts /\ s.pending = r.pending
        /\ s.sent = Append(r.sent, <<"reasoning", "">>)
    <3> DEFINE new == Append(r.sent, <<"reasoning", "">>)
    <3>1. s = [r EXCEPT !.sent = new] /\ new \in Seq(Entries)
      BY <2>1, <2>3
    <3> HIDE DEF new
    <3>2. s \in Reads /\ s.ok /\ s.texts = r.texts /\ s.pending = r.pending /\ s.sent = new
      BY <1>0, <1>3, <3>1 DEF Reads
    <3> QED
      BY <3>2 DEF new
  <2>5. Talked(s.sent, s.pending)
    BY <1>3, <2>2, <2>4, TalkedReasoning DEF ReadSoFar
  <2>6. Len(s.texts) = Cardinality(Said(items, i))
    BY <1>0, <1>3, <2>4, MessagesStep DEF ReadSoFar
  <2>7. \A k \in DOMAIN s.texts :
          \E j \in 1 .. i : items[j] = [type |-> "message", text |-> s.texts[k]]
    BY <1>0, <1>3, <2>4 DEF ReadSoFar
  <2>8. s.pending = <<>> => \A j \in 1 .. i : items[j].type \in {"reasoning", "message"}
    BY <1>0, <1>3, <2>4 DEF ReadSoFar
  <2> QED
    BY <2>4, <2>5, <2>6, <2>7, <2>8 DEF ReadSoFar
<1>4. CASE r.ok /\ item.type = "message"
  <2>1. s = [r EXCEPT !.texts = Append(@, item.text)]
    BY <1>4 DEF Apply
  <2>2. item.text \in Replies /\ item = [type |-> "message", text |-> item.text]
    BY <1>0, <1>4 DEF Items
  <2>3. /\ Append(r.texts, item.text) \in Seq(Replies)
        /\ Len(Append(r.texts, item.text)) = Len(r.texts) + 1
        /\ r.texts \in Seq(Replies)
    BY <1>0, <2>2, AppendProperties DEF Reads
  <2>4. /\ s \in Reads /\ s.ok /\ s.texts = Append(r.texts, item.text)
        /\ s.pending = r.pending /\ s.sent = r.sent
    BY <1>0, <1>4, <2>1, <2>3 DEF Reads
  <2>6. Len(s.texts) = Cardinality(Said(items, i))
    BY <1>0, <1>4, <2>3, <2>4, MessagesStep DEF ReadSoFar
  <2>7. \A k \in DOMAIN s.texts :
          \E j \in 1 .. i : items[j] = [type |-> "message", text |-> s.texts[k]]
    <3> SUFFICES ASSUME NEW k \in DOMAIN s.texts
                 PROVE  \E j \in 1 .. i : items[j] = [type |-> "message", text |-> s.texts[k]]
      OBVIOUS
    <3>1. (k \in DOMAIN r.texts /\ s.texts[k] = r.texts[k]) \/ s.texts[k] = item.text
      BY <2>2, <2>3, <2>4, OneMore
    <3> QED
      BY <1>0, <1>4, <2>2, <3>1 DEF ReadSoFar
  <2>8. s.pending = <<>> => \A j \in 1 .. i : items[j].type \in {"reasoning", "message"}
    BY <1>0, <1>4, <2>4 DEF ReadSoFar
  <2> QED
    BY <1>4, <2>4, <2>6, <2>7, <2>8 DEF ReadSoFar
<1>5. CASE r.ok /\ item.type = "call"
  <2>0. item \in Calls
    BY <1>0, <1>5 DEF Items, Calls
  <2>1. s = AppendCall(r, item)
    BY <1>5 DEF Apply
  <2>2. CASE item.id \in Called(r.sent)
    <3>1. s = [r EXCEPT !.ok = FALSE]
      BY <2>1, <2>2 DEF AppendCall
    <3>2. s \in Reads /\ ~s.ok
      BY <1>0, <3>1 DEF Reads
    <3> QED
      BY <3>2 DEF ReadSoFar
  <2>3. CASE item.id \notin Called(r.sent)
    <3>1. s = [r EXCEPT !.pending = Append(@, item), !.sent = Append(@, <<"call", item.id>>)]
      BY <2>1, <2>3 DEF AppendCall
    <3>2. r.sent \in Seq(Entries) /\ r.pending \in Seq(Calls) /\ <<"call", item.id>> \in Entries
      BY <1>0, <2>0 DEF Reads, Entries, Calls
    <3>3. /\ Append(r.sent, <<"call", item.id>>) \in Seq(Entries)
          /\ Append(r.pending, item) \in Seq(Calls) /\ Append(r.pending, item) # <<>>
      <4> DEFINE e == <<"call", item.id>>
      <4>1. e \in Entries /\ r.sent \in Seq(Entries)
        BY <3>2
      <4> HIDE DEF e
      <4>2. Append(r.sent, e) \in Seq(Entries)
        BY <4>1, AppendProperties
      <4>3. Append(r.pending, item) \in Seq(Calls) /\ Append(r.pending, item) # <<>>
        BY <2>0, <3>2, AppendProperties
      <4> QED
        BY <4>2, <4>3 DEF e
    <3>4. /\ s \in Reads /\ s.ok /\ s.texts = r.texts /\ s.pending = Append(r.pending, item)
          /\ s.sent = Append(r.sent, <<"call", item.id>>)
      <4> DEFINE new == Append(r.sent, <<"call", item.id>>)
                 more == Append(r.pending, item)
      <4>1. s = [r EXCEPT !.pending = more, !.sent = new] /\ new \in Seq(Entries) /\ more \in Seq(Calls)
        BY <3>1, <3>3
      <4> HIDE DEF new, more
      <4>2. s \in Reads /\ s.ok /\ s.texts = r.texts /\ s.pending = more /\ s.sent = new
        BY <1>0, <1>5, <4>1 DEF Reads
      <4> QED
        BY <4>2 DEF new, more
    <3>5. Talked(s.sent, s.pending)
      BY <1>5, <2>0, <2>3, <3>2, <3>4, TalkedCall DEF ReadSoFar
    <3>6. Len(s.texts) = Cardinality(Said(items, i))
      BY <1>0, <1>5, <3>4, MessagesStep DEF ReadSoFar
    <3>7. \A k \in DOMAIN s.texts :
            \E j \in 1 .. i : items[j] = [type |-> "message", text |-> s.texts[k]]
      BY <1>0, <1>5, <3>4 DEF ReadSoFar
    <3> QED
      BY <3>3, <3>4, <3>5, <3>6, <3>7 DEF ReadSoFar
  <2> QED
    BY <2>2, <2>3
<1> QED
  <2>1. item.type \in {"other", "reasoning", "message", "call"}
    BY <1>0 DEF Items
  <2> QED
    BY <1>1, <1>2, <1>3, <1>4, <1>5, <2>1

\* The loop over the items of a response, started with first.
Reading(items, first, f) ==
    [i \in 0 .. Len(items) |-> IF i = 0 THEN first ELSE Apply(f[i - 1], items[i])]

\* There is a function that does as the loop.
LEMMA ReadingExists ==
    ASSUME NEW items \in Seq(Items), NEW first
    PROVE  \E f : f = Reading(items, first, f)
<1> DEFINE n == Len(items)
           Loop(m, f) == [i \in 0 .. m |-> IF i = 0 THEN first ELSE Apply(f[i - 1], items[i])]
           Missing == {m \in 0 .. n : ~\E f : f = Loop(m, f)}
<1>0. n \in Nat /\ n \in 0 .. n
  OBVIOUS
<1> HIDE DEF n
<1>1. Missing = {}
  <2> SUFFICES ASSUME Missing # {} PROVE FALSE
    OBVIOUS
  <2>1. Missing \in SUBSET Nat
    BY <1>0
  <2>2. PICK m \in Missing : \A k \in Missing : m <= k
    <3> HIDE DEF Missing
    <3> QED
      BY <2>1, BoundedMin
  <2>3. m # 0
    <3> DEFINE f == [i \in 0 .. 0 |-> first]
    <3>1. f = Loop(0, f)
      OBVIOUS
    <3>2. \E g : g = Loop(0, g)
      BY <3>1
    <3> QED
      BY <3>2
  <2>4. m \in Nat /\ m \in 0 .. n /\ m - 1 \in 0 .. n /\ m - 1 \notin Missing
    BY <1>0, <2>2, <2>3
  <2>5. PICK f : f = Loop(m - 1, f)
    BY <2>4
  <2> DEFINE g == [i \in 0 .. m |-> IF i = m THEN Apply(f[m - 1], items[m]) ELSE f[i]]
  <2>6. \A i \in 0 .. m : g[i] = IF i = 0 THEN first ELSE Apply(g[i - 1], items[i])
    <3> SUFFICES ASSUME NEW i \in 0 .. m
                 PROVE  g[i] = IF i = 0 THEN first ELSE Apply(g[i - 1], items[i])
      OBVIOUS
    <3>1. i # 0 => i - 1 \in 0 .. m /\ i - 1 # m
      BY <2>4
    <3>2. i # 0 => g[i - 1] = f[i - 1]
      BY <3>1
    <3>3. CASE i = m
      BY <2>3, <2>4, <3>2, <3>3
    <3>4. CASE i # m
      <4>1. i \in 0 .. (m - 1) /\ g[i] = f[i]
        BY <2>4, <3>4
      <4>2. f[i] = IF i = 0 THEN first ELSE Apply(f[i - 1], items[i])
        BY <2>5, <4>1
      <4> QED
        BY <3>2, <4>1, <4>2
    <3> QED
      BY <3>3, <3>4
  <2>7. g = Loop(m, g)
    BY <2>6
  <2>8. \E h : h = Loop(m, h)
    <3> HIDE DEF g, Loop
    <3> QED
      BY <2>7
  <2> QED
    BY <2>2, <2>8
<1>2. n \notin Missing
  BY <1>1
<1>3. PICK f : f = Loop(n, f)
  BY <1>0, <1>2
<1> QED
  BY <1>3 DEF n, Reading

\* What is known of a whole response.
LEMMA ConsumedReads ==
    ASSUME NEW items \in Seq(Items), talk.sent \in Seq(Entries), Talked(talk.sent, <<>>)
    PROVE  ReadSoFar(items, Len(items), Consumed(items))
<1> DEFINE n == Len(items)
           first == Unread(talk.sent)
           read == CHOOSE f : f = Reading(items, first, f)
           Wrong == {i \in 0 .. n : ~ReadSoFar(items, i, read[i])}
<1>0. n \in Nat /\ n \in 0 .. n
  OBVIOUS
<1>1. read = Reading(items, first, read)
  <2> HIDE DEF first
  <2>1. \E f : f = Reading(items, first, f)
    BY ReadingExists
  <2> QED
    BY <2>1
<1>3. Consumed(items) = read[n]
  BY DEF Consumed, Reading
<1> HIDE DEF n, read, first
<1>4. \A i \in 0 .. n : read[i] = IF i = 0 THEN first ELSE Apply(read[i - 1], items[i])
  BY <1>1 DEF Reading, n
<1>5. ReadSoFar(items, 0, first)
  <2>1. Said(items, 0) = {} /\ 1 .. 0 = {}
    BY DEF Said
  <2>2. Cardinality(Said(items, 0)) = 0
    BY <2>1, FS_EmptySet
  <2>3. /\ first \in Reads /\ first.ok /\ first.texts = <<>> /\ first.pending = <<>>
        /\ first.sent = talk.sent
    BY DEF first, Unread, Reads
  <2> QED
    BY <2>1, <2>2, <2>3 DEF ReadSoFar
<1>6. Wrong = {}
  <2> SUFFICES ASSUME Wrong # {} PROVE FALSE
    OBVIOUS
  <2>1. Wrong \in SUBSET Nat
    BY <1>0
  <2>2. PICK i \in Wrong : \A k \in Wrong : i <= k
    <3> HIDE DEF Wrong
    <3> QED
      BY <2>1, BoundedMin
  <2>3. i # 0
    BY <1>0, <1>4, <1>5, <2>2
  <2>4. i \in 1 .. n /\ i \in 0 .. n /\ i - 1 \in 0 .. n /\ i - 1 \notin Wrong
    BY <1>0, <2>2, <2>3
  <2>5. ReadSoFar(items, i - 1, read[i - 1])
    BY <2>4
  <2>6. ReadSoFar(items, i, Apply(read[i - 1], items[i]))
    BY <2>4, <2>5, ApplyReads DEF n
  <2> QED
    BY <1>4, <2>2, <2>3, <2>4, <2>6
<1> QED
  BY <1>0, <1>3, <1>6 DEF n
\* The types of the assessment.
Flags == Selectors \cup {NoSelector}
Models == {<<>>} \cup (Flags \X (({""} \cup Providers) \X Selectors))
Talk == [step : {"select", "input", "ask", "read", "done"}, model : Models,
         budget : Nat, request : Nat, calls : Nat, bytes : Nat, sent : Seq(Entries),
         pending : Seq(Calls), answer : Seq(Items), verdict : Decisions \cup {"none", "error"}]

\* Within the budgets, and every call answered or waiting.
TalkInv ==
    /\ talk \in Talk
    /\ talk.step # "done" => talk.verdict # "approve"
    /\ talk.step \in {"ask", "read"} =>
         /\ talk.request < talk.budget /\ talk.calls <= MaxCalls /\ talk.bytes <= MaxContextBytes
         /\ Talked(talk.sent, talk.pending)
    /\ talk.step = "ask" => talk.pending = <<>>
    /\ talk.step = "read" => talk.pending # <<>> /\ talk.request + 1 < talk.budget

\* What every reachable state of the assessment satisfies.
AutoInv == TalkInv /\ ApprovalsAreEarned

\* ApprovalsAreEarned of an assessment t.
Earned(t) ==
    t.verdict = "approve" =>
       /\ Cardinality({i \in DOMAIN t.answer : t.answer[i].type = "message"}) = 1
       /\ \A i \in DOMAIN t.answer : t.answer[i].type \in {"reasoning", "message"}
       /\ [type |-> "message", text |-> "approve"] \in ToSet(t.answer)
       /\ \A i \in DOMAIN t.sent : t.sent[i][1] = "call" => Answered(t.sent, i)
       /\ t.request < t.budget /\ t.calls <= MaxCalls /\ t.bytes <= MaxContextBytes

\* The same, of the assessment at hand.
LEMMA EarnedIs == ApprovalsAreEarned <=> Earned(talk)
BY DEF ApprovalsAreEarned, Earned, Answered

\* The same, of the next one.
LEMMA EarnedIsNext == ApprovalsAreEarned' <=> Earned(talk')
BY DEF ApprovalsAreEarned, Earned, Answered

\* The bounds are numbers.
LEMMA NumbersTyped ==
    /\ DefaultMaxRequests \in Nat /\ DefaultMaxRequests > 0
    /\ MaxCalls \in Nat /\ MaxCalls > 0
    /\ MaxInputBytes \in Nat /\ MaxContextBytes \in Nat /\ MaxInputBytes <= MaxContextBytes
    /\ AutoContextLimit \in Nat /\ MaxItems \in Nat
    /\ MaxRequestFlags \subseteq Nat /\ Sizes \subseteq Nat
<1>1. {DefaultMaxRequests, MaxCalls} \subseteq Nat \ {0}
  BY AutoReviewAssumption
<1>2. {MaxInputBytes, MaxContextBytes, AutoContextLimit, MaxItems} \subseteq Nat
  BY AutoReviewAssumption
<1>3. /\ MaxInputBytes <= MaxContextBytes
      /\ MaxRequestFlags \subseteq Nat /\ Sizes \subseteq Nat
  BY AutoReviewAssumption
<1> QED
  BY <1>1, <1>2, <1>3

\* An assessment that has not begun.
LEMMA NoTalkTyped ==
    /\ NoTalk \in Talk /\ NoTalk.step = "select" /\ NoTalk.verdict = "none"
BY DEF NoTalk, Talk, Models, Decisions

\* A choice of the models file is a model that a flag can name.
LEMMA ChosenTyped ==
    ASSUME NEW file, NEW flag \in Flags,
           NEW s \in SelectModel(file, flag), NEW model \in AutoModel(file, s)
    PROVE  <<flag, model>> \in Models
<1>1. s \in Selectors
  <2>1. CASE s \in Only(file)
    <3>1. PICK o \in Offers(file) : s = <<o[1]>> \o o[2]
      BY <2>1 DEF Only
    <3>2. o \in Providers \X ModelIds
      BY DEF Offers
    <3> QED
      BY <3>1, <3>2 DEF Selectors
  <2>2. s \in Only(file) \/ (s = flag /\ flag # NoSelector)
    BY DEF SelectModel
  <2> QED
    BY <2>1, <2>2 DEF Flags
<1>2. model = <<"", s>> \/ model \in Resolve(file, s)
  BY DEF AutoModel
<1>3. model \in Resolve(file, s) => model \in Providers \X ModelIds
  <2>1. model \in Resolve(file, s) => model \in Offers(file)
    BY <1>1, ResolvedIsNamed
  <2> QED
    BY <2>1 DEF Offers
<1>4. ModelIds \subseteq Selectors
  BY DEF Selectors
<1>5. model \in ({""} \cup Providers) \X Selectors
  <2>1. CASE model = <<"", s>>
    BY <1>1, <2>1
  <2>2. CASE model \in Providers \X ModelIds
    BY <1>4, <2>2
  <2> QED
    BY <1>2, <1>3, <2>1, <2>2
<1> QED
  BY <1>5 DEF Models

\* An assessment that ends without an approval.
LEMMA EndsWithout ==
    ASSUME talk \in Talk, NEW verdict \in {"error", "needs-human-review"}, End(verdict)
    PROVE  AutoInv'
<1>1. talk' = [talk EXCEPT !.step = "done", !.verdict = verdict]
  BY DEF End
<1>2. talk' \in Talk /\ talk'.step = "done" /\ talk'.verdict = verdict
  BY <1>1 DEF Talk, Decisions
<1> QED
  BY <1>2 DEF AutoInv, TalkInv, ApprovalsAreEarned

\* Select asks nothing yet.
LEMMA SelectKeeps == ASSUME AutoInv, Select PROVE AutoInv'
<1>0. talk \in Talk /\ talk.step = "select" /\ talk.verdict # "approve"
  BY DEF AutoInv, TalkInv, Select
<1>1. CASE Fail
  BY <1>0, <1>1, EndsWithout DEF Fail
<1>2. CASE ~Fail
  <2>1. PICK flag \in Flags :
          \E model \in UNION {AutoModel(catalog, s) : s \in SelectModel(catalog, flag)} :
             talk' = [talk EXCEPT !.step = "input", !.model = <<flag, model>>]
    BY <1>2 DEF Select, Flags
  <2>a. PICK model \in UNION {AutoModel(catalog, s) : s \in SelectModel(catalog, flag)} :
             talk' = [talk EXCEPT !.step = "input", !.model = <<flag, model>>]
    BY <2>1
  <2>2. PICK s \in SelectModel(catalog, flag) : model \in AutoModel(catalog, s)
    OBVIOUS
  <2> DEFINE chosen == <<flag, model>>
  <2>3. chosen \in Models
    BY <2>2, ChosenTyped
  <2> HIDE DEF chosen
  <2>4. talk' = [talk EXCEPT !.step = "input", !.model = chosen]
    BY <2>a DEF chosen
  <2>5. talk' \in Talk /\ talk'.step = "input" /\ talk'.verdict = talk.verdict
    BY <1>0, <2>3, <2>4 DEF Talk
  <2> QED
    BY <1>0, <2>5 DEF AutoInv, TalkInv, ApprovalsAreEarned
<1> QED
  BY <1>1, <1>2

\* The first request has a budget, and an input that fits.
LEMMA BeginKeeps == ASSUME AutoInv, BeginTalk PROVE AutoInv'
<1>0. talk \in Talk
  BY DEF AutoInv, TalkInv
<1>1. PICK size \in Sizes, flag \in MaxRequestFlags :
         IF size > MaxInputBytes
         THEN Fail
         ELSE talk' = [NoTalk EXCEPT !.step = "ask", !.bytes = size,
                                     !.budget = IF flag = 0 THEN DefaultMaxRequests ELSE flag]
  BY DEF BeginTalk
<1>2. CASE size > MaxInputBytes
  BY <1>0, <1>1, <1>2, EndsWithout DEF Fail
<1>3. CASE ~(size > MaxInputBytes)
  <2> DEFINE budget == IF flag = 0 THEN DefaultMaxRequests ELSE flag
  <2>1. /\ size \in Nat /\ budget \in Nat /\ budget > 0 /\ size <= MaxContextBytes
        /\ MaxCalls \in Nat /\ MaxCalls > 0
    <3>1. size \in Nat /\ flag \in Nat
      BY NumbersTyped
    <3> QED
      BY <1>3, <3>1, NumbersTyped
  <2>2. talk' = [NoTalk EXCEPT !.step = "ask", !.bytes = size, !.budget = budget]
    BY <1>1, <1>3
  <2> HIDE DEF budget
  <2>a. talk' = [step |-> "ask", model |-> <<>>, budget |-> budget, request |-> 0, calls |-> 0,
                 bytes |-> size, sent |-> <<>>, pending |-> <<>>, answer |-> <<>>,
                 verdict |-> "none"]
    BY <2>2 DEF NoTalk
  <2>3. /\ talk' \in Talk /\ talk'.step = "ask" /\ talk'.verdict = "none"
        /\ talk'.bytes = size /\ talk'.budget = budget /\ talk'.request = 0 /\ talk'.calls = 0
        /\ talk'.sent = <<>> /\ talk'.pending = <<>>
    <3>1. /\ <<>> \in Seq(Entries) /\ <<>> \in Seq(Calls) /\ <<>> \in Seq(Items)
          /\ <<>> \in Models /\ "none" \in Decisions \cup {"none", "error"}
      BY DEF Models
    <3> QED
      BY <2>1, <2>a, <3>1 DEF Talk
  <2>4. Talked(<<>>, <<>>)
    BY DEF Talked
  <2>5. TalkInv'
    BY <2>1, <2>3, <2>4 DEF TalkInv
  <2> QED
    BY <2>3, <2>5 DEF AutoInv, ApprovalsAreEarned
<1> QED
  BY <1>2, <1>3

\* A completed response: the calls that it makes wait, or it ends the assessment.
LEMMA CompletedKeeps ==
    ASSUME AutoInv, talk.step = "ask", NEW items \in Seq(Items), Completed(items)
    PROVE  AutoInv'
<1> DEFINE read == Consumed(items)
<1>0. /\ talk \in Talk /\ talk.pending = <<>> /\ Talked(talk.sent, <<>>)
      /\ talk.request < talk.budget /\ talk.calls <= MaxCalls /\ talk.bytes <= MaxContextBytes
      /\ MaxCalls \in Nat
  BY NumbersTyped DEF AutoInv, TalkInv
<1>1. ReadSoFar(items, Len(items), read)
  <2>1. talk.sent \in Seq(Entries)
    BY <1>0 DEF Talk
  <2> QED
    BY <1>0, <2>1, ConsumedReads
<1>2. /\ read.sent \in Seq(Entries) /\ read.pending \in Seq(Calls) /\ read.texts \in Seq(Replies)
      /\ Len(read.pending) \in Nat
  BY <1>1 DEF ReadSoFar, Reads
<1> DEFINE calls == /\ read.ok /\ read.pending # <<>> /\ read.texts = <<>>
                    /\ Affordable(read.pending)
<1>3. CASE calls
  <2> DEFINE made == talk.calls + Len(read.pending)
  <2>1. talk' = [talk EXCEPT !.step = "read", !.pending = read.pending, !.sent = read.sent,
                             !.calls = made, !.answer = items]
    BY <1>3 DEF Completed
  <2>2. made \in Nat /\ made <= MaxCalls /\ talk.request + 1 < talk.budget
    <3>1. Affordable(read.pending)
      BY <1>3
    <3>2. talk.calls \in Nat /\ talk.request \in Nat /\ talk.budget \in Nat
      BY <1>0 DEF Talk
    <3>3. Len(read.pending) \in Nat
      BY <1>2
    <3> HIDE DEF read
    <3> QED
      BY <1>0, <3>1, <3>2, <3>3 DEF Affordable
  <2>3. Talked(read.sent, read.pending) /\ read.pending # <<>>
    BY <1>1, <1>3 DEF ReadSoFar
  <2> HIDE DEF read, made
  <2>4. /\ talk' \in Talk /\ talk'.step = "read" /\ talk'.pending = read.pending
        /\ talk'.sent = read.sent /\ talk'.calls = made /\ talk'.verdict = talk.verdict
        /\ talk'.bytes = talk.bytes /\ talk'.budget = talk.budget /\ talk'.request = talk.request
    BY <1>0, <1>2, <2>1, <2>2 DEF Talk
  <2>5. talk.verdict # "approve"
    BY DEF AutoInv, TalkInv
  <2>6. TalkInv'
    BY <1>0, <2>2, <2>3, <2>4, <2>5 DEF TalkInv
  <2> QED
    BY <2>4, <2>5, <2>6 DEF AutoInv, ApprovalsAreEarned
<1>4. CASE ~calls
  <2> DEFINE verdict == IF read.ok /\ read.pending = <<>> THEN Decoded(read.texts) ELSE "error"
  <2>1. talk' = [talk EXCEPT !.step = "done", !.answer = items, !.sent = read.sent,
                             !.verdict = verdict]
    BY <1>4 DEF Completed
  <2>2. verdict \in Decisions \cup {"none", "error"}
    BY DEF Decoded, Validated
  <2>3. verdict = "approve" =>
          /\ read.ok /\ read.pending = <<>> /\ Len(read.texts) = 1 /\ read.texts[1] = "approve"
    BY DEF Decoded, Validated
  <2> HIDE DEF read, verdict
  <2>4. /\ talk' \in Talk /\ talk'.step = "done" /\ talk'.answer = items
        /\ talk'.sent = read.sent /\ talk'.verdict = verdict /\ talk'.calls = talk.calls
        /\ talk'.bytes = talk.bytes /\ talk'.budget = talk.budget /\ talk'.request = talk.request
    BY <1>0, <1>2, <2>1, <2>2 DEF Talk
  <2>5. ApprovalsAreEarned'
    <3> SUFFICES ASSUME verdict = "approve" PROVE ApprovalsAreEarned'
      BY <2>4 DEF ApprovalsAreEarned
    <3>1. /\ Cardinality(Said(items, Len(items))) = 1
          /\ \E j \in 1 .. Len(items) : items[j] = [type |-> "message", text |-> "approve"]
          /\ \A j \in 1 .. Len(items) : items[j].type \in {"reasoning", "message"}
          /\ Talked(read.sent, <<>>)
      <4>1. read.ok /\ read.pending = <<>> /\ Len(read.texts) = 1 /\ read.texts[1] = "approve"
        BY <2>3
      <4>2. Cardinality(Said(items, Len(items))) = 1
        BY <1>1, <4>1 DEF ReadSoFar
      <4>3. \E j \in 1 .. Len(items) : items[j] = [type |-> "message", text |-> "approve"]
        <5>1. 1 \in 1 .. Len(read.texts)
          BY <4>1
        <5>2. \A k \in DOMAIN read.texts : \E j \in 1 .. Len(items) :
                 items[j] = [type |-> "message", text |-> read.texts[k]]
          BY <1>1, <4>1 DEF ReadSoFar
        <5>3. 1 \in DOMAIN read.texts
          BY <1>2, <5>1
        <5> QED
          BY <4>1, <5>2, <5>3
      <4>4. \A j \in 1 .. Len(items) : items[j].type \in {"reasoning", "message"}
        BY <1>1, <4>1 DEF ReadSoFar
      <4>5. Talked(read.sent, <<>>)
        BY <1>1, <4>1 DEF ReadSoFar
      <4> QED
        BY <4>2, <4>3, <4>4, <4>5
    <3>2. DOMAIN items = 1 .. Len(items)
      OBVIOUS
    <3>3. {i \in DOMAIN items : items[i].type = "message"} = Said(items, Len(items))
      BY <3>2 DEF Said
    <3>4. [type |-> "message", text |-> "approve"] \in ToSet(items)
      BY <3>1, <3>2 DEF ToSet
    <3>5. \A i \in DOMAIN read.sent : read.sent[i][1] = "call" => Answered(read.sent, i)
      BY <3>1 DEF Talked
    <3> QED
      BY <1>0, <2>4, <3>1, <3>2, <3>3, <3>4, <3>5, EarnedIsNext DEF Earned
  <2>6. TalkInv'
    BY <2>4 DEF TalkInv
  <2> QED
    BY <2>5, <2>6 DEF AutoInv
<1> QED
  BY <1>3, <1>4

\* A response ends the assessment or asks for results.
LEMMA ReviewTurnKeeps == ASSUME AutoInv, ReviewTurn PROVE AutoInv'
<1>0. talk \in Talk /\ talk.step = "ask"
  BY DEF AutoInv, TalkInv, ReviewTurn
<1>1. CASE \E items \in BoundedSeq(Items, MaxItems) : Completed(items)
  <2>1. PICK items \in BoundedSeq(Items, MaxItems) : Completed(items)
    BY <1>1
  <2>2. PICK m \in 0 .. MaxItems : items \in [1 .. m -> Items]
    BY DEF BoundedSeq, SeqOf
  <2>3. m \in Nat
    BY NumbersTyped
  <2>4. items \in Seq(Items)
    BY <2>2, <2>3
  <2> QED
    BY <1>0, <2>1, <2>4, CompletedKeeps
<1>2. CASE End("needs-human-review") \/ Fail
  BY <1>0, <1>2, EndsWithout DEF Fail
<1> QED
  BY <1>1, <1>2 DEF ReviewTurn

\* The result of one call is sent with the next request.
LEMMA ReadCallKeeps == ASSUME AutoInv, ReadCall PROVE AutoInv'
<1> DEFINE call == Head(talk.pending)
           rest == Tail(talk.pending)
           more == Append(talk.sent, <<"output", call.id>>)
<1>0. /\ talk \in Talk /\ talk.step = "read" /\ talk.pending # <<>>
      /\ talk.request + 1 < talk.budget /\ talk.calls <= MaxCalls
      /\ Talked(talk.sent, talk.pending) /\ talk.verdict # "approve"
  BY DEF AutoInv, TalkInv, ReadCall
<1>1. /\ talk.sent \in Seq(Entries) /\ talk.pending \in Seq(Calls)
      /\ call \in Calls /\ rest \in Seq(Calls)
  BY <1>0, HeadTailProperties DEF Talk
<1>2. CASE Fail
  BY <1>0, <1>2, EndsWithout DEF Fail
<1>3. CASE ~Fail
  <2>1. PICK size \in ToolSizes(call.tool) :
          IF talk.bytes + size > MaxContextBytes
          THEN Fail
          ELSE talk' = [talk EXCEPT !.bytes = @ + size, !.pending = rest,
                          !.sent = Append(@, <<"output", call.id>>),
                          !.step = IF rest = <<>> THEN "ask" ELSE "read",
                          !.request = IF rest = <<>> THEN @ + 1 ELSE @]
    BY <1>3 DEF ReadCall
  <2>2. size \in Nat
    <3>1. call.tool \in {"read_file", "search", "unknown"}
      BY <1>1 DEF Calls
    <3>2. WithinOutput \subseteq Nat /\ SearchSizes \subseteq Nat
      <4>1. WithinOutput \subseteq Sizes
        BY DEF WithinOutput
      <4>2. Sizes \subseteq Nat
        BY NumbersTyped
      <4> QED
        BY <4>1, <4>2 DEF SearchSizes
    <3>3. size \in WithinOutput \/ size \in SearchSizes
      <4>1. /\ ToolSizes("read_file") = WithinOutput /\ ToolSizes("search") = SearchSizes
            /\ ToolSizes("unknown") = {}
        BY DEF ToolSizes
      <4> QED
        BY <3>1, <4>1
    <3> QED
      BY <3>2, <3>3
  <2> DEFINE bytes == talk.bytes + size
             step == IF rest = <<>> THEN "ask" ELSE "read"
             request == IF rest = <<>> THEN talk.request + 1 ELSE talk.request
  <2>3. talk' = [talk EXCEPT !.bytes = bytes, !.pending = rest, !.sent = more,
                             !.step = step, !.request = request]
    BY <1>3, <2>1
  <2>4. ~(talk.bytes + size > MaxContextBytes)
    BY <1>3, <2>1
  <2>5. bytes \in Nat /\ bytes <= MaxContextBytes
    <3>1. talk.bytes \in Nat
      BY <1>0 DEF Talk
    <3> QED
      BY <2>2, <2>4, <3>1, NumbersTyped
  <2>6. /\ request \in Nat /\ request < talk.budget
        /\ rest # <<>> => request + 1 < talk.budget
    BY <1>0 DEF Talk
  <2>7. more \in Seq(Entries)
    <3> DEFINE e == <<"output", call.id>>
    <3>1. e \in Entries
      BY <1>1 DEF Entries, Calls
    <3> HIDE DEF e
    <3>2. Append(talk.sent, e) \in Seq(Entries)
      BY <1>1, <3>1, AppendProperties
    <3> QED
      BY <3>2 DEF e
  <2>8. Talked(more, rest)
    BY <1>0, <1>1, TalkedOutput
  <2>9. step = IF rest = <<>> THEN "ask" ELSE "read"
    OBVIOUS
  <2> HIDE DEF call, rest, more, bytes, step, request
  <2>10. /\ talk' \in Talk /\ talk'.step = step /\ talk'.verdict = talk.verdict
         /\ talk'.bytes = bytes /\ talk'.pending = rest /\ talk'.sent = more
         /\ talk'.request = request /\ talk'.calls = talk.calls /\ talk'.budget = talk.budget
    BY <1>0, <1>1, <2>3, <2>5, <2>6, <2>7, <2>9 DEF Talk
  <2>11. TalkInv'
    BY <1>0, <2>5, <2>6, <2>8, <2>9, <2>10 DEF TalkInv
  <2> QED
    BY <1>0, <2>10, <2>11 DEF AutoInv, ApprovalsAreEarned
<1> QED
  BY <1>2, <1>3

\* The invariant holds in every reachable state.
LEMMA AutoInvariant == AutoSpec => []AutoInv
<1>1. AutoInit => AutoInv
  BY NoTalkTyped DEF AutoInit, AutoInv, TalkInv, ApprovalsAreEarned
<1>2. AutoInv /\ [AutoNext]_autoVars => AutoInv'
  <2> SUFFICES ASSUME AutoInv, [AutoNext]_autoVars PROVE AutoInv'
    OBVIOUS
  <2>1. CASE UNCHANGED autoVars
    <3>1. talk' = talk
      BY <2>1 DEF autoVars
    <3> QED
      BY <3>1, EarnedIs, EarnedIsNext DEF AutoInv, TalkInv
  <2> QED
    BY <2>1, SelectKeeps, BeginKeeps, ReviewTurnKeeps, ReadCallKeeps DEF AutoNext
<1> QED
  BY <1>1, <1>2, PTL DEF AutoSpec

\* An approval comes from one message of a response without calls, in a conversation
\* in which every call was answered once, within the budgets.
THEOREM ApprovalsAreAllEarned == AutoSpec => []ApprovalsAreEarned
<1>1. AutoInv => ApprovalsAreEarned
  BY DEF AutoInv
<1> QED
  BY <1>1, AutoInvariant, PTL

\* The model that is asked was named, or is the only one.
THEOREM ModelsAreNamed == AutoSpec => SelectionIsNamed
<1> DEFINE act ==
      talk.step = "select" /\ talk'.step = "input" =>
         LET flag == talk'.model[1]
             id   == talk'.model[2][2]
             p    == talk'.model[2][1]
             rest == Offers(catalog) \ {<<p, id>>}
         IN  \/ /\ <<p, id>> \in Offers(catalog) /\ catalog[p].callable
                /\ \/ flag = <<p>> \o id
                   \/ flag = id /\ \A o \in rest : o[2] # id
                   \/ flag = NoSelector /\ rest = {}
             \/ Offers(catalog) = {} /\ flag = id /\ id # NoSelector
<1>1. AutoInv /\ [AutoNext]_autoVars => act
  <2> SUFFICES ASSUME AutoInv, [AutoNext]_autoVars, talk.step = "select", talk'.step = "input"
               PROVE  NamedBy(catalog, talk'.model[1], talk'.model[2])
    BY DEF NamedBy
  <2>1. talk \in Talk
    BY DEF AutoInv, TalkInv
  <2>2. Select
    BY DEF AutoNext, BeginTalk, ReviewTurn, ReadCall, autoVars
  <2>3. ~Fail
    BY <2>1 DEF Fail, End, Talk
  <2>4. PICK flag \in Flags :
          \E model \in UNION {AutoModel(catalog, s) : s \in SelectModel(catalog, flag)} :
             talk' = [talk EXCEPT !.step = "input", !.model = <<flag, model>>]
    BY <2>2, <2>3 DEF Select, Flags
  <2>5. PICK model \in UNION {AutoModel(catalog, s) : s \in SelectModel(catalog, flag)} :
             talk' = [talk EXCEPT !.step = "input", !.model = <<flag, model>>]
    BY <2>4
  <2>a. PICK s \in SelectModel(catalog, flag) : model \in AutoModel(catalog, s)
    OBVIOUS
  <2>6. talk'.model[1] = flag /\ talk'.model[2] = model
    BY <2>1, <2>5 DEF Talk
  <2>7. NamedBy(catalog, flag, model)
    BY <2>a, SelectedIsNamed DEF Flags
  <2> QED
    BY <2>6, <2>7
<1> HIDE DEF act
<1>2. AutoSpec => [][act]_autoVars
  BY <1>1, AutoInvariant, PTL DEF AutoSpec
<1> QED
  BY <1>2 DEF SelectionIsNamed, act

(* The stacks of a branch *)

\* The words of subjects and messages, and the types of commits and of a view.
Words == Titles \cup {"fixup!", "amend!"}
CommitType == [subject : Seq(Words), message : Seq(Words), id : ChangeIds \cup {""}]
StackType == [first : Nat, last : Nat, id : ChangeIds \cup {""}]
TargetType == [subject : Seq(Words), stack : Nat]

\* A commit has a title, and an amend! brings one.
Wellformed(c) ==
    /\ c \in CommitType /\ Len(c.subject) >= 1
    /\ IsFeedback(c) /\ CarriesMessage(c) => Len(c.message) = 1

BranchInv ==
    /\ branch \in Seq(CommitType)
    /\ \A i \in DOMAIN branch : Wellformed(branch[i])

\* The loop over the commits.
Viewing(commits, f) ==
    [i \in 0 .. Len(commits) |-> IF i = 0 THEN NoStacks ELSE Take(f[i - 1], commits[i])]

\* There is a function that does as the loop.
LEMMA ViewingExists ==
    ASSUME NEW commits \in Seq(CommitType)
    PROVE  \E f : f = Viewing(commits, f)
<1> DEFINE n == Len(commits)
           Loop(m, f) == [i \in 0 .. m |-> IF i = 0 THEN NoStacks ELSE Take(f[i - 1], commits[i])]
           Missing == {m \in 0 .. n : ~\E f : f = Loop(m, f)}
<1>0. n \in Nat /\ n \in 0 .. n
  OBVIOUS
<1> HIDE DEF n
<1>1. Missing = {}
  <2> SUFFICES ASSUME Missing # {} PROVE FALSE
    OBVIOUS
  <2>1. Missing \in SUBSET Nat
    BY <1>0
  <2>2. PICK m \in Missing : \A k \in Missing : m <= k
    <3> HIDE DEF Missing
    <3> QED
      BY <2>1, BoundedMin
  <2>3. m # 0
    <3> DEFINE f == [i \in 0 .. 0 |-> NoStacks]
    <3>1. f = Loop(0, f)
      OBVIOUS
    <3>2. \E g : g = Loop(0, g)
      BY <3>1
    <3> QED
      BY <3>2
  <2>4. m \in Nat /\ m \in 0 .. n /\ m - 1 \in 0 .. n /\ m - 1 \notin Missing
    BY <1>0, <2>2, <2>3
  <2>5. PICK f : f = Loop(m - 1, f)
    BY <2>4
  <2> DEFINE g == [i \in 0 .. m |-> IF i = m THEN Take(f[m - 1], commits[m]) ELSE f[i]]
  <2>6. \A i \in 0 .. m : g[i] = IF i = 0 THEN NoStacks ELSE Take(g[i - 1], commits[i])
    <3> SUFFICES ASSUME NEW i \in 0 .. m
                 PROVE  g[i] = IF i = 0 THEN NoStacks ELSE Take(g[i - 1], commits[i])
      OBVIOUS
    <3>1. i # 0 => i - 1 \in 0 .. m /\ i - 1 # m
      BY <2>4
    <3>2. i # 0 => g[i - 1] = f[i - 1]
      BY <3>1
    <3>3. CASE i = m
      BY <2>3, <2>4, <3>2, <3>3
    <3>4. CASE i # m
      <4>1. i \in 0 .. (m - 1) /\ g[i] = f[i]
        BY <2>4, <3>4
      <4>2. f[i] = IF i = 0 THEN NoStacks ELSE Take(f[i - 1], commits[i])
        BY <2>5, <4>1
      <4> QED
        BY <3>2, <4>1, <4>2
    <3> QED
      BY <3>3, <3>4
  <2>7. g = Loop(m, g)
    BY <2>6
  <2>8. \E h : h = Loop(m, h)
    <3> HIDE DEF g, Loop
    <3> QED
      BY <2>7
  <2> QED
    BY <2>2, <2>8
<1>2. n \notin Missing
  BY <1>1
<1>3. PICK f : f = Loop(n, f)
  BY <1>0, <1>2
<1> QED
  BY <1>3 DEF n, Viewing

\* The loop over the commits of the branch that keeps the places of the hosts.
Hosted(s, i) == IF Stays(i) THEN Append(s, i) ELSE s
Hosting(f) == [i \in 0 .. Len(branch) |-> IF i = 0 THEN <<>> ELSE Hosted(f[i - 1], i)]

\* There is a function that does as the loop.
LEMMA HostingExists ==
    ASSUME branch \in Seq(CommitType)
    PROVE  \E f : f = Hosting(f)
<1> DEFINE n == Len(branch)
           Loop(m, f) == [i \in 0 .. m |-> IF i = 0 THEN <<>> ELSE Hosted(f[i - 1], i)]
           Missing == {m \in 0 .. n : ~\E f : f = Loop(m, f)}
<1>0. n \in Nat /\ n \in 0 .. n
  OBVIOUS
<1> HIDE DEF n
<1>1. Missing = {}
  <2> SUFFICES ASSUME Missing # {} PROVE FALSE
    OBVIOUS
  <2>1. Missing \in SUBSET Nat
    BY <1>0
  <2>2. PICK m \in Missing : \A k \in Missing : m <= k
    <3> HIDE DEF Missing
    <3> QED
      BY <2>1, BoundedMin
  <2>3. m # 0
    <3> DEFINE f == [i \in 0 .. 0 |-> <<>>]
    <3>1. f = Loop(0, f)
      OBVIOUS
    <3>2. \E g : g = Loop(0, g)
      BY <3>1
    <3> QED
      BY <3>2
  <2>4. m \in Nat /\ m \in 0 .. n /\ m - 1 \in 0 .. n /\ m - 1 \notin Missing
    <3>1. m \in 0 .. n
      OBVIOUS
    <3> HIDE DEF Missing
    <3> QED
      BY <1>0, <2>2, <2>3, <3>1
  <2>5. PICK f : f = Loop(m - 1, f)
    <3>1. \A k \in 0 .. n : k \notin Missing => \E f : f = Loop(k, f)
      <4> HIDE DEF Loop
      <4> QED
        OBVIOUS
    <3>2. \E f : f = Loop(m - 1, f)
      <4> HIDE DEF Loop, Missing
      <4> QED
        BY <2>4, <3>1
    <3> HIDE DEF Loop
    <3> QED
      BY <3>2
  <2> DEFINE g == [i \in 0 .. m |-> IF i = m THEN Hosted(f[m - 1], m) ELSE f[i]]
  <2>6. \A i \in 0 .. m : g[i] = IF i = 0 THEN <<>> ELSE Hosted(g[i - 1], i)
    <3> SUFFICES ASSUME NEW i \in 0 .. m
                 PROVE  g[i] = IF i = 0 THEN <<>> ELSE Hosted(g[i - 1], i)
      OBVIOUS
    <3>1. i # 0 => i - 1 \in 0 .. m /\ i - 1 # m
      BY <2>4
    <3>2. i # 0 => g[i - 1] = f[i - 1]
      BY <3>1
    <3>3. CASE i = m
      BY <2>3, <2>4, <3>2, <3>3
    <3>4. CASE i # m
      <4>1. i \in 0 .. (m - 1) /\ g[i] = f[i]
        BY <2>4, <3>4
      <4>2. f[i] = IF i = 0 THEN <<>> ELSE Hosted(f[i - 1], i)
        BY <2>5, <4>1
      <4> QED
        BY <3>2, <4>1, <4>2
    <3> QED
      BY <3>3, <3>4
  <2>7. g = Loop(m, g)
    BY <2>6
  <2>8. \E h : h = Loop(m, h)
    <3> HIDE DEF g, Loop
    <3> QED
      BY <2>7
  <2> QED
    BY <2>2, <2>8
<1>2. n \notin Missing
  BY <1>1
<1>3. PICK f : f = Loop(n, f)
  BY <1>0, <1>2
<1> QED
  BY <1>3 DEF n, Hosting

\* What the loops compute, commit by commit.
Views(commits) == CHOOSE f : f = Viewing(commits, f)
Hosts == CHOOSE f : f = Hosting(f)

\* The loops step by step.
LEMMA ViewsStep ==
    ASSUME NEW commits \in Seq(CommitType)
    PROVE  /\ View(commits) = Views(commits)[Len(commits)]
           /\ Views(commits)[0] = NoStacks
           /\ \A i \in 1 .. Len(commits) : Views(commits)[i] = Take(Views(commits)[i - 1], commits[i])
<1> DEFINE f == Views(commits)
<1>1. f = Viewing(commits, f)
  BY ViewingExists DEF Views
<1>2. View(commits) = f[Len(commits)]
  BY DEF View, Views, Viewing
<1> HIDE DEF f
<1>3. Len(commits) \in Nat
  OBVIOUS
<1>4. \A i \in 0 .. Len(commits) : f[i] = IF i = 0 THEN NoStacks ELSE Take(f[i - 1], commits[i])
  BY <1>1 DEF Viewing
<1> QED
  BY <1>2, <1>3, <1>4 DEF f

\* The same of the hosts.
LEMMA HostsStep ==
    ASSUME branch \in Seq(CommitType)
    PROVE  /\ Squashed = [k \in DOMAIN Hosts[Len(branch)] |-> Result(Hosts[Len(branch)][k])]
           /\ Hosts[0] = <<>>
           /\ \A i \in 1 .. Len(branch) :
                Hosts[i] = IF Stays(i) THEN Append(Hosts[i - 1], i) ELSE Hosts[i - 1]
<1> DEFINE f == Hosts
<1>1. f = Hosting(f)
  BY HostingExists DEF Hosts
<1>2. Squashed = [k \in DOMAIN f[Len(branch)] |-> Result(f[Len(branch)][k])]
  BY DEF Squashed, Hosts, Hosting, Hosted
<1> HIDE DEF f
<1>3. Len(branch) \in Nat
  OBVIOUS
<1>4. \A i \in 0 .. Len(branch) :
        f[i] = IF i = 0 THEN <<>> ELSE IF Stays(i) THEN Append(f[i - 1], i) ELSE f[i - 1]
  BY <1>1 DEF Hosting, Hosted
<1> QED
  BY <1>2, <1>3, <1>4 DEF f

\* The stacks of the first i commits lie side by side, and every commit is in its own.
Blocks(v, i) ==
    /\ v.stacks \in Seq(StackType) /\ v.targets \in Seq(TargetType) /\ Len(v.targets) = i
    /\ \A j \in 1 .. i : /\ v.targets[j].subject = branch[j].subject
                         /\ v.targets[j].stack \in 1 .. Len(v.stacks)
    /\ \A k \in 1 .. Len(v.stacks) :
         /\ 1 <= v.stacks[k].first /\ v.stacks[k].first <= v.stacks[k].last
         /\ v.stacks[k].last <= i
         /\ \A j \in 1 .. i :
              v.targets[j].stack = k <=> v.stacks[k].first <= j /\ j <= v.stacks[k].last
    /\ i > 0 => Len(v.stacks) > 0
    /\ Len(v.stacks) > 0 => v.stacks[Len(v.stacks)].last = i

\* A stack begins with feedback.
Loose(v) == \E k \in 1 .. Len(v.stacks) : IsFeedback(branch[v.stacks[k].first])

\* Git and the stacks agree: feedback goes to the commit that begins its stack, and
\* the stacks begin at the commits that stay.
Nested(v, i) ==
    /\ \A j \in 1 .. i :
         IF IsFeedback(branch[j])
         THEN HostOf(j) = v.stacks[v.targets[j].stack].first /\ HostOf(j) < j
         ELSE v.stacks[v.targets[j].stack].first = j
    /\ Hosts[i] \in Seq(Nat) /\ Len(Hosts[i]) = Len(v.stacks)
    /\ \A k \in 1 .. Len(v.stacks) : Hosts[i][k] = v.stacks[k].first

\* Records of stacks, targets and commits.
LEMMA StackFields == ASSUME NEW s \in StackType PROVE s.first \in Nat /\ s.last \in Nat
  BY DEF StackType

LEMMA StackMade ==
    ASSUME NEW f \in Nat, NEW l \in Nat, NEW d \in ChangeIds \cup {""}
    PROVE  /\ [first |-> f, last |-> l, id |-> d] \in StackType
           /\ [first |-> f, last |-> l, id |-> d].first = f
           /\ [first |-> f, last |-> l, id |-> d].last = l
  BY DEF StackType

LEMMA StackExtended ==
    ASSUME NEW s \in StackType, NEW l \in Nat
    PROVE  /\ [s EXCEPT !.last = l] \in StackType
           /\ [s EXCEPT !.last = l].first = s.first
           /\ [s EXCEPT !.last = l].last = l
  BY DEF StackType

LEMMA TargetMade ==
    ASSUME NEW s \in Seq(Words), NEW k \in Nat
    PROVE  /\ [subject |-> s, stack |-> k] \in TargetType
           /\ [subject |-> s, stack |-> k].subject = s
           /\ [subject |-> s, stack |-> k].stack = k
  BY DEF TargetType

\* What taking one commit does: the last stack grows, or a stack begins.
LEMMA TakenBlocks ==
    ASSUME BranchInv, NEW i \in 1 .. Len(branch), NEW v, Blocks(v, i - 1)
    PROVE  LET w == Take(v, branch[i])
               captured == IsFeedback(branch[i]) /\ Captures(v, branch[i])
           IN  /\ Blocks(w, i)
               /\ captured =>
                    /\ Len(v.stacks) > 0 /\ Len(w.stacks) = Len(v.stacks)
                    /\ w.targets[i].stack = Len(v.stacks)
               /\ ~captured =>
                    /\ Len(w.stacks) = Len(v.stacks) + 1
                    /\ w.stacks[Len(w.stacks)].first = i
                    /\ w.targets[i].stack = Len(w.stacks)
               /\ \A k \in 1 .. Len(v.stacks) : w.stacks[k].first = v.stacks[k].first
               /\ \A j \in 1 .. i - 1 : w.targets[j] = v.targets[j]
<1> DEFINE c == branch[i]
           w == Take(v, c)
           captured == IsFeedback(c) /\ Captures(v, c)
           n == Len(v.stacks)
           stacks == v.stacks
           targets == v.targets
<1>1. /\ stacks \in Seq(StackType) /\ targets \in Seq(TargetType) /\ Len(targets) = i - 1
      /\ n \in Nat /\ i \in Nat /\ i >= 1 /\ i - 1 \in Nat
  BY DEF Blocks, BranchInv
<1>2. c \in CommitType /\ c.subject \in Seq(Words) /\ c.id \in ChangeIds \cup {""}
  <2>1. c \in CommitType
    BY DEF BranchInv
  <2> QED
    BY <2>1 DEF CommitType
<1>3. /\ \A j \in 1 .. i - 1 : /\ targets[j].subject = branch[j].subject
                               /\ targets[j].stack \in 1 .. n
      /\ \A k \in 1 .. n :
           /\ 1 <= stacks[k].first /\ stacks[k].first <= stacks[k].last
           /\ stacks[k].last <= i - 1
           /\ \A j \in 1 .. i - 1 :
                targets[j].stack = k <=> stacks[k].first <= j /\ j <= stacks[k].last
      /\ i - 1 > 0 => n > 0
      /\ n > 0 => stacks[n].last = i - 1
  BY DEF Blocks
<1>4. /\ w.stacks = IF captured THEN Extended(v) ELSE Opened(v, c)
      /\ w.targets = Append(targets, [subject |-> c.subject, stack |-> Len(w.stacks)])
  BY DEF Take
<1>5. captured => n > 0
  <2> SUFFICES ASSUME captured PROVE n > 0
    OBVIOUS
  <2>1. PICK j \in DOMAIN targets : targets[j].stack = n
    BY DEF Captures
  <2>2. j \in 1 .. i - 1
    BY <1>1, <2>1
  <2> QED
    BY <1>1, <1>3, <2>1, <2>2
<1> HIDE DEF captured, w, c, n, stacks, targets
<1>6. CASE captured
  <2>1. w.stacks = [stacks EXCEPT ![n].last = @ + 1]
    BY <1>4, <1>6 DEF Extended, stacks, n
  <2>2. n \in 1 .. n /\ Len(stacks) = n /\ stacks[n] \in StackType
    BY <1>1, <1>5, <1>6 DEF stacks, n
  <2> DEFINE l == stacks[n].last + 1
             s == [stacks[n] EXCEPT !.last = l]
  <2>3. s \in StackType /\ s.first = stacks[n].first /\ s.last = l
    <3>1. stacks[n].last \in Nat
      BY <2>2, StackFields
    <3>2. l \in Nat
      BY <3>1
    <3> HIDE DEF l
    <3> QED
      BY <2>2, <3>2, StackExtended
  <2>4. w.stacks = [stacks EXCEPT ![n] = s]
    BY <2>1
  <2>5. l = i
    BY <1>1, <1>3, <1>5, <1>6
  <2> HIDE DEF s, l
  <2>6. /\ w.stacks \in Seq(StackType) /\ Len(w.stacks) = n
        /\ \A k \in 1 .. n : w.stacks[k] = IF k = n THEN s ELSE stacks[k]
    BY <1>1, <2>2, <2>3, <2>4
  <2>7. /\ w.targets = Append(targets, [subject |-> c.subject, stack |-> n])
    BY <1>4, <2>6
  <2>8. /\ w.targets \in Seq(TargetType) /\ Len(w.targets) = i
        /\ \A j \in 1 .. i - 1 : w.targets[j] = targets[j]
        /\ w.targets[i].subject = c.subject /\ w.targets[i].stack = n
    <3> DEFINE t == [subject |-> c.subject, stack |-> n]
    <3>1. t \in TargetType /\ t.subject = c.subject /\ t.stack = n
      BY <1>1, <1>2, TargetMade
    <3>2. w.targets = Append(targets, t)
      BY <2>7
    <3> HIDE DEF t
    <3>3. /\ w.targets \in Seq(TargetType) /\ Len(w.targets) = i
          /\ \A j \in 1 .. i - 1 : w.targets[j] = targets[j]
          /\ w.targets[i] = t
      BY <1>1, <3>1, <3>2
    <3> QED
      BY <3>1, <3>3
  <2>9. \A k \in 1 .. n : w.stacks[k].first = stacks[k].first
    BY <2>3, <2>6
  <2>10. \A k \in 1 .. n : w.stacks[k].last = IF k = n THEN i ELSE stacks[k].last
    BY <2>3, <2>5, <2>6
  <2>11. \A j \in 1 .. i : /\ w.targets[j].subject = branch[j].subject
                           /\ w.targets[j].stack \in 1 .. n
    BY <1>1, <1>3, <2>2, <2>8 DEF c
  <2>12. ASSUME NEW k \in 1 .. n
         PROVE  /\ 1 <= w.stacks[k].first /\ w.stacks[k].first <= w.stacks[k].last
                /\ w.stacks[k].last <= i
                /\ \A j \in 1 .. i :
                     w.targets[j].stack = k <=> w.stacks[k].first <= j /\ j <= w.stacks[k].last
    <3>1. stacks[k].first \in Nat /\ stacks[k].last \in Nat
      <4>1. stacks[k] \in StackType
        BY <1>1 DEF n, stacks
      <4> QED
        BY <4>1, StackFields
    <3>0. /\ 1 <= stacks[k].first /\ stacks[k].first <= stacks[k].last
          /\ stacks[k].last <= i - 1
          /\ \A j \in 1 .. i - 1 :
               targets[j].stack = k <=> stacks[k].first <= j /\ j <= stacks[k].last
      BY <1>3
    <3>2. CASE k = n
      <4>1. w.stacks[k].first = stacks[k].first /\ w.stacks[k].last = i
        BY <2>9, <2>10, <3>2
      <4>2. stacks[k].last = i - 1
        BY <1>3, <1>5, <1>6, <3>2
      <4>3. ASSUME NEW j \in 1 .. i
            PROVE  w.targets[j].stack = k <=> w.stacks[k].first <= j /\ j <= w.stacks[k].last
        <5>1. CASE j = i
          BY <1>1, <2>8, <3>0, <3>1, <3>2, <4>1, <5>1
        <5>2. CASE j # i
          <6>1. j \in 1 .. i - 1
            BY <1>1, <5>2
          <6>2. targets[j].stack = k <=> stacks[k].first <= j /\ j <= stacks[k].last
            BY <3>0, <6>1
          <6> QED
            BY <1>1, <2>8, <4>1, <4>2, <6>1, <6>2
        <5> QED
          BY <5>1, <5>2
      <4> QED
        BY <1>1, <3>0, <3>1, <4>1, <4>3
    <3>3. CASE k # n
      <4>1. w.stacks[k].first = stacks[k].first /\ w.stacks[k].last = stacks[k].last
        BY <2>9, <2>10, <3>3
      <4>2. ~(i <= stacks[k].last)
        BY <1>1, <1>3, <3>1
      <4>3. \A j \in 1 .. i - 1 :
              w.targets[j].stack = k <=> w.stacks[k].first <= j /\ j <= w.stacks[k].last
        BY <1>3, <2>8, <4>1
      <4> QED
        BY <1>1, <1>3, <2>8, <3>1, <3>3, <4>1, <4>2, <4>3
    <3> QED
      BY <3>2, <3>3
  <2>13. Blocks(w, i)
    <3>1. w.stacks[Len(w.stacks)].last = i
      BY <2>2, <2>6, <2>10
    <3>2. \A k \in 1 .. Len(w.stacks) :
            /\ 1 <= w.stacks[k].first /\ w.stacks[k].first <= w.stacks[k].last
            /\ w.stacks[k].last <= i
            /\ \A j \in 1 .. i :
                 w.targets[j].stack = k <=> w.stacks[k].first <= j /\ j <= w.stacks[k].last
      BY <2>6, <2>12
    <3>3. \A j \in 1 .. i : /\ w.targets[j].subject = branch[j].subject
                            /\ w.targets[j].stack \in 1 .. Len(w.stacks)
      BY <2>6, <2>11
    <3>4. Len(w.stacks) > 0
      BY <1>5, <1>6, <2>6
    <3> QED
      BY <2>6, <2>8, <3>1, <3>2, <3>3, <3>4 DEF Blocks
  <2> QED
    BY <1>5, <1>6, <2>6, <2>8, <2>9, <2>13 DEF w, c, n, stacks, targets, captured
<1>7. CASE ~captured
  <2> DEFINE s == [first |-> Len(targets) + 1, last |-> Len(targets) + 1, id |-> c.id]
  <2>1. w.stacks = Append(stacks, s)
    BY <1>4, <1>7 DEF Opened, stacks, targets
  <2>2. s \in StackType /\ s.first = i /\ s.last = i
    <3>1. Len(targets) + 1 = i
      BY <1>1
    <3>2. s = [first |-> i, last |-> i, id |-> c.id]
      BY <3>1
    <3> QED
      BY <1>1, <1>2, <3>2, StackMade
  <2> HIDE DEF s
  <2>6. /\ w.stacks \in Seq(StackType) /\ Len(w.stacks) = n + 1
        /\ \A k \in 1 .. n : w.stacks[k] = stacks[k]
        /\ w.stacks[n + 1] = s
    BY <1>1, <2>1, <2>2 DEF n, stacks
  <2>7. w.targets = Append(targets, [subject |-> c.subject, stack |-> n + 1])
    BY <1>4, <2>6
  <2>8. /\ w.targets \in Seq(TargetType) /\ Len(w.targets) = i
        /\ \A j \in 1 .. i - 1 : w.targets[j] = targets[j]
        /\ w.targets[i].subject = c.subject /\ w.targets[i].stack = n + 1
    <3> DEFINE t == [subject |-> c.subject, stack |-> n + 1]
    <3>1. t \in TargetType /\ t.subject = c.subject /\ t.stack = n + 1
      <4>1. n + 1 \in Nat
        BY <1>1
      <4> QED
        BY <1>2, <4>1, TargetMade
    <3>2. w.targets = Append(targets, t)
      BY <2>7
    <3> HIDE DEF t
    <3>3. /\ w.targets \in Seq(TargetType) /\ Len(w.targets) = i
          /\ \A j \in 1 .. i - 1 : w.targets[j] = targets[j]
          /\ w.targets[i] = t
      BY <1>1, <3>1, <3>2
    <3> QED
      BY <3>1, <3>3
  <2>11. \A j \in 1 .. i : /\ w.targets[j].subject = branch[j].subject
                           /\ w.targets[j].stack \in 1 .. n + 1
    <3> SUFFICES ASSUME NEW j \in 1 .. i
                 PROVE  /\ w.targets[j].subject = branch[j].subject
                        /\ w.targets[j].stack \in 1 .. n + 1
      OBVIOUS
    <3>1. CASE j = i
      BY <1>1, <2>8, <3>1 DEF c
    <3>2. CASE j # i
      <4>1. j \in 1 .. i - 1
        BY <1>1, <3>2
      <4>2. targets[j].subject = branch[j].subject /\ targets[j].stack \in 1 .. n
        BY <1>3, <4>1
      <4> QED
        BY <1>1, <2>8, <4>1, <4>2
    <3> QED
      BY <3>1, <3>2
  <2>12. ASSUME NEW k \in 1 .. n + 1
         PROVE  /\ 1 <= w.stacks[k].first /\ w.stacks[k].first <= w.stacks[k].last
                /\ w.stacks[k].last <= i
                /\ \A j \in 1 .. i :
                     w.targets[j].stack = k <=> w.stacks[k].first <= j /\ j <= w.stacks[k].last
    <3>2. CASE k = n + 1
      <4>1. \A j \in 1 .. i - 1 : w.targets[j].stack # k
        <5> SUFFICES ASSUME NEW j \in 1 .. i - 1 PROVE w.targets[j].stack # k
          OBVIOUS
        <5>1. targets[j].stack \in 1 .. n
          BY <1>3
        <5> QED
          BY <1>1, <2>8, <3>2, <5>1
      <4> QED
        BY <1>1, <2>2, <2>6, <2>8, <3>2, <4>1
    <3>3. CASE k # n + 1
      <4>0. k \in 1 .. n
        BY <1>1, <3>3
      <4>1. w.stacks[k] = stacks[k] /\ stacks[k].first \in Nat /\ stacks[k].last \in Nat
        <5>1. stacks[k] \in StackType
          BY <1>1, <4>0 DEF n, stacks
        <5> QED
          BY <2>6, <4>0, <5>1, StackFields
      <4>2. ~(i <= stacks[k].last)
        <5>1. stacks[k].last <= i - 1
          BY <1>3, <4>0
        <5> QED
          BY <1>1, <4>1, <5>1
      <4>3. \A j \in 1 .. i - 1 :
              w.targets[j].stack = k <=> w.stacks[k].first <= j /\ j <= w.stacks[k].last
        BY <1>3, <2>8, <4>0, <4>1
      <4> QED
        BY <1>1, <1>3, <2>8, <3>3, <4>0, <4>1, <4>2, <4>3
    <3> QED
      BY <3>2, <3>3
  <2>13. Blocks(w, i)
    <3>1. w.stacks[Len(w.stacks)].last = i
      BY <2>2, <2>6
    <3>2. \A k \in 1 .. Len(w.stacks) :
            /\ 1 <= w.stacks[k].first /\ w.stacks[k].first <= w.stacks[k].last
            /\ w.stacks[k].last <= i
            /\ \A j \in 1 .. i :
                 w.targets[j].stack = k <=> w.stacks[k].first <= j /\ j <= w.stacks[k].last
      BY <2>6, <2>12
    <3>3. \A j \in 1 .. i : /\ w.targets[j].subject = branch[j].subject
                            /\ w.targets[j].stack \in 1 .. Len(w.stacks)
      BY <2>6, <2>11
    <3>4. Len(w.stacks) > 0
      BY <1>1, <2>6
    <3> QED
      BY <2>6, <2>8, <3>1, <3>2, <3>3, <3>4 DEF Blocks
  <2> QED
    BY <1>1, <1>7, <2>2, <2>6, <2>8, <2>13 DEF w, c, n, stacks, targets, captured
<1> QED
  BY <1>6, <1>7

\* The commits before the j-th that have its title for a subject.
Before(j) == {i \in 1 .. (j - 1) : branch[i].subject = <<TitleOf(branch[j])>>}

\* Git's host of feedback is the oldest of them.
LEMMA HostIsFirst ==
    ASSUME NEW j \in Nat
    PROVE  /\ Before(j) = {} => HostOf(j) = j
           /\ Before(j) # {} => HostOf(j) \in Before(j) /\ \A i \in Before(j) : HostOf(j) <= i
<1>1. CASE Before(j) = {}
  BY <1>1 DEF HostOf, Before
<1>2. CASE Before(j) # {}
  <2>1. Before(j) \in SUBSET Nat
    BY DEF Before
  <2>2. \E i \in Before(j) : \A k \in Before(j) : i <= k
    <3> HIDE DEF Before
    <3> QED
      BY <1>2, <2>1, BoundedMin
  <2>3. HostOf(j) = CHOOSE i \in Before(j) : \A k \in Before(j) : i <= k
    BY <1>2 DEF HostOf, Before
  <2> HIDE DEF Before
  <2> QED
    BY <1>2, <2>2, <2>3
<1> QED
  BY <1>1, <1>2

\* A subject below a marker ends as the whole one; a title alone is its end.
LEMMA TailEnds ==
    ASSUME NEW s \in Seq(Words), Len(s) > 1
    PROVE  /\ Tail(s) \in Seq(Words) /\ Len(Tail(s)) = Len(s) - 1
           /\ Last(Tail(s)) = Last(s)
           /\ Len(s) = 2 => Tail(s) = <<Last(s)>>
<1>1. /\ Tail(s) \in Seq(Words) /\ Len(Tail(s)) = Len(s) - 1
      /\ \A k \in 1 .. Len(s) - 1 : Tail(s)[k] = s[k + 1]
  OBVIOUS
<1>2. Len(s) - 1 \in 1 .. Len(s) - 1 /\ (Len(s) - 1) + 1 = Len(s)
  OBVIOUS
<1>3. Last(Tail(s)) = Last(s)
  BY <1>1, <1>2 DEF Last
<1>4. ASSUME Len(s) = 2 PROVE Tail(s) = <<Last(s)>>
  <2> DEFINE t == Tail(s)
             u == <<Last(s)>>
  <2>1. Last(s) \in Words
    BY DEF Last
  <2>2. t \in Seq(Words) /\ Len(t) = 1 /\ t[1] = Last(s)
    BY <1>1, <1>4 DEF Last
  <2>3. u \in Seq(Words) /\ Len(u) = 1 /\ u[1] = Last(s)
    BY <2>1
  <2> HIDE DEF t, u
  <2>4. t = u
    BY <2>2, <2>3, SeqEqual
  <2> QED
    BY <2>4 DEF t, u
<1> QED
  BY <1>1, <1>3, <1>4

\* A stack that begins with feedback stays.
LEMMA TakenLoose ==
    ASSUME BranchInv, NEW i \in 1 .. Len(branch), NEW v, Blocks(v, i - 1), Loose(v)
    PROVE  Loose(Take(v, branch[i]))
<1> DEFINE w == Take(v, branch[i])
<1>0. v.stacks \in Seq(StackType) /\ Len(v.stacks) \in Nat
  BY DEF Blocks
<1>1. \A k \in 1 .. Len(v.stacks) : w.stacks[k].first = v.stacks[k].first
  BY TakenBlocks
<1>2. Len(w.stacks) = Len(v.stacks) \/ Len(w.stacks) = Len(v.stacks) + 1
  BY TakenBlocks
<1>3. PICK k \in 1 .. Len(v.stacks) : IsFeedback(branch[v.stacks[k].first])
  BY DEF Loose
<1> HIDE DEF w
<1>4. k \in 1 .. Len(w.stacks) /\ IsFeedback(branch[w.stacks[k].first])
  BY <1>0, <1>1, <1>2, <1>3
<1>5. Loose(w)
  BY <1>4 DEF Loose
<1> QED
  BY <1>5 DEF w

\* Feedback that the last stack takes goes to the commit that begins it.
LEMMA HostOfCaptured ==
    ASSUME BranchInv, NEW i \in 1 .. Len(branch), NEW v, Blocks(v, i - 1), Nested(v, i - 1),
           IsFeedback(branch[i]), Captures(v, branch[i])
    PROVE  /\ Len(v.stacks) \in 1 .. Len(v.stacks)
           /\ HostOf(i) = v.stacks[Len(v.stacks)].first /\ HostOf(i) < i
<1> DEFINE n == Len(v.stacks)
           h == v.stacks[n].first
           s == branch[i].subject
<1>0. /\ v.stacks \in Seq(StackType) /\ v.targets \in Seq(TargetType) /\ Len(v.targets) = i - 1
      /\ n \in Nat /\ i \in Nat /\ i >= 1
  BY DEF Blocks, BranchInv
<1>1. s \in Seq(Words) /\ Len(s) > 1
  <2>1. branch[i] \in CommitType
    BY DEF BranchInv
  <2> QED
    BY <2>1 DEF CommitType, IsFeedback
<1>2. PICK j \in DOMAIN v.targets :
        /\ {k \in DOMAIN v.targets : v.targets[k].subject = Tail(s)} = {j}
        /\ v.targets[j].stack = n
  BY DEF Captures, TargetSubject
<1>3. j \in 1 .. i - 1 /\ DOMAIN v.targets = 1 .. i - 1
  BY <1>0
<1>4. \A k \in 1 .. i - 1 : branch[k].subject = Tail(s) <=> k = j
  <2> SUFFICES ASSUME NEW k \in 1 .. i - 1 PROVE branch[k].subject = Tail(s) <=> k = j
    OBVIOUS
  <2>1. v.targets[k].subject = branch[k].subject
    BY DEF Blocks
  <2> QED
    BY <1>2, <1>3, <2>1
<1>5. v.targets[j].stack \in 1 .. n /\ n \in 1 .. n
  BY <1>2, <1>3 DEF Blocks
<1>6. h \in Nat /\ h >= 1 /\ h <= i - 1
  <2>1. v.stacks[n] \in StackType
    BY <1>0, <1>5
  <2>2. 1 <= v.stacks[n].first /\ v.stacks[n].first <= v.stacks[n].last /\ v.stacks[n].last <= i - 1
    BY <1>5 DEF Blocks
  <2>3. v.stacks[n].first \in Nat /\ v.stacks[n].last \in Nat
    BY <2>1, StackFields
  <2> QED
    BY <1>0, <2>2, <2>3
<1>7. IF IsFeedback(branch[j]) THEN HostOf(j) = h /\ HostOf(j) < j ELSE h = j
  BY <1>2, <1>3 DEF Nested
<1> HIDE DEF n, h
<1>8. j \in Nat /\ j \in 1 .. Len(branch) /\ j < i
  BY <1>0, <1>3
<1>9. h \in Before(i) /\ \A x \in Before(i) : h <= x
  <2>1. CASE IsFeedback(branch[j])
    <3>1. HostOf(j) = h /\ h < j
      BY <1>7, <2>1
    <3>2. Before(j) # {}
      BY <1>6, <1>8, <3>1, HostIsFirst
    <3>3. h \in Before(j) /\ \A x \in Before(j) : h <= x
      BY <1>8, <3>1, <3>2, HostIsFirst
    <3>4. branch[j].subject = Tail(s) /\ Len(Tail(s)) > 1
      BY <1>3, <1>4, <2>1 DEF IsFeedback
    <3>5. TitleOf(branch[j]) = TitleOf(branch[i])
      <4>1. Last(Tail(s)) = Last(s)
        BY <1>1, TailEnds
      <4> QED
        BY <3>4, <4>1 DEF TitleOf
    <3>6. h \in Before(i)
      BY <1>0, <1>6, <3>3, <3>5 DEF Before
    <3>7. ASSUME NEW x \in Before(i) PROVE h <= x
      <4>1. x \in 1 .. i - 1 /\ branch[x].subject = <<TitleOf(branch[i])>>
        BY DEF Before
      <4>2. CASE x < j
        <5>1. x \in Before(j)
          BY <1>0, <1>8, <3>5, <4>1, <4>2 DEF Before
        <5> QED
          BY <3>3, <5>1
      <4>3. CASE ~(x < j)
        BY <1>0, <1>6, <1>8, <3>1, <4>1, <4>3
      <4> QED
        BY <4>2, <4>3
    <3> QED
      BY <3>6, <3>7
  <2>2. CASE ~IsFeedback(branch[j])
    <3>1. h = j
      BY <1>7, <2>2
    <3>2. branch[j].subject = Tail(s)
      BY <1>3, <1>4
    <3>3. Len(branch[j].subject) >= 1 /\ ~(Len(branch[j].subject) > 1)
      BY <1>8, <2>2 DEF BranchInv, Wellformed, IsFeedback
    <3>4. Tail(s) \in Seq(Words) /\ Len(Tail(s)) = Len(s) - 1
      BY <1>1, TailEnds
    <3>5. Len(s) = 2
      <4>1. Len(Tail(s)) \in Nat /\ Len(s) \in Nat
        BY <1>1, <3>4
      <4>2. Len(Tail(s)) >= 1 /\ ~(Len(Tail(s)) > 1)
        BY <3>2, <3>3
      <4> HIDE DEF s
      <4> QED
        BY <3>4, <4>1, <4>2
    <3>6. Tail(s) = <<TitleOf(branch[i])>>
      BY <1>1, <3>5, TailEnds DEF TitleOf
    <3>7. \A x \in Before(i) : x = j
      BY <1>0, <1>4, <3>6 DEF Before
    <3>8. j \in Before(i)
      BY <1>3, <3>2, <3>6 DEF Before
    <3> QED
      BY <1>8, <3>1, <3>7, <3>8
  <2> QED
    BY <2>1, <2>2
<1>10. HostOf(i) = h
  <2>1. HostOf(i) \in Before(i) /\ \A x \in Before(i) : HostOf(i) <= x
    BY <1>0, <1>9, HostIsFirst
  <2>2. HostOf(i) <= h /\ h <= HostOf(i) /\ HostOf(i) \in Nat
    BY <1>9, <2>1 DEF Before
  <2> QED
    BY <1>6, <2>2
<1> QED
  BY <1>0, <1>5, <1>6, <1>10 DEF n, h

\* Taking one commit keeps the agreement with Git, or begins a stack with feedback.
LEMMA TakenNested ==
    ASSUME BranchInv, NEW i \in 1 .. Len(branch), NEW v, Blocks(v, i - 1), Nested(v, i - 1)
    PROVE  LET w == Take(v, branch[i]) IN Loose(w) \/ Nested(w, i)
<1> DEFINE w == Take(v, branch[i])
           n == Len(v.stacks)
           captured == IsFeedback(branch[i]) /\ Captures(v, branch[i])
<1>0. /\ v.stacks \in Seq(StackType) /\ v.targets \in Seq(TargetType) /\ Len(v.targets) = i - 1
      /\ n \in Nat /\ i \in Nat /\ i >= 1 /\ branch \in Seq(CommitType)
  BY DEF Blocks, BranchInv
<1>1. /\ Blocks(w, i)
      /\ captured =>
           /\ n > 0 /\ Len(w.stacks) = n
           /\ w.targets[i].stack = n
      /\ ~captured =>
           /\ Len(w.stacks) = n + 1
           /\ w.stacks[Len(w.stacks)].first = i
           /\ w.targets[i].stack = Len(w.stacks)
      /\ \A k \in 1 .. n : w.stacks[k].first = v.stacks[k].first
      /\ \A j \in 1 .. i - 1 : w.targets[j] = v.targets[j]
  <2>1. Blocks(w, i)
    BY TakenBlocks
  <2>2. captured => n > 0 /\ Len(w.stacks) = n /\ w.targets[i].stack = n
    BY TakenBlocks
  <2>3. ~captured => /\ Len(w.stacks) = n + 1
                     /\ w.stacks[Len(w.stacks)].first = i
                     /\ w.targets[i].stack = Len(w.stacks)
    BY TakenBlocks
  <2>4. \A k \in 1 .. n : w.stacks[k].first = v.stacks[k].first
    BY TakenBlocks
  <2>5. \A j \in 1 .. i - 1 : w.targets[j] = v.targets[j]
    BY TakenBlocks
  <2> HIDE DEF w, n, captured
  <2> QED
    BY <2>1, <2>2, <2>3, <2>4, <2>5
<1>2. Hosts[i] = IF Stays(i) THEN Append(Hosts[i - 1], i) ELSE Hosts[i - 1]
  BY <1>0, HostsStep
<1>3. /\ Hosts[i - 1] \in Seq(Nat) /\ Len(Hosts[i - 1]) = n
      /\ \A k \in 1 .. n : Hosts[i - 1][k] = v.stacks[k].first
  BY DEF Nested
<1> HIDE DEF w, n
<1>4. ASSUME NEW j \in 1 .. i - 1
      PROVE  IF IsFeedback(branch[j])
             THEN HostOf(j) = w.stacks[w.targets[j].stack].first /\ HostOf(j) < j
             ELSE w.stacks[w.targets[j].stack].first = j
  <2>1. IF IsFeedback(branch[j])
        THEN HostOf(j) = v.stacks[v.targets[j].stack].first /\ HostOf(j) < j
        ELSE v.stacks[v.targets[j].stack].first = j
    BY DEF Nested
  <2>2. v.targets[j].stack \in 1 .. n
    BY DEF Blocks, n
  <2>3. w.stacks[w.targets[j].stack].first = v.stacks[v.targets[j].stack].first
    BY <1>1, <2>2
  <2> QED
    BY <2>1, <2>3
<1>5. CASE captured
  <2>1. n \in 1 .. n /\ HostOf(i) = v.stacks[n].first /\ HostOf(i) < i
    BY <1>5, HostOfCaptured DEF n
  <2>2. Hosts[i] = Hosts[i - 1]
    BY <1>0, <1>2, <1>5, <2>1 DEF Stays
  <2>3. HostOf(i) = w.stacks[w.targets[i].stack].first
    BY <1>1, <1>5, <2>1
  <2>4. ASSUME NEW j \in 1 .. i
        PROVE  IF IsFeedback(branch[j])
               THEN HostOf(j) = w.stacks[w.targets[j].stack].first /\ HostOf(j) < j
               ELSE w.stacks[w.targets[j].stack].first = j
    <3>1. CASE j = i
      BY <1>5, <2>1, <2>3, <3>1
    <3>2. CASE j # i
      <4>1. j \in 1 .. i - 1
        BY <1>0, <3>2
      <4> QED
        BY <1>4, <4>1
    <3> QED
      BY <3>1, <3>2
  <2>5. Len(w.stacks) = n
    BY <1>1, <1>5
  <2>6. Hosts[i] \in Seq(Nat) /\ Len(Hosts[i]) = Len(w.stacks)
    BY <1>3, <2>2, <2>5
  <2>7. \A k \in 1 .. Len(w.stacks) : Hosts[i][k] = w.stacks[k].first
    BY <1>1, <1>3, <2>2, <2>5
  <2>8. Nested(w, i)
    BY <2>4, <2>6, <2>7 DEF Nested
  <2> QED
    BY <2>8 DEF w
<1>6. CASE ~captured /\ IsFeedback(branch[i])
  <2>1. Len(w.stacks) \in 1 .. Len(w.stacks) /\ w.stacks[Len(w.stacks)].first = i
    BY <1>0, <1>1, <1>6
  <2>2. IsFeedback(branch[w.stacks[Len(w.stacks)].first])
    BY <1>6, <2>1
  <2>3. Loose(w)
    BY <2>1, <2>2 DEF Loose
  <2> QED
    BY <2>3 DEF w
<1>7. CASE ~IsFeedback(branch[i])
  <2>0. ~captured
    BY <1>7
  <2>1. Hosts[i] = Append(Hosts[i - 1], i)
    BY <1>2, <1>7 DEF Stays
  <2>2. Len(w.stacks) = n + 1 /\ w.stacks[n + 1].first = i /\ w.targets[i].stack = n + 1
    BY <1>1, <2>0
  <2>4. ASSUME NEW j \in 1 .. i
        PROVE  IF IsFeedback(branch[j])
               THEN HostOf(j) = w.stacks[w.targets[j].stack].first /\ HostOf(j) < j
               ELSE w.stacks[w.targets[j].stack].first = j
    <3>1. CASE j = i
      BY <1>7, <2>2, <3>1
    <3>2. CASE j # i
      <4>1. j \in 1 .. i - 1
        BY <1>0, <3>2
      <4> QED
        BY <1>4, <4>1
    <3> QED
      BY <3>1, <3>2
  <2>5. /\ Hosts[i] \in Seq(Nat) /\ Len(Hosts[i]) = n + 1
        /\ \A k \in 1 .. n : Hosts[i][k] = Hosts[i - 1][k]
        /\ Hosts[i][n + 1] = i
    BY <1>0, <1>3, <2>1
  <2>6. Hosts[i] \in Seq(Nat) /\ Len(Hosts[i]) = Len(w.stacks)
    BY <2>2, <2>5
  <2>7. ASSUME NEW k \in 1 .. Len(w.stacks) PROVE Hosts[i][k] = w.stacks[k].first
    <3>1. CASE k = n + 1
      BY <2>2, <2>5, <3>1
    <3>2. CASE k # n + 1
      <4>1. k \in 1 .. n
        BY <1>0, <2>2, <3>2
      <4> QED
        BY <1>1, <1>3, <2>5, <4>1
    <3> QED
      BY <3>1, <3>2
  <2>8. Nested(w, i)
    BY <2>4, <2>6, <2>7 DEF Nested
  <2> QED
    BY <2>8 DEF w
<1> QED
  BY <1>5, <1>6, <1>7

\* After every commit, the stacks are blocks, and if each begins with a plain commit,
\* Git agrees with them.
LEMMA Nests ==
    ASSUME BranchInv
    PROVE  LET v == View(branch) IN Blocks(v, Len(branch)) /\ (Loose(v) \/ Nested(v, Len(branch)))
<1> DEFINE n == Len(branch)
           V == Views(branch)
           Right(v, i) == Blocks(v, i) /\ (Loose(v) \/ Nested(v, i))
           Bad == {i \in 0 .. n : ~Right(V[i], i)}
<1>0. branch \in Seq(CommitType) /\ n \in Nat
  BY DEF BranchInv
<1>1. /\ View(branch) = V[n] /\ V[0] = NoStacks
      /\ \A i \in 1 .. n : V[i] = Take(V[i - 1], branch[i])
  BY <1>0, ViewsStep
<1>2. Right(V[0], 0)
  <2>1. NoStacks.stacks = <<>> /\ NoStacks.targets = <<>>
    BY DEF NoStacks
  <2> HIDE DEF V
  <2>2. Blocks(V[0], 0)
    BY <1>1, <2>1 DEF Blocks
  <2>3. Hosts[0] = <<>>
    BY <1>0, HostsStep
  <2>4. Nested(V[0], 0)
    BY <1>1, <2>1, <2>3 DEF Nested
  <2> QED
    BY <2>2, <2>4
<1>3. ASSUME NEW i \in 1 .. n, Right(V[i - 1], i - 1) PROVE Right(V[i], i)
  <2> HIDE DEF V
  <2>1. Blocks(V[i], i)
    BY <1>1, <1>3, TakenBlocks
  <2>2. Loose(V[i - 1]) => Loose(V[i])
    BY <1>1, <1>3, TakenLoose
  <2>3. Nested(V[i - 1], i - 1) => Loose(V[i]) \/ Nested(V[i], i)
    BY <1>1, <1>3, TakenNested
  <2> QED
    BY <1>3, <2>1, <2>2, <2>3
<1> HIDE DEF V, Right
<1>4. Bad = {}
  <2> SUFFICES ASSUME Bad # {} PROVE FALSE
    OBVIOUS
  <2>1. Bad \in SUBSET Nat
    OBVIOUS
  <2>2. PICK m \in Bad : \A k \in Bad : m <= k
    <3> HIDE DEF Bad
    <3> QED
      BY <2>1, BoundedMin
  <2>3. m \in 0 .. n /\ ~Right(V[m], m) /\ m # 0
    BY <1>2
  <2>4. m \in 1 .. n /\ m - 1 \in 0 .. n /\ m - 1 \notin Bad
    <3> HIDE DEF Bad
    <3> QED
      BY <1>0, <2>2, <2>3
  <2>5. Right(V[m - 1], m - 1)
    BY <2>4
  <2> QED
    BY <1>3, <2>3, <2>4, <2>5
<1>5. Right(V[n], n)
  BY <1>0, <1>4
<1> QED
  BY <1>1, <1>5 DEF Right

\* What the newest commit with a message says is what autosquash leaves.
LEMMA NewestIsResult ==
    ASSUME BranchInv, NEW v, Blocks(v, Len(branch)), Nested(v, Len(branch)), ~Loose(v),
           NEW k \in 1 .. Len(v.stacks)
    PROVE  /\ v.stacks[k].first \in 1 .. Len(branch)
           /\ ~IsFeedback(branch[v.stacks[k].first])
           /\ EffectiveMessage(branch, v.stacks[k]) = Result(v.stacks[k].first).message
<1> DEFINE n == Len(branch)
           f == v.stacks[k].first
           l == v.stacks[k].last
           carriers == {i \in f .. l : CarriesMessage(branch[i])}
<1>0. n \in Nat /\ branch \in Seq(CommitType) /\ v.stacks \in Seq(StackType)
  BY DEF Blocks, BranchInv
<1>1. /\ f \in Nat /\ l \in Nat /\ 1 <= f /\ f <= l /\ l <= n
      /\ \A j \in 1 .. n : v.targets[j].stack = k <=> f <= j /\ j <= l
  <2>1. v.stacks[k] \in StackType
    BY <1>0
  <2>2. f \in Nat /\ l \in Nat
    BY <2>1, StackFields
  <2> QED
    BY <2>2 DEF Blocks
<1>2. ~IsFeedback(branch[f])
  BY DEF Loose
<1>3. \A j \in 1 .. n :
        IF IsFeedback(branch[j])
        THEN HostOf(j) = v.stacks[v.targets[j].stack].first /\ HostOf(j) < j
        ELSE v.stacks[v.targets[j].stack].first = j
  BY DEF Nested
<1>4. ASSUME NEW j \in 1 .. n
      PROVE  /\ f <= j /\ j <= l /\ j # f => IsFeedback(branch[j]) /\ HostOf(j) = f
             /\ IsFeedback(branch[j]) /\ HostOf(j) = f => f <= j /\ j <= l /\ j # f
  <2>1. ASSUME f <= j /\ j <= l /\ j # f PROVE IsFeedback(branch[j]) /\ HostOf(j) = f
    <3>1. v.targets[j].stack = k
      BY <1>1, <2>1
    <3> QED
      BY <1>3, <2>1, <3>1
  <2>2. ASSUME IsFeedback(branch[j]), HostOf(j) = f PROVE f <= j /\ j <= l /\ j # f
    <3> DEFINE q == v.targets[j].stack
    <3>1. q \in 1 .. Len(v.stacks) /\ v.stacks[q].first = f
      BY <1>3, <2>2 DEF Blocks
    <3>2. v.stacks[q].first <= v.stacks[q].last /\ v.stacks[q].first <= f
      BY <1>1, <3>1 DEF Blocks
    <3>3. v.targets[f].stack = q
      <4>1. f \in 1 .. n
        BY <1>0, <1>1
      <4>2. v.targets[f].stack = q <=> v.stacks[q].first <= f /\ f <= v.stacks[q].last
        BY <3>1, <4>1 DEF Blocks
      <4> QED
        BY <3>1, <3>2, <4>2
    <3>4. v.targets[f].stack = k
      BY <1>0, <1>1
    <3>5. f <= j /\ j <= l
      BY <1>1, <3>3, <3>4
    <3> QED
      BY <1>2, <2>2, <3>5
  <2> QED
    BY <2>1, <2>2
<1>5. f \in 1 .. n /\ DOMAIN branch = 1 .. n
  BY <1>0, <1>1
<1>6. /\ EffectiveMessage(branch, v.stacks[k]) =
           branch[IF carriers = {} THEN f ELSE Max(carriers)].message
  BY DEF EffectiveMessage
<1> HIDE DEF f, l, n
<1>7. carriers = {f} \cup Amends(f) /\ f \notin Amends(f)
  <2>1. CarriesMessage(branch[f])
    BY <1>2 DEF CarriesMessage
  <2>2. ASSUME NEW i PROVE i \in carriers <=> i = f \/ i \in Amends(f)
    <3>1. CASE i \in 1 .. n
      <4>1. i \in Amends(f) <=> IsFeedback(branch[i]) /\ CarriesMessage(branch[i]) /\ HostOf(i) = f
        BY <1>5, <3>1 DEF Amends
      <4>2. i \in carriers <=> f <= i /\ i <= l /\ CarriesMessage(branch[i])
        BY <1>0, <1>1, <3>1
      <4>3. CASE i = f
        BY <1>1, <2>1, <4>2, <4>3
      <4>4. CASE i # f
        <5>1. f <= i /\ i <= l <=> IsFeedback(branch[i]) /\ HostOf(i) = f
          BY <1>4, <3>1, <4>4
        <5> HIDE DEF carriers
        <5> QED
          BY <4>1, <4>2, <4>4, <5>1
      <4> QED
        BY <4>3, <4>4
    <3>2. CASE i \notin 1 .. n
      BY <1>0, <1>1, <1>5, <3>2 DEF Amends
    <3> QED
      BY <3>1, <3>2
  <2>3. f \notin Amends(f)
    BY <1>2 DEF Amends
  <2> HIDE DEF carriers
  <2> QED
    BY <2>2, <2>3
<1>8. /\ carriers \in SUBSET (1 .. n) /\ \A i \in carriers : f <= i
  BY <1>0, <1>1
<1> HIDE DEF carriers
<1>9. carriers # {} /\ Max(carriers) \in carriers /\ \A x \in carriers : x <= Max(carriers)
  BY <1>0, <1>7, <1>8, BoundedMax
<1>10. CASE Amends(f) = {}
  <2>1. Max(carriers) = f
    BY <1>7, <1>9, <1>10
  <2>2. Result(f) = branch[f]
    BY <1>10 DEF Result
  <2> QED
    BY <1>2, <1>5, <1>6, <1>9, <2>1, <2>2 DEF f, n
<1>11. CASE Amends(f) # {}
  <2> DEFINE a == Max(Amends(f))
  <2>1. Amends(f) \in SUBSET (1 .. n)
    BY <1>7, <1>8
  <2>2. a \in Amends(f) /\ \A x \in Amends(f) : x <= a
    BY <1>0, <1>11, <2>1, BoundedMax
  <2>3. a \in carriers /\ a # f /\ f <= a
    BY <1>7, <1>8, <2>2
  <2> HIDE DEF a
  <2>4. Max(carriers) = a
    <3>1. a <= Max(carriers)
      BY <1>9, <2>3
    <3>2. Max(carriers) # f
      BY <1>1, <1>8, <1>9, <2>3, <3>1
    <3>3. Max(carriers) <= a
      BY <1>7, <1>9, <2>2, <3>2
    <3>4. a \in 1 .. n /\ Max(carriers) \in 1 .. n
      BY <1>8, <1>9, <2>3
    <3> QED
      BY <3>1, <3>3, <3>4
  <2>5. Result(f).message = branch[a].message
    BY <1>2, <1>11 DEF Result, a
  <2> QED
    BY <1>2, <1>5, <1>6, <1>9, <2>4, <2>5 DEF f, n
<1> QED
  BY <1>10, <1>11

\* The parts of a commit.
LEMMA CommitFields ==
    ASSUME NEW c \in CommitType
    PROVE  /\ c.subject \in Seq(Words) /\ c.message \in Seq(Words)
           /\ c.id \in ChangeIds \cup {""}
  BY DEF CommitType

LEMMA CommitMade ==
    ASSUME NEW s \in Seq(Words), NEW m \in Seq(Words), NEW d \in ChangeIds \cup {""}
    PROVE  /\ [subject |-> s, message |-> m, id |-> d] \in CommitType
           /\ [subject |-> s, message |-> m, id |-> d].subject = s
           /\ [subject |-> s, message |-> m, id |-> d].message = m
  BY DEF CommitType

\* A subject without a marker.
LEMMA ShortIsPlain ==
    ASSUME NEW c, Len(c.subject) = 1 PROVE ~IsFeedback(c) /\ Len(c.subject) >= 1
  BY DEF IsFeedback

\* A title alone.
LEMMA OneWord == ASSUME NEW w \in Words PROVE <<w>> \in Seq(Words) /\ Len(<<w>>) = 1 /\ <<w>>[1] = w
  OBVIOUS

\* A commit that stays is a commit still, and plain if it was.
LEMMA ResultTyped ==
    ASSUME BranchInv, NEW m \in 1 .. Len(branch)
    PROVE  /\ Result(m) \in CommitType /\ Wellformed(Result(m))
           /\ ~IsFeedback(branch[m]) => ~IsFeedback(Result(m))
<1>0. branch \in Seq(CommitType) /\ Len(branch) \in Nat /\ DOMAIN branch = 1 .. Len(branch)
  BY DEF BranchInv
<1>1. CASE IsFeedback(branch[m]) \/ Amends(m) = {}
  <2>1. Result(m) = branch[m]
    BY <1>1 DEF Result
  <2> QED
    BY <1>0, <2>1 DEF BranchInv, Wellformed
<1>2. CASE ~(IsFeedback(branch[m]) \/ Amends(m) = {})
  <2> DEFINE a == Max(Amends(m))
             c == branch[a]
             r == [subject |-> c.message, message |-> c.message, id |-> c.id]
  <2>1. Amends(m) \in SUBSET (1 .. Len(branch)) /\ Amends(m) # {}
    BY <1>0, <1>2 DEF Amends
  <2>2. a \in Amends(m)
    BY <1>0, <2>1, BoundedMax
  <2>3. Result(m) = r
    BY <1>2 DEF Result
  <2> HIDE DEF a
  <2>4. a \in 1 .. Len(branch) /\ IsFeedback(c) /\ CarriesMessage(c)
    BY <1>0, <2>2 DEF Amends
  <2>5. c \in CommitType /\ Len(c.message) = 1
    BY <1>0, <2>4 DEF BranchInv, Wellformed
  <2> HIDE DEF c
  <2>6. r \in CommitType /\ r.subject = c.message
    BY <2>5, CommitFields, CommitMade
  <2> HIDE DEF r
  <2>7. Len(r.subject) = 1
    BY <2>5, <2>6
  <2>8. ~IsFeedback(r)
    BY <2>7 DEF IsFeedback
  <2> QED
    BY <2>3, <2>6, <2>7, <2>8 DEF Wellformed
<1> QED
  BY <1>1, <1>2

\* The places of the hosts are places of the branch.
LEMMA HostsTyped ==
    ASSUME BranchInv PROVE Hosts[Len(branch)] \in Seq(1 .. Len(branch))
<1> DEFINE n == Len(branch)
           Bad == {i \in 0 .. n : Hosts[i] \notin Seq(1 .. n)}
<1>0. branch \in Seq(CommitType) /\ n \in Nat
  BY DEF BranchInv
<1>1. /\ Hosts[0] = <<>>
      /\ \A i \in 1 .. n : Hosts[i] = IF Stays(i) THEN Append(Hosts[i - 1], i) ELSE Hosts[i - 1]
  BY <1>0, HostsStep
<1> HIDE DEF n
<1>2. Bad = {}
  <2> SUFFICES ASSUME Bad # {} PROVE FALSE
    OBVIOUS
  <2>1. Bad \in SUBSET Nat
    BY <1>0
  <2>2. PICK m \in Bad : \A k \in Bad : m <= k
    <3> HIDE DEF Bad
    <3> QED
      BY <2>1, BoundedMin
  <2>3. m \in 0 .. n /\ Hosts[m] \notin Seq(1 .. n)
    OBVIOUS
  <2>4. m # 0
    <3>1. <<>> \in Seq(1 .. n)
      OBVIOUS
    <3> HIDE DEF Bad
    <3> QED
      BY <1>1, <2>3, <3>1
  <2>5. m \in 1 .. n /\ m - 1 \in 0 .. n /\ m - 1 \notin Bad
    <3> HIDE DEF Bad
    <3> QED
      BY <1>0, <2>2, <2>3, <2>4
  <2>6. Hosts[m - 1] \in Seq(1 .. n)
    BY <2>5
  <2>7. Append(Hosts[m - 1], m) \in Seq(1 .. n)
    BY <2>5, <2>6
  <2> QED
    BY <1>1, <2>3, <2>5, <2>6, <2>7
<1>3. n \in 0 .. n
  BY <1>0
<1> QED
  BY <1>2, <1>3 DEF n

\* The squashed branch is a branch.
LEMMA SquashedTyped ==
    ASSUME BranchInv
    PROVE  /\ Squashed \in Seq(CommitType)
           /\ \A i \in DOMAIN Squashed : Wellformed(Squashed[i])
<1> DEFINE h == Hosts[Len(branch)]
<1>1. h \in Seq(1 .. Len(branch))
  BY HostsTyped
<1>2. Squashed = [k \in DOMAIN h |-> Result(h[k])]
  BY HostsStep DEF BranchInv
<1> HIDE DEF h
<1>3. DOMAIN h = 1 .. Len(h) /\ Len(h) \in Nat
  BY <1>1
<1>4. \A k \in 1 .. Len(h) : Result(h[k]) \in CommitType /\ Wellformed(Result(h[k]))
  <2> SUFFICES ASSUME NEW k \in 1 .. Len(h)
               PROVE  Result(h[k]) \in CommitType /\ Wellformed(Result(h[k]))
    OBVIOUS
  <2>1. h[k] \in 1 .. Len(branch)
    BY <1>1, <1>3
  <2> QED
    BY <2>1, ResultTyped
<1>5. Squashed \in [1 .. Len(h) -> CommitType]
  BY <1>2, <1>3, <1>4
<1>6. Squashed \in Seq(CommitType)
  BY <1>3, <1>5
<1>7. \A i \in DOMAIN Squashed : Wellformed(Squashed[i])
  BY <1>2, <1>3, <1>4
<1> QED
  BY <1>6, <1>7

\* Each plain commit is a stack of its own.
Alone(v, i) ==
    /\ v.stacks \in Seq(StackType) /\ Len(v.stacks) = i
    /\ v.targets \in Seq(TargetType) /\ Len(v.targets) = i
    /\ \A k \in 1 .. i : v.stacks[k].first = k /\ v.stacks[k].last = k

\* A plain commit begins a stack.
LEMMA TakenAlone ==
    ASSUME NEW i \in Nat, NEW c \in CommitType, ~IsFeedback(c), NEW v, Alone(v, i)
    PROVE  Alone(Take(v, c), i + 1)
<1> DEFINE w == Take(v, c)
           s == [first |-> i + 1, last |-> i + 1, id |-> c.id]
           t == [subject |-> c.subject, stack |-> i + 1]
<1>0. /\ v.stacks \in Seq(StackType) /\ Len(v.stacks) = i
      /\ v.targets \in Seq(TargetType) /\ Len(v.targets) = i
      /\ \A k \in 1 .. i : v.stacks[k].first = k /\ v.stacks[k].last = k
  BY DEF Alone
<1>1. s \in StackType /\ s.first = i + 1 /\ s.last = i + 1
  <2>1. c.id \in ChangeIds \cup {""}
    BY CommitFields
  <2>2. i + 1 \in Nat
    OBVIOUS
  <2> QED
    BY <2>1, <2>2, StackMade
<1>2. t \in TargetType
  <2>1. c.subject \in Seq(Words)
    BY CommitFields
  <2>2. i + 1 \in Nat
    OBVIOUS
  <2> QED
    BY <2>1, <2>2, TargetMade
<1>3. w.stacks = Append(v.stacks, s)
  BY <1>0 DEF Take, Opened
<1> HIDE DEF s
<1>4. /\ w.stacks \in Seq(StackType) /\ Len(w.stacks) = i + 1
      /\ \A k \in 1 .. i : w.stacks[k] = v.stacks[k]
      /\ w.stacks[i + 1] = s
  BY <1>0, <1>1, <1>3
<1>5. w.targets = Append(v.targets, t)
  <2>1. w.targets = Append(v.targets, [subject |-> c.subject, stack |-> Len(w.stacks)])
    BY DEF Take
  <2> HIDE DEF w
  <2> QED
    BY <1>4, <2>1
<1> HIDE DEF t, w
<1>6. w.targets \in Seq(TargetType) /\ Len(w.targets) = i + 1
  BY <1>0, <1>2, <1>5
<1>7. ASSUME NEW k \in 1 .. i + 1 PROVE w.stacks[k].first = k /\ w.stacks[k].last = k
  <2>1. CASE k = i + 1
    BY <1>1, <1>4, <2>1
  <2>2. CASE k # i + 1
    <3>1. k \in 1 .. i
      BY <2>2
    <3> QED
      BY <1>0, <1>4, <3>1
  <2> QED
    BY <2>1, <2>2
<1>8. Alone(w, i + 1)
  BY <1>4, <1>6, <1>7 DEF Alone
<1> QED
  BY <1>8 DEF w

\* A branch of plain commits shows the message of each.
LEMMA PlainMessages ==
    ASSUME NEW commits \in Seq(CommitType), \A i \in 1 .. Len(commits) : ~IsFeedback(commits[i])
    PROVE  Messages(commits) = [i \in 1 .. Len(commits) |-> commits[i].message]
<1> DEFINE n == Len(commits)
           V == Views(commits)
           S == StacksOf(commits)
           Bad == {i \in 0 .. n : ~Alone(V[i], i)}
<1>0. n \in Nat /\ \A i \in 1 .. n : commits[i] \in CommitType
  OBVIOUS
<1>1. /\ View(commits) = V[n] /\ V[0] = NoStacks
      /\ \A i \in 1 .. n : V[i] = Take(V[i - 1], commits[i])
  BY ViewsStep
<1> HIDE DEF V, n
<1>2. Bad = {}
  <2> SUFFICES ASSUME Bad # {} PROVE FALSE
    OBVIOUS
  <2>1. Bad \in SUBSET Nat
    BY <1>0
  <2>2. PICK m \in Bad : \A k \in Bad : m <= k
    <3> HIDE DEF Bad
    <3> QED
      BY <2>1, BoundedMin
  <2>3. m \in 0 .. n /\ ~Alone(V[m], m)
    OBVIOUS
  <2>4. m # 0
    <3>1. NoStacks.stacks = <<>> /\ NoStacks.targets = <<>>
      BY DEF NoStacks
    <3>2. Alone(V[0], 0)
      BY <1>1, <3>1 DEF Alone
    <3> QED
      BY <2>3, <3>2
  <2>5. m \in 1 .. n /\ m - 1 \in 0 .. n /\ m - 1 \in Nat /\ m - 1 \notin Bad /\ (m - 1) + 1 = m
    <3> HIDE DEF Bad
    <3> QED
      BY <1>0, <2>2, <2>3, <2>4
  <2>6. Alone(V[m - 1], m - 1)
    BY <2>5
  <2>7. commits[m] \in CommitType /\ ~IsFeedback(commits[m])
    BY <1>0, <2>5 DEF n
  <2>8. Alone(V[m], (m - 1) + 1)
    BY <1>1, <2>5, <2>6, <2>7, TakenAlone
  <2> QED
    BY <2>3, <2>5, <2>8
<1>3. Alone(V[n], n)
  <2>1. n \in 0 .. n
    BY <1>0
  <2> QED
    BY <1>2, <2>1
<1>4. S = V[n].stacks
  BY <1>1 DEF StacksOf
<1> HIDE DEF S
<1>5. /\ S \in Seq(StackType) /\ Len(S) = n /\ DOMAIN S = 1 .. n
      /\ \A k \in 1 .. n : S[k].first = k /\ S[k].last = k
  BY <1>3, <1>4 DEF Alone
<1>6. ASSUME NEW k \in 1 .. n PROVE EffectiveMessage(commits, S[k]) = commits[k].message
  <2> DEFINE carriers == {i \in S[k].first .. S[k].last : CarriesMessage(commits[i])}
  <2>1. S[k].first = k /\ S[k].last = k
    BY <1>5
  <2>2. CarriesMessage(commits[k])
    BY DEF CarriesMessage, n
  <2>3. carriers = {k}
    BY <1>0, <2>1, <2>2
  <2>4. {k} \in SUBSET (1 .. n) /\ {k} # {}
    OBVIOUS
  <2>5. Max({k}) = k
    BY <1>0, <2>4, BoundedMax
  <2>6. EffectiveMessage(commits, S[k]) =
          commits[IF carriers = {} THEN S[k].first ELSE Max(carriers)].message
    BY DEF EffectiveMessage
  <2> HIDE DEF carriers
  <2> QED
    BY <2>3, <2>5, <2>6
<1>7. Messages(commits) = [i \in DOMAIN S |-> EffectiveMessage(commits, S[i])]
  BY DEF Messages, S
<1> QED
  BY <1>5, <1>6, <1>7 DEF n

\* With all feedback at its commit, the squashed branch says what the stacks show.
LEMMA SquashedSays ==
    ASSUME BranchInv, Settled PROVE Messages(Squashed) = Messages(branch)
<1> DEFINE n == Len(branch)
           v == View(branch)
           m == Len(v.stacks)
<1>0. branch \in Seq(CommitType) /\ n \in Nat
  BY DEF BranchInv
<1>1. Blocks(v, n) /\ (Loose(v) \/ Nested(v, n))
  BY Nests
<1>2. StacksOf(branch) = v.stacks
  BY DEF StacksOf
<1>3. Messages(branch) = [i \in DOMAIN v.stacks |-> EffectiveMessage(branch, v.stacks[i])]
  BY <1>2 DEF Messages
<1>4. v.stacks \in Seq(StackType) /\ m \in Nat /\ DOMAIN v.stacks = 1 .. m
  BY <1>1 DEF Blocks
<1>5. ~Loose(v)
  <2>1. \A s \in ToSet(v.stacks) : ~IsFeedback(branch[s.first])
    BY <1>2 DEF Settled
  <2> HIDE DEF v
  <2>2. \A k \in 1 .. m : v.stacks[k] \in ToSet(v.stacks)
    BY <1>4 DEF ToSet
  <2> QED
    BY <2>1, <2>2 DEF Loose
<1>6. Nested(v, n)
  BY <1>1, <1>5
<1> HIDE DEF v, n
<1>7. \A k \in 1 .. m : /\ v.stacks[k].first \in 1 .. n
                        /\ ~IsFeedback(branch[v.stacks[k].first])
                        /\ EffectiveMessage(branch, v.stacks[k]) = Result(v.stacks[k].first).message
  BY <1>1, <1>5, <1>6, NewestIsResult DEF n
<1>8. Squashed = [k \in 1 .. m |-> Result(v.stacks[k].first)]
  <2>1. Squashed = [k \in DOMAIN Hosts[n] |-> Result(Hosts[n][k])]
    BY <1>0, HostsStep DEF n
  <2>2. /\ Hosts[n] \in Seq(Nat) /\ Len(Hosts[n]) = m
        /\ \A k \in 1 .. m : Hosts[n][k] = v.stacks[k].first
    BY <1>6 DEF Nested
  <2>3. DOMAIN Hosts[n] = 1 .. m
    BY <2>2
  <2> QED
    BY <2>1, <2>2, <2>3
<1>9. Squashed \in Seq(CommitType)
  BY SquashedTyped
<1>10. Len(Squashed) = m
  BY <1>4, <1>8, <1>9
<1> HIDE DEF m
<1>11. \A k \in 1 .. m : Squashed[k] = Result(v.stacks[k].first)
  BY <1>8
<1>12. \A k \in 1 .. m : ~IsFeedback(Squashed[k])
  <2> SUFFICES ASSUME NEW k \in 1 .. m PROVE ~IsFeedback(Squashed[k])
    OBVIOUS
  <2>1. ~IsFeedback(Result(v.stacks[k].first))
    BY <1>7, ResultTyped DEF n
  <2> QED
    BY <1>11, <2>1
<1>13. Messages(Squashed) = [k \in 1 .. m |-> Squashed[k].message]
  BY <1>9, <1>10, <1>12, PlainMessages
<1>14. Messages(branch) = [k \in 1 .. m |-> Result(v.stacks[k].first).message]
  BY <1>3, <1>4, <1>7
<1> QED
  BY <1>11, <1>13, <1>14

\* What `git commit` makes is a commit.
LEMMA CommitsTyped ==
    ASSUME BranchInv, NEW c \in Commits PROVE Wellformed(c)
<1>1. \A s \in Subjects : s \in Seq(Words) /\ Len(s) >= 1
  <2> SUFFICES ASSUME NEW s \in Subjects PROVE s \in Seq(Words) /\ Len(s) >= 1
    OBVIOUS
  <2>1. CASE s \in {<<t>> : t \in Titles}
    <3>1. PICK t \in Titles : s = <<t>>
      BY <2>1
    <3>2. t \in Words
      BY DEF Words
    <3>3. <<t>> \in Seq(Words) /\ Len(<<t>>) = 1
      BY <3>2, OneWord
    <3> HIDE DEF Words
    <3> QED
      BY <3>1, <3>3
  <2>2. CASE \E i \in DOMAIN branch : s = branch[i].subject
    <3>1. PICK i \in DOMAIN branch : s = branch[i].subject
      BY <2>2
    <3>2. branch[i] \in CommitType /\ Len(branch[i].subject) >= 1
      BY DEF BranchInv, Wellformed
    <3> QED
      BY <3>1, <3>2, CommitFields
  <2> QED
    BY <2>1, <2>2 DEF Subjects, ToSet
<1>2. ASSUME NEW s \in Seq(Words), Len(s) >= 1, NEW w \in Words
      PROVE  <<w>> \o s \in Seq(Words) /\ Len(<<w>> \o s) > 1 /\ Head(<<w>> \o s) = w
  <2>1. <<w>> \in Seq(Words) /\ Len(<<w>>) = 1 /\ <<w>>[1] = w
    OBVIOUS
  <2> DEFINE a == <<w>>
             b == a \o s
  <2>2. a \in Seq(Words) /\ Len(a) = 1 /\ a[1] = w
    BY <2>1
  <2> HIDE DEF a
  <2>3. b \in Seq(Words) /\ Len(b) = 1 + Len(s) /\ b[1] = w
    BY <1>2, <2>2, ConcatProperties
  <2>4. Len(b) > 1 /\ Head(b) = w
    <3> HIDE DEF b
    <3> QED
      BY <1>2, <2>3
  <2> QED
    BY <2>3, <2>4 DEF a
<1>3. ASSUME NEW t \in Titles, NEW i \in Trailers, c = Original(t, i) PROVE Wellformed(c)
  <2> DEFINE q == <<t>>
  <2>0. t \in Words /\ i \in ChangeIds \cup {""}
    BY DEF Words, Trailers
  <2>2. q \in Seq(Words) /\ Len(q) = 1
    BY <2>0, OneWord
  <2>3. c = [subject |-> q, message |-> q, id |-> i]
    BY <1>3 DEF Original
  <2> HIDE DEF q
  <2>4. c \in CommitType /\ Len(c.subject) = 1
    BY <2>0, <2>2, <2>3, CommitMade
  <2>5. ~IsFeedback(c) /\ Len(c.subject) >= 1
    BY <2>4, ShortIsPlain
  <2> QED
    BY <2>4, <2>5 DEF Wellformed
<1>4. ASSUME NEW s \in Subjects, c = Fixup(s) PROVE Wellformed(c)
  <2> DEFINE q == <<"fixup!">> \o s
  <2>1. q \in Seq(Words) /\ Len(q) > 1 /\ Head(q) = "fixup!"
    BY <1>1, <1>2 DEF Words
  <2>2. c = [subject |-> q, message |-> q, id |-> ""]
    BY <1>4 DEF Fixup
  <2> HIDE DEF q
  <2>3. c \in CommitType /\ c.subject = q
    BY <2>1, <2>2, CommitMade
  <2> QED
    BY <2>1, <2>3 DEF Wellformed, IsFeedback, CarriesMessage, KindOf
<1>5. ASSUME NEW s \in Subjects, NEW t \in Titles, c = Amend(s, t) PROVE Wellformed(c)
  <2> DEFINE q == <<"amend!">> \o s
             u == <<t>>
  <2>1. q \in Seq(Words) /\ Len(q) > 1
    BY <1>1, <1>2 DEF Words
  <2>0. t \in Words
    BY DEF Words
  <2>2. u \in Seq(Words) /\ Len(u) = 1
    BY <2>0, OneWord
  <2>3. c = [subject |-> q, message |-> u, id |-> ""]
    BY <1>5 DEF Amend
  <2> HIDE DEF q, u
  <2>4. c \in CommitType /\ c.subject = q /\ c.message = u
    BY <2>1, <2>2, <2>3, CommitMade
  <2> QED
    BY <2>1, <2>2, <2>4 DEF Wellformed
<1> QED
  BY <1>3, <1>4, <1>5 DEF Commits

\* Every branch is one of such commits.
LEMMA BranchInvariant == StacksSpec => []BranchInv
<1>1. StacksInit => BranchInv
  BY DEF StacksInit, BranchInv
<1>2. BranchInv /\ [StacksNext]_branch => BranchInv'
  <2> SUFFICES ASSUME BranchInv, [StacksNext]_branch PROVE BranchInv'
    OBVIOUS
  <2>1. CASE AddCommit
    <3>1. PICK c \in Commits : branch' = Append(branch, c)
      BY <2>1 DEF AddCommit
    <3>2. Wellformed(c) /\ c \in CommitType
      BY CommitsTyped DEF Wellformed
    <3> DEFINE n == Len(branch)
    <3>3. branch \in Seq(CommitType) /\ n \in Nat /\ DOMAIN branch = 1 .. n
      BY DEF BranchInv
    <3>4. /\ branch' \in Seq(CommitType) /\ DOMAIN branch' = 1 .. n + 1
          /\ branch'[n + 1] = c /\ \A i \in 1 .. n : branch'[i] = branch[i]
      <4> HIDE DEF n
      <4>1. Len(branch') = n + 1 /\ branch' \in Seq(CommitType)
        BY <3>1, <3>2, <3>3, AppendProperties DEF n
      <4>2. /\ branch'[Len(branch) + 1] = c
            /\ \A i \in 1 .. Len(branch) : branch'[i] = branch[i]
        BY <3>1, <3>2, <3>3, AppendProperties
      <4>3. branch'[n + 1] = c /\ \A i \in 1 .. n : branch'[i] = branch[i]
        BY <4>2 DEF n
      <4>4. DOMAIN branch' = 1 .. n + 1
        BY <4>1
      <4> QED
        BY <4>1, <4>3, <4>4
    <3>5. ASSUME NEW i \in 1 .. n + 1 PROVE Wellformed(branch'[i])
      <4>1. CASE i = n + 1
        BY <3>2, <3>4, <4>1
      <4>2. CASE i # n + 1
        <5>1. i \in 1 .. n
          BY <3>3, <4>2
        <5> QED
          BY <3>3, <3>4, <5>1 DEF BranchInv
      <4> QED
        BY <4>1, <4>2
    <3> QED
      BY <3>4, <3>5 DEF BranchInv
  <2>2. CASE Autosquash
    BY <2>2, SquashedTyped DEF Autosquash, BranchInv
  <2>3. CASE UNCHANGED branch
    BY <2>3 DEF BranchInv
  <2> QED
    BY <2>1, <2>2, <2>3 DEF StacksNext
<1> QED
  BY <1>1, <1>2, PTL DEF StacksSpec

\* Autosquash on a branch whose feedback has all found its stack changes no message that
\* a review is bound to: the newest amend! of a stack is the one that Git applies, for a
\* branch of any length and feedback on feedback of any depth.
THEOREM AutosquashIsQuiet == StacksSpec => AutosquashKeepsMessages
<1>1. BranchInv /\ [StacksNext]_branch
        => [Autosquash /\ Settled => Messages(branch') = Messages(branch)]_branch
  <2> SUFFICES ASSUME BranchInv, Autosquash, Settled
               PROVE  Messages(branch') = Messages(branch)
    OBVIOUS
  <2>1. branch' = Squashed
    BY DEF Autosquash
  <2>2. Messages(Squashed) = Messages(branch)
    BY SquashedSays
  <2> QED
    BY <2>1, <2>2
<1> QED
  BY <1>1, BranchInvariant, PTL DEF StacksSpec, AutosquashKeepsMessages

(***************************************************************************)
(* The review of files: why it can find the session of its own tuicr       *)
(* although nobody tells it which one that is.  The lock keeps every other *)
(* tuicr of the worktree away until the result is read, so the session     *)
(* written last is its own.                                                *)
(***************************************************************************)

Steps == {"idle", "lock", "launch", "tuicr", "read", "done", "orphan"}
Status == {"none", "error", "cancelled", "incomplete", "approved", "feedback"}

Remembers ==
    fileReview \in [Reviewers -> [step : Steps, scope : Scopes, mine : Nat, session : Nat,
                                  status : Status]]

Holders == {"launch", "tuicr", "read", "orphan"}

\* The lock has one holder, until its tuicr has ended.
Locked(r) == fileReview[r].step \in Holders => reviewing = r

\* Only files in the root have a branch diff.
Listed(r) == FeedbackSource(fileReview[r].scope)

Unwritten(r) == fileReview[r].step \in {"idle", "lock", "launch"} => fileReview[r].mine = 0

\* What this tuicr has written is the newest of all.
LatestOwn(r) ==
    LET mine == fileReview[r].mine
    IN  fileReview[r].step \in {"tuicr", "read", "orphan"} /\ mine # 0 =>
          /\ mine \in DOMAIN store /\ store[mine].scope = fileReview[r].scope
          /\ \A n \in DOMAIN store \ {mine} : store[n].time < store[mine].time

Counted ==
    /\ saves \in Nat /\ tip \in 0..MaxHead
    /\ DOMAIN store \subseteq Nat
    /\ \A n \in DOMAIN store : store[n].time \in 1..saves

FilesInv ==
    /\ Counted /\ Remembers
    /\ \A r \in Reviewers : Locked(r) /\ Listed(r) /\ Unwritten(r) /\ LatestOwn(r)
-----------------------------------------------------------------------------
LEMMA NoFileReviewType ==
    /\ NoFileReview \in [step : Steps, scope : Scopes, mine : Nat, session : Nat, status : Status]
    /\ NoFileReview.step = "idle" /\ NoFileReview.mine = 0
    /\ FeedbackSource(NoFileReview.scope)
<1>1. NoScope \in Scopes /\ NoScope.source = "working_tree"
  BY FileReviewAssumption DEF NoScope, Scopes, DiffSources
<1> QED
  BY <1>1 DEF NoFileReview, Steps, Status, FeedbackSource

LEMMA ScopeOfType ==
    ASSUME tip \in 0..MaxHead, NEW o \in FilesOptions
    PROVE  ScopeOf(o) \in Scopes /\ FeedbackSource(ScopeOf(o))
<1>1. FileSessionRoot(o) \in Dirs
  <2>1. o.cwd \in Dirs /\ o.path \in Paths
    BY DEF FilesOptions
  <2>2. o.path.dir \in Dirs
    <3>1. CASE o.path = NoPath
      BY <3>1, FileReviewAssumption DEF NoPath
    <3>2. CASE o.path # NoPath
      BY <2>1, <3>2 DEF Paths
    <3> QED
      BY <3>1, <3>2
  <2> QED
    BY <2>1, <2>2 DEF FileSessionRoot
<1>2. 0 \in 0..MaxHead
  BY FileReviewAssumption
<1>3. CASE ReviewsBranch(o)
  BY <1>3, FileReviewAssumption DEF ScopeOf, Scopes, DiffSources, FeedbackSource
<1>4. CASE ~ReviewsBranch(o)
  BY <1>1, <1>2, <1>4 DEF ScopeOf, Scopes, DiffSources, FeedbackSource
<1> QED
  BY <1>3, <1>4

\* A step of r that leaves the store alone: r stays in the scopes that are listed, it
\* keeps the lock that it may hold, and does not turn to another session.
QuietStep(r) ==
    /\ UNCHANGED <<store, tip, saves>>
    /\ Remembers' /\ \A q \in Reviewers \ {r} : fileReview'[q] = fileReview[q]
    /\ Listed(r)' /\ Unwritten(r)'
    /\ \/ fileReview'[r].step \notin {"tuicr", "read", "orphan"}
       \/ fileReview'[r].mine = 0
       \/ /\ fileReview[r].step \in {"tuicr", "read", "orphan"}
          /\ fileReview'[r].mine = fileReview[r].mine
          /\ fileReview'[r].scope = fileReview[r].scope
    /\ \/ reviewing' = reviewing /\ (fileReview'[r].step \in Holders => reviewing = r)
       \/ reviewing = NoReviewer /\ reviewing' = r
       \/ Release(r) /\ fileReview'[r].step \notin Holders

LEMMA QuietStepKeepsInv ==
    ASSUME FilesInv, NEW r \in Reviewers, QuietStep(r)
    PROVE  FilesInv'
<1> USE DEF FilesInv, QuietStep
<1>1. Counted' /\ Remembers'
  BY DEF Counted
<1>2. ASSUME NEW q \in Reviewers PROVE (Locked(q) /\ Listed(q) /\ Unwritten(q))'
  <2>1. CASE q = r
    BY <2>1 DEF Locked, Release
  <2>2. CASE q # r
    BY <2>2, FileReviewAssumption DEF Locked, Listed, Unwritten, Release, FeedbackSource
  <2> QED
    BY <2>1, <2>2
<1>3. ASSUME NEW q \in Reviewers PROVE LatestOwn(q)'
  BY DEF LatestOwn
<1> QED
  BY <1>1, <1>2, <1>3

LEMMA TuicrSavesKeepsInv ==
    ASSUME FilesInv, NEW r \in Reviewers, TuicrSaves(r)
    PROVE  FilesInv'
<1> USE DEF FilesInv
<1> DEFINE mine == fileReview[r].mine
           fresh == saves + 1
           scope == fileReview[r].scope
<1>1. PICK n \in IF mine # 0 THEN {mine} ELSE Matching(scope) \cup {fresh},
           marks \in {"none", "some", "all"}, said \in BOOLEAN :
        /\ store' = [m \in DOMAIN store \cup {n} |->
                       IF m = n THEN [scope |-> scope, marks |-> marks, said |-> said,
                                      time |-> fresh]
                       ELSE store[m]]
        /\ fileReview' = [fileReview EXCEPT ![r].mine = n]
  BY DEF TuicrSaves
<1>2. /\ fileReview[r].step \in {"tuicr", "orphan"} /\ saves' = fresh
      /\ UNCHANGED <<reviewing, tip>>
  BY DEF TuicrSaves
<1>3. n \in Nat
  BY <1>1 DEF Counted, Remembers, Matching
<1>4. /\ DOMAIN store' = DOMAIN store \cup {n}
      /\ store'[n].scope = scope /\ store'[n].time = fresh
      /\ \A m \in DOMAIN store \ {n} : store'[m] = store[m]
  BY <1>1
<1>5. Counted'
  BY <1>2, <1>3, <1>4 DEF Counted
<1>6. /\ Remembers'
      /\ \A q \in Reviewers : /\ fileReview'[q].step = fileReview[q].step
                              /\ fileReview'[q].scope = fileReview[q].scope
                              /\ fileReview'[q].mine = IF q = r THEN n ELSE fileReview[q].mine
  BY <1>1, <1>3 DEF Remembers
<1>7. ASSUME NEW q \in Reviewers PROVE (Locked(q) /\ Listed(q) /\ Unwritten(q))'
  BY <1>2, <1>6 DEF Locked, Listed, Unwritten, FeedbackSource
<1>8. ASSUME NEW q \in Reviewers PROVE LatestOwn(q)'
  <2>1. CASE q = r
    BY <1>4, <1>6, <2>1 DEF LatestOwn, Counted
  <2>2. CASE q # r
    BY <1>2, <1>6, <2>2 DEF Locked, Holders, LatestOwn
  <2> QED
    BY <2>1, <2>2
<1> QED
  BY <1>5, <1>6, <1>7, <1>8
-----------------------------------------------------------------------------
LEMMA ReportedStep ==
    ASSUME FilesInv, NEW r \in Reviewers, NEW session \in Nat, NEW status \in Status,
           Reported(r, session, status)
    PROVE  /\ Remembers' /\ \A q \in Reviewers \ {r} : fileReview'[q] = fileReview[q]
           /\ Listed(r)' /\ Unwritten(r)'
           /\ fileReview'[r].step = "done"
           /\ fileReview'[r].session = session /\ fileReview'[r].status = status
<1>1. Remembers' /\ \A q \in Reviewers \ {r} : fileReview'[q] = fileReview[q]
  <2> DEFINE done == [fileReview[r] EXCEPT !.step = "done", !.session = session, !.status = status]
  <2>1. Remembers /\ fileReview' = [fileReview EXCEPT ![r] = done]
    BY DEF FilesInv, Remembers, Reported
  <2>2. done \in [step : Steps, scope : Scopes, mine : Nat, session : Nat, status : Status]
    BY <2>1 DEF Remembers, Steps
  <2> HIDE DEF done
  <2> QED
    BY <2>1, <2>2 DEF Remembers
<1>2. /\ fileReview'[r].step = "done" /\ fileReview'[r].scope = fileReview[r].scope
      /\ fileReview'[r].session = session /\ fileReview'[r].status = status
  BY DEF FilesInv, Remembers, Reported
<1> QED
  BY <1>1, <1>2 DEF FilesInv, Listed, Unwritten, FeedbackSource

\* The session that is read is the newest of its scope.
LEMMA NewestCandidateIs ==
    ASSUME FilesInv, NEW r \in Reviewers, Matching(fileReview[r].scope) # {}
    PROVE  LET found == Matching(fileReview[r].scope)
           IN  NewestCandidate(found) \in found
               /\ \A m \in found : store[NewestCandidate(found)].time >= store[m].time
<1> DEFINE found == Matching(fileReview[r].scope)
           R == OpToRel(<, Nat)
           T == {saves - store[m].time : m \in found}
<1>1. saves \in Nat /\ \A m \in found : store[m].time \in 1..saves
  BY DEF FilesInv, Counted, Matching
<1>2. T \subseteq Nat /\ T # {}
  BY <1>1
<1>3. \E t \in T : \A y \in T : ~ (<<y, t>> \in R)
  <2>1. IsWellFoundedOn(R, Nat)
    BY NatLessThanWellFounded
  <2> HIDE DEF R, T
  <2> QED
    BY <1>2, <2>1, WFMin
<1>4. PICK t \in T : \A y \in T : ~ (y < t)
  <2> HIDE DEF T
  <2> QED
    BY <1>2, <1>3 DEF OpToRel
<1>5. PICK n \in found : t = saves - store[n].time
  BY <1>4
<1>6. ASSUME NEW m \in found PROVE store[n].time >= store[m].time
  <2>1. ~ (saves - store[m].time < saves - store[n].time)
    BY <1>4, <1>5
  <2> QED
    BY <1>1, <2>1
<1> QED
  BY <1>5, <1>6 DEF NewestCandidate

LEMMA ForgottenStep ==
    ASSUME FilesInv, NEW r \in Reviewers,
           fileReview' = [fileReview EXCEPT ![r] = NoFileReview]
    PROVE  /\ Remembers' /\ \A q \in Reviewers \ {r} : fileReview'[q] = fileReview[q]
           /\ Listed(r)' /\ Unwritten(r)'
           /\ fileReview'[r].step = "idle" /\ fileReview'[r].mine = 0
<1>1. fileReview'[r] = NoFileReview
  BY DEF FilesInv, Remembers
<1> QED
  BY <1>1, NoFileReviewType DEF FilesInv, Remembers, Listed, Unwritten, FeedbackSource

LEMMA ReviewerKeepsInv ==
    ASSUME FilesInv, NEW r \in Reviewers,
           \/ StartFiles(r) \/ LockReview(r) \/ Launch(r) \/ TuicrExits(r) \/ ReadFiles(r)
           \/ EndFiles(r) \/ DieInFiles(r) \/ OrphanExits(r)
    PROVE  FilesInv'
<1> USE DEF QuietStep, Holders
<1>1. CASE StartFiles(r)
  <2>1. PICK o \in FilesOptions :
          IF ConflictingScope(o)
          THEN Reported(r, 0, "error")
          ELSE fileReview' = [fileReview EXCEPT ![r].step = "lock", ![r].scope = ScopeOf(o)]
    BY <1>1 DEF StartFiles
  <2>2. UNCHANGED <<store, reviewing, tip, saves>> /\ fileReview[r].step = "idle"
    BY <1>1 DEF StartFiles, Step
  <2>3. CASE ConflictingScope(o)
    BY <2>1, <2>2, <2>3, ReportedStep, QuietStepKeepsInv DEF Status
  <2>4. CASE ~ConflictingScope(o)
    <3>1. ScopeOf(o) \in Scopes /\ FeedbackSource(ScopeOf(o))
      BY ScopeOfType DEF FilesInv, Counted
    <3>2. Remembers' /\ \A q \in Reviewers \ {r} : fileReview'[q] = fileReview[q]
      BY <2>1, <2>4, <3>1 DEF FilesInv, Remembers, Steps
    <3>3. /\ fileReview'[r].step = "lock" /\ fileReview'[r].scope = ScopeOf(o)
          /\ fileReview'[r].mine = fileReview[r].mine
      BY <2>1, <2>4 DEF FilesInv, Remembers
    <3>4. Listed(r)' /\ Unwritten(r)'
      BY <2>2, <3>1, <3>3 DEF FilesInv, Listed, Unwritten, FeedbackSource
    <3> QED
      BY <2>2, <3>2, <3>3, <3>4, QuietStepKeepsInv
  <2> QED
    BY <2>3, <2>4
<1>2. CASE LockReview(r)
  <2>1. UNCHANGED <<store, tip, saves>> /\ fileReview[r].step = "lock"
    BY <1>2 DEF LockReview, Step
  <2>2. CASE reviewing = NoReviewer
    <3>1. reviewing' = r /\ fileReview' = [fileReview EXCEPT ![r].step = "launch"]
      BY <1>2, <2>2 DEF LockReview
    <3>2. Remembers' /\ \A q \in Reviewers \ {r} : fileReview'[q] = fileReview[q]
      BY <3>1 DEF FilesInv, Remembers, Steps
    <3>3. /\ fileReview'[r].step = "launch" /\ fileReview'[r].scope = fileReview[r].scope
          /\ fileReview'[r].mine = fileReview[r].mine
      BY <3>1 DEF FilesInv, Remembers
    <3>4. Listed(r)' /\ Unwritten(r)'
      BY <2>1, <3>3 DEF FilesInv, Listed, Unwritten, FeedbackSource
    <3> QED
      BY <2>1, <2>2, <3>1, <3>2, <3>3, <3>4, QuietStepKeepsInv
  <2>3. CASE reviewing # NoReviewer
    <3>1. Reported(r, 0, "error") /\ reviewing' = reviewing
      BY <1>2, <2>3 DEF LockReview
    <3> QED
      BY <2>1, <3>1, ReportedStep, QuietStepKeepsInv DEF Status
  <2> QED
    BY <2>2, <2>3
<1>3. CASE Launch(r)
  <2> DEFINE diff == fileReview[r].scope.source = "commit_range"
  <2>1. UNCHANGED <<store, tip, saves>> /\ fileReview[r].step = "launch"
    BY <1>3 DEF Launch, Step
  <2>2. CASE /\ fileReview' = [fileReview EXCEPT ![r].step = "tuicr",
                                                 ![r].scope.range = IF diff THEN tip ELSE 0]
             /\ reviewing' = reviewing
    <3>1. /\ fileReview'[r].step = "tuicr" /\ fileReview'[r].mine = fileReview[r].mine
          /\ fileReview'[r].scope = [fileReview[r].scope EXCEPT !.range = IF diff THEN tip ELSE 0]
          /\ fileReview'[r].session = fileReview[r].session
          /\ fileReview'[r].status = fileReview[r].status
      BY <2>2 DEF FilesInv, Remembers
    <3>2. fileReview[r].scope \in Scopes /\ (IF diff THEN tip ELSE 0) \in 0..MaxHead
      BY FileReviewAssumption DEF FilesInv, Remembers, Counted
    <3>3. /\ fileReview'[r].scope \in Scopes
          /\ fileReview'[r].scope.source = fileReview[r].scope.source
          /\ fileReview'[r].scope.root = fileReview[r].scope.root
      BY <3>1, <3>2 DEF Scopes
    <3>4. Remembers' /\ \A q \in Reviewers \ {r} : fileReview'[q] = fileReview[q]
      BY <2>2, <3>1, <3>3 DEF FilesInv, Remembers, Steps
    <3>5. Listed(r)' /\ Unwritten(r)' /\ fileReview'[r].mine = 0 /\ reviewing = r
      BY <2>1, <3>1, <3>3 DEF FilesInv, Locked, Listed, Unwritten, FeedbackSource
    <3> QED
      BY <2>1, <2>2, <3>4, <3>5, QuietStepKeepsInv
  <2>3. CASE (Reported(r, 0, "cancelled") \/ Reported(r, 0, "error")) /\ Release(r)
    BY <2>1, <2>3, ReportedStep, QuietStepKeepsInv DEF Status
  <2> QED
    BY <1>3, <2>2, <2>3 DEF Launch
<1>4. CASE TuicrExits(r)
  <2>1. UNCHANGED <<store, tip, saves>> /\ fileReview[r].step = "tuicr"
    BY <1>4 DEF TuicrExits, Step
  <2>2. CASE fileReview' = [fileReview EXCEPT ![r].step = "read"] /\ reviewing' = reviewing
    <3>1. Remembers' /\ \A q \in Reviewers \ {r} : fileReview'[q] = fileReview[q]
      BY <2>2 DEF FilesInv, Remembers, Steps
    <3>2. /\ fileReview'[r].step = "read" /\ fileReview'[r].scope = fileReview[r].scope
          /\ fileReview'[r].mine = fileReview[r].mine
      BY <2>2 DEF FilesInv, Remembers
    <3>3. Listed(r)' /\ Unwritten(r)' /\ reviewing = r
      BY <2>1, <3>2 DEF FilesInv, Locked, Listed, Unwritten, FeedbackSource
    <3> QED
      BY <2>1, <2>2, <3>1, <3>2, <3>3, QuietStepKeepsInv
  <2>3. CASE Reported(r, 0, "error") /\ Release(r)
    BY <2>1, <2>3, ReportedStep, QuietStepKeepsInv DEF Status
  <2> QED
    BY <1>4, <2>2, <2>3 DEF TuicrExits
<1>5. CASE ReadFiles(r)
  <2> DEFINE found == Matching(fileReview[r].scope)
  <2>1. UNCHANGED <<store, tip, saves>> /\ Release(r)
    BY <1>5 DEF ReadFiles
  <2>2. CASE found = {}
    <3>1. Reported(r, 0, "cancelled")
      BY <1>5, <2>2 DEF ReadFiles
    <3> QED
      BY <2>1, <3>1, ReportedStep, QuietStepKeepsInv DEF Status
  <2>3. CASE found # {}
    <3> DEFINE newest == NewestCandidate(found)
    <3>1. Reported(r, newest, FileReviewResult(store[newest]))
      BY <1>5, <2>3 DEF ReadFiles
    <3>2. newest \in Nat
      BY <2>3, NewestCandidateIs DEF Matching, FilesInv, Counted
    <3>3. FileReviewResult(store[newest]) \in Status
      BY DEF FileReviewResult, SavedStatus, Status
    <3> QED
      BY <2>1, <3>1, <3>2, <3>3, ReportedStep, QuietStepKeepsInv
  <2> QED
    BY <2>2, <2>3
<1>6. CASE EndFiles(r)
  <2>1. /\ fileReview' = [fileReview EXCEPT ![r] = NoFileReview]
        /\ UNCHANGED <<store, reviewing, tip, saves>>
    BY <1>6 DEF EndFiles
  <2> QED
    BY <2>1, ForgottenStep, QuietStepKeepsInv
<1>7. CASE DieInFiles(r) \/ OrphanExits(r)
  <2>1. UNCHANGED <<store, tip, saves>>
    BY <1>7 DEF DieInFiles, OrphanExits
  <2>2. CASE fileReview' = [fileReview EXCEPT ![r] = NoFileReview] /\ Release(r)
    BY <2>1, <2>2, ForgottenStep, QuietStepKeepsInv
  <2>3. CASE /\ fileReview[r].step = "tuicr" /\ reviewing' = reviewing
             /\ fileReview' = [fileReview EXCEPT ![r].step = "orphan"]
    <3>1. Remembers' /\ \A q \in Reviewers \ {r} : fileReview'[q] = fileReview[q]
      BY <2>3 DEF FilesInv, Remembers, Steps
    <3>2. /\ fileReview'[r].step = "orphan" /\ fileReview'[r].scope = fileReview[r].scope
          /\ fileReview'[r].mine = fileReview[r].mine
      BY <2>3 DEF FilesInv, Remembers
    <3>3. Listed(r)' /\ Unwritten(r)' /\ reviewing = r
      BY <2>3, <3>2 DEF FilesInv, Locked, Listed, Unwritten, FeedbackSource
    <3> QED
      BY <2>1, <2>3, <3>1, <3>2, <3>3, QuietStepKeepsInv
  <2> QED
    BY <1>7, <2>2, <2>3 DEF DieInFiles, OrphanExits, Step
<1> QED
  BY <1>1, <1>2, <1>3, <1>4, <1>5, <1>6, <1>7
-----------------------------------------------------------------------------
LEMMA FilesInvInit == FilesInit => FilesInv
  BY NoFileReviewType
     DEF FilesInit, FilesInv, Counted, Remembers, Locked, Holders, Listed, Unwritten, LatestOwn

LEMMA FilesInvStep == FilesInv /\ [FilesNext]_fileVars => FilesInv'
<1> SUFFICES ASSUME FilesInv, [FilesNext]_fileVars PROVE FilesInv'
  OBVIOUS
<1>1. CASE MoveTip \/ UNCHANGED fileVars
  <2>1. UNCHANGED <<store, reviewing, fileReview, saves>> /\ tip' \in 0..MaxHead
    BY <1>1 DEF MoveTip, fileVars, FilesInv, Counted
  <2> QED
    BY <2>1 DEF FilesInv, Counted, Remembers, Locked, Listed, Unwritten, LatestOwn, FeedbackSource
<1> QED
  BY <1>1, ReviewerKeepsInv, TuicrSavesKeepsInv DEF FilesNext

\* A review that reads its result reports what its own tuicr wrote, if it wrote.
LEMMA ReadReportsOwn ==
    ASSUME FilesInv, NEW r \in Reviewers, ReadFiles(r)
    PROVE  /\ fileReview[r].mine # 0 => fileReview'[r].session = fileReview[r].mine
           /\ fileReview'[r].status = "feedback" => fileReview'[r].session \in FileFeedback
<1> DEFINE mine == fileReview[r].mine
           found == Matching(fileReview[r].scope)
           newest == NewestCandidate(found)
<1>0. fileReview[r].step = "read"
  BY DEF ReadFiles, Step
<1>1. CASE found = {}
  <2>1. fileReview'[r].status = "cancelled"
    BY <1>1, ReportedStep DEF ReadFiles, Status
  <2>2. mine = 0
    BY <1>0, <1>1 DEF FilesInv, LatestOwn, Matching
  <2> QED
    BY <2>1, <2>2
<1>2. CASE found # {}
  <2>1. newest \in found /\ \A m \in found : store[newest].time >= store[m].time
    BY <1>2, NewestCandidateIs
  <2>2. newest \in Nat /\ FileReviewResult(store[newest]) \in Status
    BY <2>1 DEF Matching, FilesInv, Counted, FileReviewResult, SavedStatus, Status
  <2>3. /\ fileReview'[r].session = newest
        /\ fileReview'[r].status = FileReviewResult(store[newest])
    BY <1>2, <2>2, ReportedStep DEF ReadFiles
  <2>4. mine # 0 => newest = mine
    <3> SUFFICES ASSUME mine # 0, newest # mine PROVE FALSE
      OBVIOUS
    <3>1. mine \in found /\ newest \in DOMAIN store /\ store[newest].time < store[mine].time
      BY <1>0, <2>1 DEF FilesInv, LatestOwn, Matching
    <3>2. store[newest].time \in Nat /\ store[mine].time \in Nat
      BY <2>1, <3>1 DEF FilesInv, Counted, Matching
    <3> QED
      BY <2>1, <3>1, <3>2
  <2>5. FileReviewResult(store[newest]) = "feedback" => newest \in FileFeedback
    BY <2>1 DEF FileReviewResult, FilesInv, Listed, Matching, FeedbackSource, FileFeedback,
                HasFileFeedback
  <2> QED
    BY <2>3, <2>4, <2>5
<1> QED
  BY <1>1, <1>2

\* Only ReadFiles ends a review that is reading.
LEMMA OnlyReadEnds ==
    ASSUME FilesInv, FilesNext, NEW r \in Reviewers,
           fileReview[r].step = "read", fileReview'[r].step = "done"
    PROVE  ReadFiles(r)
<1>1. CASE MoveTip
  BY <1>1 DEF MoveTip
<1>2. PICK q \in Reviewers : \/ StartFiles(q) \/ LockReview(q) \/ Launch(q) \/ TuicrSaves(q)
                            \/ TuicrExits(q) \/ ReadFiles(q) \/ EndFiles(q)
                            \/ DieInFiles(q) \/ OrphanExits(q)
  BY <1>1 DEF FilesNext, MoveTip
<1>3. q = r
  <2> SUFFICES ASSUME q # r PROVE fileReview'[r] = fileReview[r]
    OBVIOUS
  <2> USE DEF FilesInv, Remembers
  <2>1. CASE StartFiles(q) \/ LockReview(q) \/ EndFiles(q) \/ OrphanExits(q) \/ DieInFiles(q)
    BY <2>1 DEF StartFiles, LockReview, EndFiles, OrphanExits, DieInFiles, Reported
  <2>2. CASE Launch(q) \/ TuicrExits(q) \/ ReadFiles(q)
    BY <2>2 DEF Launch, TuicrExits, ReadFiles, Reported
  <2>3. CASE TuicrSaves(q)
    BY <2>3 DEF TuicrSaves
  <2> QED
    BY <1>2, <2>1, <2>2, <2>3
<1>4. ~DieInFiles(r)
  BY NoFileReviewType DEF DieInFiles, FilesInv, Remembers
<1> QED
  BY <1>2, <1>3, <1>4 DEF StartFiles, LockReview, Launch, TuicrSaves, TuicrExits, EndFiles,
                          OrphanExits, Step

\* A review of files reports the session that its own tuicr wrote, and feedback that it
\* reports is listed, whatever other reviews and older sessions there are.
THEOREM OwnSessionReported == FilesSpec => ReportsItsOwnSession
<1>1. FilesInv /\ [FilesNext]_fileVars
        => [\A r \in Reviewers :
              fileReview[r].step = "read" /\ fileReview'[r].step = "done" =>
                /\ fileReview[r].mine # 0 => fileReview'[r].session = fileReview[r].mine
                /\ fileReview'[r].status = "feedback"
                     => fileReview'[r].session \in FileFeedback]_fileVars
  BY ReadReportsOwn, OnlyReadEnds
<1> QED
  BY <1>1, FilesInvInit, FilesInvStep, PTL DEF FilesSpec, ReportsItsOwnSession
============================================================================

---------------------------- MODULE SetupChoices ----------------------------
(***************************************************************************)
(* The settings file and the automatic setup at the end of `create`.  For  *)
(* mise and then for hk, `create` reads the settings, looks up whether the *)
(* user owns the repository, asks once, saves the answer and runs the      *)
(* tool.  `timber config` changes the same file, and every writer replaces *)
(* the whole file with what it read earlier and its own change.            *)
(***************************************************************************)
EXTENDS Naturals

CONSTANTS
    Setups,         \* processes of Timber
    Owners,         \* owners on GitHub
    FirstOwner,     \* the account of the user at first
    Lifetime,       \* githubIdentityLifetime
    MaxSetups,      \* bound on the commands started
    MaxTime         \* bound on the time modelled

ASSUME SetupAssumption ==
    /\ FirstOwner \in Owners
    /\ {Lifetime, MaxSetups, MaxTime} \subseteq Nat /\ MaxTime > 0

VARIABLES
    settings,   \* the settings file
    identity,   \* the cache of the GitHub identity
    account,    \* the account that gh is logged in to
    leftAt,     \* when an account was last logged out
    time,
    setup,      \* what each process does
    setups

setupVars == <<settings, identity, account, leftAt, time, setup, setups>>
----------------------------------------------------------------------------
Features == {"mise", "hk"}
Answers == {"unset", "yes", "no"}
Unset == [f \in Features |-> "unset"]

\* own: the process has created the file and nobody has replaced it.
\* late: what others changed after the process had read the file.
NoSetup == [op |-> "none", step |-> "idle", feature |-> "mise", read |-> Unset, late |-> {},
            own |-> FALSE, owner |-> FirstOwner, asked |-> 0]

SetupInit ==
    /\ settings = [there |-> FALSE, choice |-> Unset]
    /\ identity = [login |-> FirstOwner, fetched |-> 0]
    /\ account = FirstOwner
    /\ leftAt = [o \in Owners |-> 0]
    /\ time = 1
    /\ setup = [p \in Setups |-> NoSetup]
    /\ setups = 0

Stands(p, step) == setup[p].step = step
Proceed(p, step) == setup' = [setup EXCEPT ![p].step = step]
OnlySetup == UNCHANGED <<settings, identity, account, leftAt, time, setups>>

\* The rest of the feature is left out, perhaps with a warning.
AfterFeature(job) ==
    IF job.op = "create" /\ job.feature = "mise"
    THEN [NoSetup EXCEPT !.op = "create", !.step = "load", !.feature = "hk", !.owner = job.owner]
    ELSE NoSetup
NextFeature(p) == setup' = [setup EXCEPT ![p] = AfterFeature(@)]

StartSetup(p) ==
    /\ setup[p].op = "none" /\ setups < MaxSetups
    /\ setups' = setups + 1
    /\ \E o \in Owners, op \in {"create", "config"} :
         setup' = [setup EXCEPT ![p] = [NoSetup EXCEPT !.op = op, !.step = "load", !.owner = o]]
    /\ UNCHANGED <<settings, identity, account, leftAt, time>>
----------------------------------------------------------------------------
\* loadConfig: whoever finds no file creates an empty one, exclusively, and then
\* writes the defaults into it.
CreateFile(p) ==
    /\ Stands(p, "load") /\ ~settings.there
    /\ settings' = [there |-> TRUE, choice |-> Unset]
    /\ setup' = [setup EXCEPT ![p].step = "encode", ![p].own = TRUE]
    /\ UNCHANGED <<identity, account, leftAt, time, setups>>

\* A mutant of Encode: the file is opened again by its name.
EncodeByName(p) ==
    /\ Stands(p, "encode")
    /\ settings' = [there |-> TRUE, choice |-> Unset]
    /\ Proceed(p, "read")
    /\ UNCHANGED <<identity, account, leftAt, time, setups>>

\* The defaults reach the file unless a rename has put another one in its place.
Encode(p) ==
    /\ Stands(p, "encode")
    /\ settings' = IF setup[p].own THEN [there |-> TRUE, choice |-> Unset] ELSE settings
    /\ Proceed(p, "read")
    /\ UNCHANGED <<identity, account, leftAt, time, setups>>

ReadSettings(p) ==
    /\ Stands(p, "read") \/ (Stands(p, "load") /\ settings.there)
    /\ setup' = [setup EXCEPT ![p].step = "decide", ![p].read = settings.choice,
                              ![p].late = {}]
    /\ OnlySetup

\* What others have changed since the process read the file.
Overwritten(p) == {f \in Features : settings.choice[f] # setup[p].read[f]}

\* writeConfig replaces the file.
Save(p, f, answer) ==
    /\ settings' = [there |-> TRUE, choice |-> [setup[p].read EXCEPT ![f] = answer]]
    /\ setup' = [q \in Setups |->
                   IF q # p THEN [setup[q] EXCEPT !.own = FALSE, !.late = @ \cup {f} \cup Overwritten(p)]
                   ELSE IF setup[p].op = "create" /\ answer = "yes"
                        THEN [setup[p] EXCEPT !.step = "run"]
                   ELSE AfterFeature(setup[p])]

\* `timber config` with a flag.
SaveFlag(p) ==
    /\ Stands(p, "decide") /\ setup[p].op = "config"
    /\ \E f \in Features, answer \in {"yes", "no"} : Save(p, f, answer)
    /\ UNCHANGED <<identity, account, leftAt, time, setups>>
----------------------------------------------------------------------------
Chosen(p) == setup[p].read[setup[p].feature]

\* hkInstallEligible, miseTrustEligible before the lookup: a refusal that was saved,
\* no terminal to ask on, or no file to set up.
Ineligible(p) ==
    /\ Stands(p, "decide") /\ setup[p].op = "create"
    /\ NextFeature(p)
    /\ OnlySetup

Eligible(p) ==
    /\ Stands(p, "decide") /\ setup[p].op = "create" /\ Chosen(p) # "no"
    /\ Proceed(p, "owned")
    /\ OnlySetup

\* A mutant of Valid: an identity does not age.
ValidForever == identity.login # ""

\* githubIdentity.valid.
Valid == identity.login # "" /\ time - identity.fetched < Lifetime

\* githubOwnedWorktree with an identity of the cache, or a fresh one.
OwnedCached(p) ==
    /\ Stands(p, "owned") /\ Valid
    /\ IF identity.login = setup[p].owner
       THEN setup' = [setup EXCEPT ![p].asked = time,
                                   ![p].step = IF Chosen(p) = "yes" THEN "run" ELSE "prompt"]
       ELSE NextFeature(p)
    /\ OnlySetup

FetchIdentity(p) ==
    /\ Stands(p, "owned") /\ ~Valid
    /\ identity' = [login |-> account, fetched |-> time]
    /\ UNCHANGED <<settings, account, leftAt, time, setup, setups>>

FetchIdentityFails(p) == Stands(p, "owned") /\ ~Valid /\ NextFeature(p) /\ OnlySetup

\* confirmHKInstall, confirmMiseTrust: the user takes as long as they like.
Answer(p) ==
    /\ Stands(p, "prompt")
    /\ \E answer \in {"yes", "no"} : Save(p, setup[p].feature, answer)
    /\ UNCHANGED <<identity, account, leftAt, time, setups>>

\* runMiseTrust, runHKInstall; a failure is a warning.
Run(p) == Stands(p, "run") /\ NextFeature(p) /\ OnlySetup

KillSetup(p) ==
    /\ setup[p].op # "none"
    /\ setup' = [setup EXCEPT ![p] = NoSetup]
    /\ OnlySetup
----------------------------------------------------------------------------
SwitchAccount ==
    /\ account' \in Owners \ {account}
    /\ leftAt' = [leftAt EXCEPT ![account] = time]
    /\ UNCHANGED <<settings, identity, time, setup, setups>>

\* The README's advice after a switch.
RemoveIdentity ==
    /\ identity.login # ""
    /\ identity' = [login |-> "", fetched |-> 0]
    /\ UNCHANGED <<settings, account, leftAt, time, setup, setups>>

Elapse ==
    /\ time < MaxTime
    /\ time' = time + 1
    /\ UNCHANGED <<settings, identity, account, leftAt, setup, setups>>

SetupNext ==
    \/ \E p \in Setups :
         \/ StartSetup(p) \/ CreateFile(p) \/ Encode(p) \/ ReadSettings(p)
         \/ SaveFlag(p) \/ Ineligible(p) \/ Eligible(p) \/ OwnedCached(p)
         \/ FetchIdentity(p) \/ FetchIdentityFails(p) \/ Answer(p) \/ Run(p) \/ KillSetup(p)
    \/ SwitchAccount \/ RemoveIdentity \/ Elapse

SetupSpec == SetupInit /\ [][SetupNext]_setupVars
----------------------------------------------------------------------------
SetupTypeOK ==
    /\ settings \in [there : BOOLEAN, choice : [Features -> Answers]]
    /\ identity \in [login : Owners \cup {""}, fetched : 0..MaxTime]
    /\ account \in Owners /\ leftAt \in [Owners -> 0..MaxTime] /\ time \in 1..MaxTime
    /\ \A p \in Setups : setup[p].read \in [Features -> Answers] /\ setup[p].late \subseteq Features

\* A choice is lost only to a process that had read the file before the choice was
\* saved: neither the first creation of the file nor the choice for the other feature
\* undoes it ("Do not overwrite settings if another process creates the file first").
ChoicesAreLostOnlyToOverlap ==
    [][\A f \in Features :
         settings.choice[f] # "unset" /\ settings'.choice[f] # settings.choice[f]
             => \E p \in Setups :
                  /\ setup'[p] # setup[p] /\ setup[p].step \in {"decide", "prompt"}
                  /\ \/ f \in setup[p].late
                     \/ setup[p].op = "config"
                     \/ setup[p].feature = f]_setupVars

\* Timber stops to run the tools of repositories of an account that the user has left,
\* at the latest when the lifetime of the cache has passed (githubIdentity.valid).
LeftAccountsExpire ==
    \A p \in Setups :
        Stands(p, "run") /\ setup[p].owner # account
            => setup[p].asked < leftAt[setup[p].owner] + Lifetime
============================================================================

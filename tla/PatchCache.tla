----------------------------- MODULE PatchCache -----------------------------
(***************************************************************************)
(* The cache of patch fingerprints, shared by every review of a repository *)
(* without a lock, and the maintenance that prunes it while a user         *)
(* reviews.  The fingerprint of a stack depends on Git's settings, which   *)
(* anyone can change at any time.  A fingerprint is modelled by the        *)
(* settings it was computed with.                                          *)
(***************************************************************************)
EXTENDS Naturals, FiniteSets

CONSTANTS
    Hashers,        \* commands that fingerprint stacks
    Stacks,
    Settings,       \* what Git's configuration and attributes can be
    MaxAge,         \* patchCacheMaxAge
    MaxTempAge,     \* the age at which a temporary file is abandoned
    MaxEntries,     \* patchCacheMaxEntries, which stands for the size as well
    MaxNow          \* bound on the time modelled

ASSUME CacheAssumption ==
    {MaxAge, MaxTempAge, MaxEntries, MaxNow} \subseteq Nat /\ MaxNow > 0 /\ Settings # {}

VARIABLES
    setting,    \* Git's settings now
    now,
    entries,    \* the files of the cache by key
    hasher,     \* what each command is doing
    pruner      \* the one that holds maintenance.lock

cacheVars == <<setting, now, entries, hasher, pruner>>
----------------------------------------------------------------------------
Keys == [stack : Stacks, setting : Settings]

\* temp: the temporary file of the writer, 0 without one.  moved: the settings have
\* changed since the command read them.
NoHash == [step |-> "idle", setting |-> CHOOSE s \in Settings : TRUE, stack |-> "",
           value |-> CHOOSE s \in Settings : TRUE, temp |-> 0, moved |-> FALSE]

\* left: names that the scan has not met; kept: what it keeps, with the time it read;
\* late: what has been published since the scan began.
NoMaintenance == [step |-> "idle", began |-> 0, left |-> {}, kept |-> {}, late |-> {}]

CacheInit ==
    /\ setting = CHOOSE s \in Settings : TRUE
    /\ now = 1
    /\ entries = [k \in {} |-> 0]
    /\ hasher = [c \in Hashers |-> NoHash]
    /\ pruner = NoMaintenance

Unpublished(c) == hasher' = [hasher EXCEPT ![c] = NoHash]
----------------------------------------------------------------------------
\* newPatchCache reads the settings, once for all stacks of the command.
OpenCache(c) ==
    /\ hasher[c].step = "idle"
    /\ hasher' = [hasher EXCEPT ![c] = [NoHash EXCEPT !.step = "open", !.setting = setting]]
    /\ UNCHANGED <<setting, now, entries, pruner>>

\* A mutant of KeyOf: the stack alone.
KeyOfStack(c) == [stack |-> hasher[c].stack, setting |-> CHOOSE s \in Settings : TRUE]

KeyOf(c) == [stack |-> hasher[c].stack, setting |-> hasher[c].setting]

\* patchCache.hash of the next stack.  A hit is the answer and changes nothing; a miss
\* runs Git's diff with the settings of that moment.
Miss(c) ==
    /\ hasher[c].step = "open"
    /\ \E s \in Stacks :
         /\ hasher' = [hasher EXCEPT ![c] = [@ EXCEPT !.stack = s, !.value = setting, !.temp = now,
                                                     !.step = "write"]]
         /\ KeyOf(c)' \notin DOMAIN entries
    /\ UNCHANGED <<setting, now, entries, pruner>>

\* writePatchCache renames its temporary file to the entry.
Publish(c) ==
    /\ hasher[c].step = "write" /\ hasher[c].temp # 0
    /\ entries' = [k \in DOMAIN entries \cup {KeyOf(c)} |->
                     IF k = KeyOf(c)
                     THEN [value |-> hasher[c].value, stamp |-> hasher[c].temp,
                           moved |-> hasher[c].moved]
                     ELSE entries[k]]
    /\ pruner' = [pruner EXCEPT !.late = IF pruner.step = "idle" THEN {} ELSE @ \cup {KeyOf(c)}]
    /\ hasher' = [hasher EXCEPT ![c] = [@ EXCEPT !.step = "open", !.stack = "", !.temp = 0,
                                           !.value = NoHash.value]]
    /\ UNCHANGED <<setting, now>>

\* The temporary file was taken for abandoned: the command stops writing, not hashing.
PublishFails(c) ==
    /\ hasher[c].step = "write" /\ hasher[c].temp = 0
    /\ Unpublished(c)
    /\ UNCHANGED <<setting, now, entries, pruner>>

\* The command ends or dies; a temporary file of its own may stay, for later scans.
CloseCache(c) ==
    /\ hasher[c].step = "open"
    /\ Unpublished(c)
    /\ UNCHANGED <<setting, now, entries, pruner>>
----------------------------------------------------------------------------
\* prunePatchCache takes its lock or leaves it to the one who has it.
StartMaintenance ==
    /\ pruner.step = "idle" /\ DOMAIN entries # {}
    /\ pruner' = [NoMaintenance EXCEPT !.step = "scan", !.began = now, !.left = DOMAIN entries]
    /\ UNCHANGED <<setting, now, entries, hasher>>

Expired(stamp) == pruner.began - stamp > MaxAge

Evicted(K) == [k \in DOMAIN entries \ K |-> entries[k]]

\* cachePruner.collect: an entry that has gone is nothing, an old one goes, by name.
Collect ==
    /\ pruner.step = "scan"
    /\ \E k \in pruner.left :
         LET old == k \in DOMAIN entries /\ Expired(entries[k].stamp)
         IN  /\ entries' = Evicted({k} \cap {x \in DOMAIN entries : old})
             /\ pruner' = [pruner EXCEPT !.left = @ \ {k},
                             !.kept = @ \cup {[key |-> k, stamp |-> entries[x].stamp] :
                                                x \in {k} \cap DOMAIN entries'}]
    /\ UNCHANGED <<setting, now, hasher>>

\* A temporary file that is a day old.
CollectTemp(c) ==
    /\ pruner.step = "scan"
    /\ hasher[c].temp # 0 /\ pruner.began - hasher[c].temp > MaxTempAge
    /\ hasher' = [hasher EXCEPT ![c].temp = 0]
    /\ UNCHANGED <<setting, now, entries, pruner>>

\* A mutant of WithinLimits: the entry about to go counts as gone.
WithinLimitsEarly(count) == count <= MaxEntries + 1

WithinLimits(count) == count <= MaxEntries

\* cachePruner.evict: the oldest first, until the rest is within the limits.
Evict ==
    /\ pruner.step = "scan" /\ pruner.left = {} /\ ~WithinLimits(Cardinality(pruner.kept))
    /\ \E e \in pruner.kept :
         /\ \A f \in pruner.kept : e.stamp <= f.stamp
         /\ entries' = Evicted({e.key})
         /\ pruner' = [pruner EXCEPT !.kept = @ \ {e}]
    /\ UNCHANGED <<setting, now, hasher>>

EndMaintenance ==
    /\ pruner.step = "scan" /\ pruner.left = {} /\ WithinLimits(Cardinality(pruner.kept))
    /\ pruner' = NoMaintenance
    /\ UNCHANGED <<setting, now, entries, hasher>>

\* The user's review ends, or five seconds have passed.
CancelMaintenance ==
    /\ pruner.step = "scan"
    /\ pruner' = NoMaintenance
    /\ UNCHANGED <<setting, now, entries, hasher>>
----------------------------------------------------------------------------
Configure ==
    /\ setting' \in Settings \ {setting}
    /\ hasher' = [c \in Hashers |-> [hasher[c] EXCEPT !.moved = hasher[c].step # "idle"]]
    /\ UNCHANGED <<now, entries, pruner>>

Pass == now < MaxNow /\ now' = now + 1 /\ UNCHANGED <<setting, entries, hasher, pruner>>

CacheNext ==
    \/ \E c \in Hashers :
         \/ OpenCache(c) \/ Miss(c) \/ Publish(c) \/ PublishFails(c)
         \/ CloseCache(c) \/ CollectTemp(c)
    \/ StartMaintenance \/ Collect \/ Evict \/ EndMaintenance \/ CancelMaintenance
    \/ Configure \/ Pass

CacheSpec == CacheInit /\ [][CacheNext]_cacheVars
----------------------------------------------------------------------------
Entry == [value : Settings, stamp : 1..MaxNow, moved : BOOLEAN]

CacheTypeOK ==
    /\ setting \in Settings /\ now \in 1..MaxNow
    /\ DOMAIN entries \subseteq Keys
    /\ \A k \in DOMAIN entries : entries[k] \in Entry
    /\ \A e \in pruner.kept : e.key \in Keys /\ e.stamp <= now

\* An entry says what Git says with the settings of its key, whoever wrote it last and
\* whatever was pruned, unless the settings changed while its writer ran (patchCache).
EntriesAreTrue ==
    \A k \in DOMAIN entries : entries[k].moved \/ entries[k].value = k.setting

\* A maintenance that runs to its end leaves, of what was there when it began, no more
\* than the limit, and nothing that had expired (cachePruner).
PruneLeavesTheLimit ==
    [][EndMaintenance =>
         LET rest == DOMAIN entries \ pruner.late
         IN  /\ Cardinality(rest) <= MaxEntries
             /\ \A k \in rest : pruner.began - entries[k].stamp <= MaxAge]_cacheVars
============================================================================

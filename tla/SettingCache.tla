---------------------------- MODULE SettingCache ----------------------------
(***************************************************************************)
(* The per-instance settings cache (httpapi/settings_cache.go) over the    *)
(* settings table that all instances share, and, with the same shape, the  *)
(* permission cache of httpapi/auth_cache.go over the role policy.         *)
(*                                                                         *)
(* One setting key is modelled; keys do not interact.  Its value is the    *)
(* row's revision, 0 while the row is missing (a missing row is cached as  *)
(* well).  Time is relative: ages count ticks and saturate at the TTL,     *)
(* which is all that settingCache.get distinguishes.                       *)
(***************************************************************************)
EXTENDS Integers

CONSTANTS
    Instance,     \* server processes
    NoInstance,
    Request,      \* concurrent requests that read the setting
    TTL,          \* settingCacheTTL, permissionCacheTTL
    MaxRevision   \* bound: saves of the setting

CacheConstants ==
    /\ TTL \in Nat \ {0}
    /\ MaxRevision \in Nat
    /\ NoInstance \notin Instance

ASSUME CacheAssumption == CacheConstants

VARIABLES
    (* the settings row *)
    revision,   \* settings.revision
    outdated,   \* [revision -> ticks since it was superseded]
    (* one settingCache per instance *)
    entry,      \* the revision that the instance caches, or NoCopy
    age,        \* ticks since its loadedAt
    link,       \* where the instance's LISTEN connection is
    notices,    \* notifications received and not yet applied
    (* saveSetting; bound: one at a time per instance *)
    saving,     \* where the handler is
    (* cachedSettingPayload *)
    pc,         \* where the request is
    at,         \* the instance that runs it
    began,      \* ticks since it read the clock
    loaded,     \* the revision that its query returned
    (* history *)
    spoilt      \* instances with an old copy of which no notification will
                \* tell: it was lost, or the copy was put in after it

rowVars == <<revision, outdated>>
cacheVars == <<entry, age>>
listenVars == <<link, notices>>
readVars == <<pc, at, began, loaded>>
vars == <<rowVars, cacheVars, listenVars, saving, readVars, spoilt>>

Revision == 0..MaxRevision
Age == 0..TTL
NoCopy == -1   \* no cache entry

Older(n) == IF n < TTL THEN n + 1 ELSE n

Init ==
    /\ revision = 0
    /\ outdated = [r \in Revision |-> 0]
    /\ entry = [i \in Instance |-> NoCopy]
    /\ age = [i \in Instance |-> 0]
    /\ link = [i \in Instance |-> "lost"]
    /\ notices = [i \in Instance |-> 0]
    /\ saving = [i \in Instance |-> "no"]
    /\ pc = [q \in Request |-> "idle"]
    /\ at = [q \in Request |-> NoInstance]
    /\ began = [q \in Request |-> 0]
    /\ loaded = [q \in Request |-> 0]
    /\ spoilt = {}

-----------------------------------------------------------------------------
(* settingCache                                                            *)

(* Mutant: an entry never expires.                                         *)
FreshForever(i) == entry[i] # NoCopy

(* What get answers from memory.                                           *)
Fresh(i) == entry[i] # NoCopy /\ age[i] < TTL

Put(i, rev, since) ==
    /\ entry' = [entry EXCEPT ![i] = rev]
    /\ age' = [age EXCEPT ![i] = since]

Invalidate(i) ==
    /\ entry' = [entry EXCEPT ![i] = NoCopy]
    /\ age' = [age EXCEPT ![i] = 0]
    /\ spoilt' = spoilt \ {i}

Stale(i) == entry[i] # NoCopy /\ entry[i] < revision

-----------------------------------------------------------------------------
(* cachedSettingPayload: a hit changes nothing; a miss has read the clock  *)
(* before it queries the row and stamps the entry with that clock.         *)

Miss(q, i) ==
    /\ pc[q] = "idle"
    /\ ~Fresh(i)
    /\ pc' = [pc EXCEPT ![q] = "query"]
    /\ at' = [at EXCEPT ![q] = i]
    /\ began' = [began EXCEPT ![q] = 0]
    /\ UNCHANGED <<rowVars, cacheVars, listenVars, saving, spoilt, loaded>>

Load(q) ==
    /\ pc[q] = "query"
    /\ pc' = [pc EXCEPT ![q] = "put"]
    /\ loaded' = [loaded EXCEPT ![q] = revision]
    /\ UNCHANGED <<rowVars, cacheVars, listenVars, saving, spoilt, at, began>>

Finish(q) ==
    /\ pc' = [pc EXCEPT ![q] = "idle"]
    /\ began' = [began EXCEPT ![q] = 0]
    /\ loaded' = [loaded EXCEPT ![q] = 0]
    /\ at' = [at EXCEPT ![q] = NoInstance]

Stored(q) ==
    spoilt' = IF loaded[q] < revision THEN spoilt \cup {at[q]} ELSE spoilt \ {at[q]}

(* Mutant: the entry is stamped when it is stored.                         *)
StoreStampedLate(q) ==
    /\ pc[q] = "put"
    /\ Put(at[q], loaded[q], 0)
    /\ Stored(q)
    /\ Finish(q)
    /\ UNCHANGED <<rowVars, listenVars, saving>>

Store(q) ==
    /\ pc[q] = "put"
    /\ Put(at[q], loaded[q], began[q])
    /\ Stored(q)
    /\ Finish(q)
    /\ UNCHANGED <<rowVars, listenVars, saving>>

(* The query or the decryption fails: nothing is cached.                   *)
LoadError(q) ==
    /\ pc[q] \in {"query", "put"}
    /\ Finish(q)
    /\ UNCHANGED <<rowVars, cacheVars, listenVars, saving, spoilt>>

-----------------------------------------------------------------------------
(* saveSetting: the row, then this instance's copy, then the notification. *)

Save(i) ==
    /\ saving[i] = "no"
    /\ revision < MaxRevision
    /\ revision' = revision + 1
    /\ saving' = [saving EXCEPT ![i] = "saved"]
    /\ UNCHANGED <<outdated, cacheVars, listenVars, readVars, spoilt>>

(* Mutant: the copy of the instance itself is left to the notification.    *)
DropOwnNever(i) ==
    /\ saving[i] = "saved"
    /\ saving' = [saving EXCEPT ![i] = "dropped"]
    /\ UNCHANGED <<rowVars, cacheVars, listenVars, readVars, spoilt>>

DropOwn(i) ==
    /\ saving[i] = "saved"
    /\ Invalidate(i)
    /\ saving' = [saving EXCEPT ![i] = "dropped"]
    /\ UNCHANGED <<rowVars, listenVars, readVars>>

(* pg_notify reaches the instances that listen; a failure is only logged.  *)
(* Either way the administrator is answered.                               *)
Answer(i) ==
    /\ saving[i] = "dropped"
    /\ \E told \in {{j \in Instance : link[j] = "up"}, {}} :
           /\ notices' = [j \in Instance |->
                             IF j \in told THEN notices[j] + 1 ELSE notices[j]]
           /\ spoilt' = spoilt \cup {j \in Instance \ (told \cup {i}) : Stale(j)}
    /\ saving' = [saving EXCEPT ![i] = "no"]
    /\ UNCHANGED <<rowVars, cacheVars, link, readVars>>

-----------------------------------------------------------------------------
(* runSettingCacheWorker                                                   *)

(* invalidateAll, before every attempt to connect.                         *)
Reset(i) ==
    /\ link[i] = "lost"
    /\ Invalidate(i)
    /\ link' = [link EXCEPT ![i] = "reset"]
    /\ UNCHANGED <<rowVars, notices, saving, readVars>>

(* The LISTEN is in force, any time later.                                 *)
Listen(i) ==
    /\ link[i] = "reset"
    /\ link' = [link EXCEPT ![i] = "up"]
    /\ UNCHANGED <<rowVars, cacheVars, notices, saving, readVars, spoilt>>

Apply(i) ==
    /\ notices[i] > 0
    /\ notices' = [notices EXCEPT ![i] = @ - 1]
    /\ Invalidate(i)
    /\ UNCHANGED <<rowVars, link, saving, readVars>>

(* The connection fails or drops; what was buffered in it is lost, what is *)
(* in the keys channel stays.                                              *)
Disconnect(i) ==
    /\ link[i] # "lost"
    /\ link' = [link EXCEPT ![i] = "lost"]
    /\ \E n \in 0..notices[i] :
           /\ notices' = [notices EXCEPT ![i] = n]
           /\ spoilt' = IF n < notices[i] /\ Stale(i) THEN spoilt \cup {i} ELSE spoilt
    /\ UNCHANGED <<rowVars, cacheVars, saving, readVars>>

-----------------------------------------------------------------------------
Tick ==
    /\ outdated' = [r \in Revision |->
                      IF r < revision THEN Older(outdated[r]) ELSE outdated[r]]
    /\ age' = [i \in Instance |-> IF entry[i] = NoCopy THEN age[i] ELSE Older(age[i])]
    /\ began' = [q \in Request |-> IF pc[q] = "idle" THEN began[q] ELSE Older(began[q])]
    /\ UNCHANGED <<revision, entry, listenVars, saving, pc, at, loaded, spoilt>>

Read(q) == \/ \E i \in Instance : Miss(q, i)
           \/ Load(q) \/ Store(q) \/ LoadError(q)

SaveStep(i) == Save(i) \/ DropOwn(i) \/ Answer(i)

ListenStep(i) == Reset(i) \/ Listen(i) \/ Apply(i) \/ Disconnect(i)

Next == \/ \E q \in Request : Read(q)
        \/ \E i \in Instance : SaveStep(i) \/ ListenStep(i)
        \/ Tick

Spec == Init /\ [][Next]_vars

(* Time passes and a request that began ends; nothing is assumed of the    *)
(* notifications, which may be lost for ever.                              *)
FairSpec ==
    /\ Spec
    /\ WF_vars(Tick)
    /\ \A q \in Request : WF_vars(Load(q) \/ Store(q) \/ LoadError(q))

-----------------------------------------------------------------------------
(* The row, the caches and the requests stay within their types.           *)
TypeOK ==
    /\ revision \in Revision
    /\ outdated \in [Revision -> Age]
    /\ entry \in [Instance -> Revision \cup {NoCopy}]
    /\ age \in [Instance -> Age]
    /\ link \in [Instance -> {"lost", "reset", "up"}]
    /\ notices \in [Instance -> Nat]
    /\ saving \in [Instance -> {"no", "saved", "dropped"}]
    /\ pc \in [Request -> {"idle", "query", "put"}]
    /\ at \in [Request -> Instance \cup {NoInstance}]
    /\ \A q \in Request : pc[q] # "idle" => at[q] \in Instance
    /\ began \in [Request -> Age]
    /\ loaded \in [Request -> Revision]
    /\ spoilt \subseteq Instance

(* What an instance answers from memory was the current value less than    *)
(* one TTL ago, whatever notifications were lost and however slowly the    *)
(* request that cached it ran ("settingCacheTTL bounds how long a stale    *)
(* copy can survive when the change notification is missed").              *)
StalenessBound ==
    \A i \in Instance : Fresh(i) => outdated[entry[i]] < TTL

(* An instance answers from an old copy only while another instance's save *)
(* is still to tell it, its own save is still to drop the copy, or a       *)
(* notification is still to be applied, or else because the notification   *)
(* was lost or a load that raced with the save put the copy in.  The       *)
(* instance that saved needs no notification (saveSetting drops its copy). *)
OldForAReason ==
    \A i \in Instance : Fresh(i) /\ Stale(i) =>
        \/ i \in spoilt
        \/ notices[i] > 0
        \/ saving[i] = "saved"
        \/ \E j \in Instance \ {i} : saving[j] # "no"

(* A saved revision is eventually, and from then on, all that any instance *)
(* answers from memory, even if no notification ever arrives.              *)
Converges ==
    \A r \in Revision :
        (revision >= r) ~> [](\A i \in Instance : Fresh(i) => entry[i] >= r)
=============================================================================

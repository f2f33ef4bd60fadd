------------------------------- MODULE Media -------------------------------
(***************************************************************************)
(* Media from upload to removal: the PostgreSQL store of media/postgres.go *)
(* with its quota, the orphan cleanup that the service runs on every       *)
(* instance, and the handlers that attach an asset to a Moin or a profile  *)
(* and that delete it.                                                     *)
(*                                                                         *)
(* An action is one SQL statement or one commit.  Transactions run under   *)
(* READ COMMITTED: a statement sees what was committed when it began, and  *)
(* waits for the row locks that others hold.  The content of an asset is   *)
(* left out; every asset has the same size.                                *)
(***************************************************************************)
EXTENDS Naturals, FiniteSets

CONSTANTS
    Asset,      \* uploads; each has an identifier of its own
    User,
    OwnerOf,    \* [Asset -> User]
    Post,
    AuthorOf,   \* [Post -> User]
    Instance,   \* service instances, each with a cleanup loop
    None,       \* no asset
    Quota,      \* MaxUnattachedObjects
    Batch       \* Cleaner.Batch

ASSUME MediaAssumption ==
    /\ IsFiniteSet(Asset)
    /\ OwnerOf \in [Asset -> User]
    /\ AuthorOf \in [Post -> User]
    /\ None \notin Asset
    /\ Quota \in Nat \ {0} /\ Batch \in Nat \ {0}

VARIABLES
    (* media_assets, post_media and users.avatar_id, as committed *)
    asset,      \* [Asset -> state of the upload, and then of the row]
    old,        \* assets whose created_at is past the TTL
    link,       \* [Post -> SUBSET Asset]
    avatar,     \* [User -> asset or None]
    (* history *)
    used,       \* assets that a Moin or a profile has ever referred to
    (* transactions that write a Moin *)
    want,       \* [Post -> mediaIds of the request, {} when there is none]
    made,       \* [Post -> links it has inserted]
    (* updateProfile, deleteMedia *)
    picked,     \* [User -> avatar that it has checked, or None]
    deletes,    \* assets whose DELETE has seen them unused
    (* the cleanup statement of an instance *)
    sweep,      \* [Instance -> "idle" or "locking"]
    unseen,     \* [Instance -> candidates it has yet to lock]
    taken       \* [Instance -> victims it has locked]

tableVars == <<asset, old, link, avatar, used>>
postVars == <<want, made>>
requestVars == <<picked, deletes>>
sweepVars == <<sweep, unseen, taken>>
vars == <<tableVars, postVars, requestVars, sweepVars>>

Init ==
    /\ asset = [a \in Asset |-> "new"]
    /\ old = {}
    /\ link = [p \in Post |-> {}]
    /\ avatar = [u \in User |-> None]
    /\ used = {}
    /\ want = [p \in Post |-> {}]
    /\ made = [p \in Post |-> {}]
    /\ picked = [u \in User |-> None]
    /\ deletes = {}
    /\ sweep = [i \in Instance |-> "idle"]
    /\ unseen = [i \in Instance |-> {}]
    /\ taken = [i \in Instance |-> {}]

Stored == {a \in Asset : asset[a] = "stored"}

(* A Moin or a profile refers to it.                                       *)
Referred(a) == (\E p \in Post : a \in link[p]) \/ (\E u \in User : avatar[u] = a)

(* Row locks: inserting a link locks the asset FOR KEY SHARE until its     *)
(* transaction ends, the cleanup locks it FOR UPDATE.                      *)
KeyShared(a) == \E p \in Post : a \in made[p]
Locked(a) == \E i \in Instance : a \in taken[i]

-----------------------------------------------------------------------------
(* Put.                                                                    *)

(* The transaction holds the advisory lock of the owner.                   *)
Uploading(a) == asset[a] \in {"locked", "admitted"}

(* Mutant: every upload gets the lock.                                     *)
LockableAlways(u) == TRUE

Lockable(u) == \A a \in Asset : OwnerOf[a] = u => ~Uploading(a)

(* pg_try_advisory_xact_lock does not wait.                                *)
Begin(a) ==
    /\ asset[a] = "new"
    /\ asset' = [asset EXCEPT ![a] = IF Lockable(OwnerOf[a]) THEN "locked" ELSE "refused"]
    /\ UNCHANGED <<old, link, avatar, used, postVars, requestVars, sweepVars>>

Unattached(u) == {a \in Stored : OwnerOf[a] = u /\ ~Referred(a)}

(* The quota counts what is committed.  Sizes are left out: an upload may  *)
(* always be one that the quota of bytes refuses.                          *)
Admit(a) ==
    /\ asset[a] = "locked"
    /\ \/ /\ Cardinality(Unattached(OwnerOf[a])) < Quota
          /\ asset' = [asset EXCEPT ![a] = "admitted"]
       \/ asset' = [asset EXCEPT ![a] = "refused"]
    /\ UNCHANGED <<old, link, avatar, used, postVars, requestVars, sweepVars>>

(* The body is streamed, the row inserted and the transaction committed.   *)
Store(a) ==
    /\ asset[a] = "admitted"
    /\ asset' = [asset EXCEPT ![a] = "stored"]
    /\ UNCHANGED <<old, link, avatar, used, postVars, requestVars, sweepVars>>

(* A size that was declared wrongly, a lost connection, a cancelled        *)
(* request.                                                                *)
Abort(a) ==
    /\ Uploading(a)
    /\ asset' = [asset EXCEPT ![a] = "refused"]
    /\ UNCHANGED <<old, link, avatar, used, postVars, requestVars, sweepVars>>

Age(a) ==
    /\ a \in Stored \ old
    /\ old' = old \cup {a}
    /\ UNCHANGED <<asset, link, avatar, used, postVars, requestVars, sweepVars>>

-----------------------------------------------------------------------------
(* createPost and updatePost.                                              *)

(* All media of the request exist and belong to the author.                *)
Check(p, S) ==
    /\ want[p] = {}
    /\ S # {} /\ \A a \in S : a \in Stored /\ OwnerOf[a] = AuthorOf[p]
    /\ want' = [want EXCEPT ![p] = S]
    /\ UNCHANGED <<made, tableVars, requestVars, sweepVars>>

(* Mutant: a post_media without a foreign key.                             *)
AttachUnlocked(p, a) ==
    /\ a \in want[p] \ made[p]
    /\ made' = [made EXCEPT ![p] = @ \cup {a}]
    /\ UNCHANGED <<want, tableVars, requestVars, sweepVars>>

(* INSERT INTO post_media: the foreign key waits for whoever removes the   *)
(* asset ...                                                               *)
Attach(p, a) ==
    /\ a \in want[p] \ made[p]
    /\ ~Locked(a) /\ a \in Stored
    /\ made' = [made EXCEPT ![p] = @ \cup {a}]
    /\ UNCHANGED <<want, tableVars, requestVars, sweepVars>>

Unwrite(p) ==
    /\ want' = [want EXCEPT ![p] = {}]
    /\ made' = [made EXCEPT ![p] = {}]
    /\ UNCHANGED <<tableVars, requestVars, sweepVars>>

(* ... and fails once that is done.                                        *)
AttachFails(p, a) ==
    /\ a \in want[p] \ made[p]
    /\ ~Locked(a) /\ a \notin Stored
    /\ Unwrite(p)

(* Commit: the links of the Moin are those of the request.                 *)
CommitPost(p) ==
    /\ want[p] # {} /\ made[p] = want[p]
    /\ link' = [link EXCEPT ![p] = made[p]]
    /\ used' = used \cup made[p]
    /\ want' = [want EXCEPT ![p] = {}]
    /\ made' = [made EXCEPT ![p] = {}]
    /\ UNCHANGED <<asset, old, avatar, requestVars, sweepVars>>

(* Another statement of the transaction fails, or its connection is lost.  *)
Rollback(p) == want[p] # {} /\ Unwrite(p)

(* An edit that leaves the Moin without media.                             *)
Detach(p) ==
    /\ want[p] = {} /\ link[p] # {}
    /\ link' = [link EXCEPT ![p] = {}]
    /\ UNCHANGED <<asset, old, avatar, used, postVars, requestVars, sweepVars>>

-----------------------------------------------------------------------------
(* updateProfile: two statements without a transaction.                    *)

Pick(u, a) ==
    /\ picked[u] = None
    /\ a \in Stored /\ OwnerOf[a] = u
    /\ picked' = [picked EXCEPT ![u] = a]
    /\ UNCHANGED <<deletes, tableVars, postVars, sweepVars>>

SetAvatar(u) ==
    /\ picked[u] # None
    /\ avatar' = [avatar EXCEPT ![u] = picked[u]]
    /\ used' = used \cup {picked[u]}
    /\ picked' = [picked EXCEPT ![u] = None]
    /\ UNCHANGED <<asset, old, link, deletes, postVars, sweepVars>>

(* avatarId "".                                                            *)
ClearAvatar(u) ==
    /\ avatar[u] # None
    /\ avatar' = [avatar EXCEPT ![u] = None]
    /\ UNCHANGED <<asset, old, link, used, postVars, requestVars, sweepVars>>

-----------------------------------------------------------------------------
(* Removal.  The links to a removed row go with it, also those that were   *)
(* committed after the statement began.                                    *)
Remove(S) ==
    /\ asset' = [a \in Asset |-> IF a \in S THEN "deleted" ELSE asset[a]]
    /\ link' = [p \in Post |-> link[p] \ S]

(* deleteMedia: the statement has seen the row unused ...                  *)
DeleteStart(a) ==
    /\ a \in Stored \ deletes /\ ~Referred(a)
    /\ deletes' = deletes \cup {a}
    /\ UNCHANGED <<picked, tableVars, postVars, sweepVars>>

(* ... and has its lock.  If the cleanup was faster, it deletes nothing.   *)
DeleteEnd(a) ==
    /\ a \in deletes
    /\ ~KeyShared(a) /\ ~Locked(a)
    /\ Remove({a} \cap Stored)
    /\ deletes' = deletes \ {a}
    /\ UNCHANGED <<old, avatar, used, picked, postVars, sweepVars>>

(* Mutant: what has once been used is not looked at again.                 *)
SweepStartNeverUsed(i) ==
    /\ sweep[i] = "idle"
    /\ sweep' = [sweep EXCEPT ![i] = "locking"]
    /\ unseen' = [unseen EXCEPT ![i] = (Stored \cap old) \ used]
    /\ UNCHANGED <<taken, tableVars, postVars, requestVars>>

(* orphanCleanupSQL: what the statement sees when it begins ...            *)
SweepStart(i) ==
    /\ sweep[i] = "idle"
    /\ sweep' = [sweep EXCEPT ![i] = "locking"]
    /\ unseen' = [unseen EXCEPT ![i] = {a \in Stored \cap old : ~Referred(a)}]
    /\ UNCHANGED <<taken, tableVars, postVars, requestVars>>

(* Mutant: without FOR UPDATE SKIP LOCKED.                                 *)
AvailableStored(a) == a \in Stored

Available(a) == a \in Stored /\ ~KeyShared(a) /\ ~Locked(a)

(* ... FOR UPDATE SKIP LOCKED, one candidate after the other ...           *)
SweepTake(i, a) ==
    /\ a \in unseen[i]
    /\ unseen' = [unseen EXCEPT ![i] = @ \ {a}]
    /\ taken' = [taken EXCEPT ![i] =
                   IF Available(a) /\ Cardinality(@) < Batch THEN @ \cup {a} ELSE @]
    /\ UNCHANGED <<sweep, tableVars, postVars, requestVars>>

(* ... and the DELETE, committed with the statement.                       *)
SweepDelete(i) ==
    /\ sweep[i] = "locking" /\ unseen[i] = {}
    /\ Remove(taken[i])
    /\ taken' = [taken EXCEPT ![i] = {}]
    /\ sweep' = [sweep EXCEPT ![i] = "idle"]
    /\ UNCHANGED <<old, avatar, used, unseen, postVars, requestVars>>

(* The statement is cancelled or its connection is lost.                   *)
SweepFails(i) ==
    /\ sweep[i] = "locking"
    /\ sweep' = [sweep EXCEPT ![i] = "idle"]
    /\ unseen' = [unseen EXCEPT ![i] = {}]
    /\ taken' = [taken EXCEPT ![i] = {}]
    /\ UNCHANGED <<tableVars, postVars, requestVars>>

-----------------------------------------------------------------------------
Upload(a) == Begin(a) \/ Admit(a) \/ Store(a) \/ Abort(a) \/ Age(a)

WritePost(p) ==
    \/ \E S \in SUBSET Asset : Check(p, S)
    \/ \E a \in Asset : Attach(p, a) \/ AttachFails(p, a)
    \/ CommitPost(p) \/ Rollback(p) \/ Detach(p)

Profile(u) == (\E a \in Asset : Pick(u, a)) \/ SetAvatar(u) \/ ClearAvatar(u)

DeleteOrphans(i) ==
    \/ SweepStart(i) \/ SweepDelete(i) \/ SweepFails(i)
    \/ \E a \in Asset : SweepTake(i, a)

Next ==
    \/ \E a \in Asset : Upload(a) \/ DeleteStart(a) \/ DeleteEnd(a)
    \/ \E p \in Post : WritePost(p)
    \/ \E u \in User : Profile(u)
    \/ \E i \in Instance : DeleteOrphans(i)

Spec == Init /\ [][Next]_vars

(* The timer of the cleanup fires, and what has begun goes on: the         *)
(* statements of a transaction, its commit, and the cleanup's own steps.   *)
FairSpec ==
    /\ Spec
    /\ \A p \in Post :
         /\ WF_vars(CommitPost(p))
         /\ \A a \in Asset : WF_vars(Attach(p, a) \/ AttachFails(p, a))
    /\ \A i \in Instance :
         /\ WF_vars(SweepStart(i)) /\ WF_vars(SweepDelete(i))
         /\ \A a \in Asset : WF_vars(SweepTake(i, a))

-----------------------------------------------------------------------------
(* The tables, the requests and the readers keep their types.              *)
TypeOK ==
    /\ asset \in [Asset -> {"new", "locked", "admitted", "refused", "stored", "deleted"}]
    /\ old \subseteq Asset
    /\ link \in [Post -> SUBSET Asset]
    /\ avatar \in [User -> Asset \cup {None}]
    /\ used \subseteq Asset
    /\ want \in [Post -> SUBSET Asset]
    /\ made \in [Post -> SUBSET Asset]
    /\ picked \in [User -> Asset \cup {None}]
    /\ deletes \subseteq Asset
    /\ sweep \in [Instance -> {"idle", "locking"}]
    /\ unseen \in [Instance -> SUBSET Asset]
    /\ taken \in [Instance -> SUBSET Asset]

(* However uploads, attachments and removals interleave, nobody stores     *)
(* more than the quota of assets that no Moin or profile has ever used.    *)
QuotaHolds ==
    \A u \in User :
        Cardinality({a \in Stored \ used : OwnerOf[a] = u}) <= Quota

(* A Moin never refers to an asset that is gone, nor does a transaction    *)
(* that has attached one: what it commits can be read.                     *)
LinksAreStored ==
    \A p \in Post : link[p] \cup made[p] \subseteq Stored

(* Two instances never remove the same asset, and none removes what a      *)
(* transaction that is still open has attached.                            *)
VictimsAreExclusive ==
    \A i \in Instance : \A a \in taken[i] :
        a \in Stored /\ ~KeyShared(a) /\ \A j \in Instance \ {i} : a \notin taken[j]

(* An orphan whose time has come is removed or used again, unless requests *)
(* try to attach it for ever or cleanups fail for ever.                    *)
OrphansGo ==
    \A a \in Asset :
        \/ \E i \in Instance : []<><<unseen[i] \cup taken[i] # {} /\ SweepFails(i)>>_vars
        \/ \E p \in Post : []<><<\E S \in SUBSET Asset : a \in S /\ Check(p, S)>>_vars
        \/ (a \in Stored \cap old /\ ~Referred(a)) ~> (a \notin Stored \/ Referred(a))
=============================================================================

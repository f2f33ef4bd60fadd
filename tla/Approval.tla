------------------------------ MODULE Approval ------------------------------
(***************************************************************************)
(* The life of a Moin under the approval policy: creation, editing and     *)
(* deletion (httpapi/posts.go), moderation (httpapi/admin.go) and review   *)
(* (httpapi/workflow.go).                                                  *)
(*                                                                         *)
(* Every request is one transaction of several statements.  PostgreSQL     *)
(* runs it at READ COMMITTED: a statement picks its rows from what is      *)
(* committed when it starts, waits for each row's lock, and then looks at  *)
(* the row again.  What a transaction writes is seen by others only after  *)
(* its commit, when it also gives up its locks; so a write is modelled by  *)
(* the lock it takes, and the commit does all the writing.                 *)
(*                                                                         *)
(* A Moin has at most one approval request, which is named by the Moin.    *)
(***************************************************************************)
EXTENDS Naturals, FiniteSets

CONSTANTS
    User,
    Manager,    \* users with posts:manage
    Post,       \* ids of the Moins created in a behaviour
    Original,   \* Moins that may be remoined
    Session,    \* requests in progress at the same time
    NoUser, NoPost, NoOriginal, NoSession

ASSUME NamesAssumption ==
    /\ Manager \subseteq User
    /\ NoUser \notin User /\ NoPost \notin Post
    /\ NoOriginal \notin Original /\ NoSession \notin Session

VARIABLES
    enabled,    \* the policy that requests read covers post.publish
    approvers,  \* active users with an approver role and approvals:review
    (* posts *)
    post,       \* status
    required,   \* approval_required
    author,
    source,     \* remoin_post_id
    body,       \* content
    (* approval_requests *)
    approval,   \* status
    reviewer,
    (* outbox_events *)
    told,       \* kinds of notification recorded for the Moin
    (* row locks *)
    postLock, approvalLock,
    (* requests *)
    txn

policyVars == <<enabled, approvers>>
rowVars == <<post, required, author, source, body, approval, reviewer, told>>
lockVars == <<postLock, approvalLock>>
vars == <<policyVars, rowVars, lockVars, txn>>

PostStatus == {"absent", "pending_approval", "published", "rejected", "deleted"}
Verdict == {"approved", "rejected"}
OnePost == {"review", "edit", "delete", "moderate", "retire"}
ApprovalStatus == Verdict \cup {"none", "pending", "cancelled"}
Operation == OnePost \cup {"create", "unremoin"}

Step == {"idle", "exists", "policy", "insert", "select", "update", "lock", "cancel", "commit"}

(* step: the statement that the request is at; todo: rows that the current *)
(* UPDATE on posts found and has not locked yet.                           *)
Request == [op : Operation \cup {"none"}, step : Step,
            user : User \cup {NoUser}, post : Post \cup {NoPost},
            source : Original \cup {NoOriginal},
            verdict : Verdict \cup {"none"}, needs : BOOLEAN, todo : SUBSET Post]

Txn == {r \in Request : /\ r.op \in OnePost => r.post \in Post
                        /\ r.op = "review" => r.verdict \in Verdict}

Idle == [op |-> "none", step |-> "idle", user |-> NoUser, post |-> NoPost,
         source |-> NoOriginal, verdict |-> "none", needs |-> FALSE, todo |-> {}]

Init ==
    /\ enabled \in BOOLEAN
    /\ approvers \in SUBSET User
    /\ post = [p \in Post |-> "absent"]
    /\ required = [p \in Post |-> FALSE]
    /\ author = [p \in Post |-> NoUser]
    /\ source = [p \in Post |-> NoOriginal]
    /\ body = [p \in Post |-> "blank"]
    /\ approval = [p \in Post |-> "none"]
    /\ reviewer = [p \in Post |-> NoUser]
    /\ told = [p \in Post |-> {}]
    /\ postLock = [p \in Post |-> NoSession]
    /\ approvalLock = [p \in Post |-> NoSession]
    /\ txn = [s \in Session |-> Idle]

-----------------------------------------------------------------------------
(* Administrators switch the policy, users gain and lose approver roles.   *)
SetPolicy ==
    /\ enabled' = ~enabled
    /\ UNCHANGED <<approvers, rowVars, lockVars, txn>>

SetApprovers ==
    /\ approvers' \in SUBSET User
    /\ UNCHANGED <<enabled, rowVars, lockVars, txn>>

-----------------------------------------------------------------------------
(* Beginning and ending a request                                          *)

At(s, step) == txn[s].step = step
Goto(s, step) == txn' = [txn EXCEPT ![s].step = step]

Begin(s, r) ==
    /\ At(s, "idle")
    /\ txn' = [txn EXCEPT ![s] = r]
    /\ UNCHANGED <<policyVars, rowVars, lockVars>>

Unlocked(locks, s) == [p \in Post |-> IF locks[p] = s THEN NoSession ELSE locks[p]]

Finish(s) ==
    /\ postLock' = Unlocked(postLock, s)
    /\ approvalLock' = Unlocked(approvalLock, s)
    /\ txn' = [txn EXCEPT ![s] = Idle]

(* Mutant: a handler returns and leaves its transaction open.              *)
RollbackForgotten(s) ==
    /\ txn' = [txn EXCEPT ![s] = Idle]
    /\ UNCHANGED <<policyVars, rowVars, lockVars>>

(* The deferred Rollback of every handler.                                 *)
Rollback(s) ==
    /\ Finish(s)
    /\ UNCHANGED <<policyVars, rowVars>>

(* A statement or the connection fails, or the client goes away.           *)
Fail(s) == ~At(s, "idle") /\ Rollback(s)

-----------------------------------------------------------------------------
(* createPostRecord.  Only a Remoin looks for an earlier one first.        *)

Live(p) == post[p] \notin {"absent", "deleted"}

RemoinOf(u, o) == {p \in Post : Live(p) /\ author[p] = u /\ source[p] = o}

BeginCreate(s, u, o) ==
    Begin(s, [Idle EXCEPT !.op = "create", !.user = u, !.source = o,
                         !.step = IF o = NoOriginal THEN "policy" ELSE "exists"])

CheckRemoin(s) ==
    /\ At(s, "exists")
    /\ RemoinOf(txn[s].user, txn[s].source) = {}
    /\ Goto(s, "policy")
    /\ UNCHANGED <<policyVars, rowVars, lockVars>>

ReadPolicy(s) ==
    /\ At(s, "policy")
    /\ txn' = [txn EXCEPT ![s].step = "insert", ![s].needs = enabled]
    /\ UNCHANGED <<policyVars, rowVars, lockVars>>

(* errNoIndependentApprover *)
IndependentApprover(u) == approvers \ {u} # {}

(* The INSERTs and the COMMIT; nobody else can see or lock the new rows.   *)
Insert(s, p) ==
    LET r == txn[s] IN
    /\ At(s, "insert")
    /\ post[p] = "absent"
    /\ r.needs => IndependentApprover(r.user)
    /\ post' = [post EXCEPT ![p] = IF r.needs THEN "pending_approval" ELSE "published"]
    /\ approval' = [approval EXCEPT ![p] = IF r.needs THEN "pending" ELSE "none"]
    /\ told' = [told EXCEPT ![p] = IF r.needs THEN {"requested"} ELSE {"announced"}]
    /\ required' = [required EXCEPT ![p] = r.needs]
    /\ author' = [author EXCEPT ![p] = r.user]
    /\ source' = [source EXCEPT ![p] = r.source]
    /\ body' = [body EXCEPT ![p] = IF r.source = NoOriginal THEN "submitted" ELSE "blank"]
    /\ Finish(s)
    /\ UNCHANGED <<policyVars, reviewer>>

(* Bound: an INSERT for which no id is left in Post fails.                 *)
CreateRefused(s) ==
    /\ \/ At(s, "exists") /\ RemoinOf(txn[s].user, txn[s].source) # {}
       \/ At(s, "insert") /\ txn[s].needs /\ ~IndependentApprover(txn[s].user)
       \/ At(s, "insert") /\ \A p \in Post : post[p] # "absent"
    /\ Rollback(s)

-----------------------------------------------------------------------------
(* UPDATE posts, the statement that the other five requests share          *)

(* The rows that its WHERE clause names.                                   *)
Scope(r) == IF r.op = "unremoin" THEN Post ELSE {r.post}

ReviewMatches(p) == post[p] = "pending_approval"

EditMatches(r, p) ==
    post[p] = "published" /\ author[p] = r.user /\ source[p] = NoOriginal

(* What the clause asks of the row.                                        *)
Matches(r, p) ==
    \/ r.op = "review" /\ ReviewMatches(p)
    \/ r.op = "edit" /\ EditMatches(r, p)
    \/ r.op = "delete" /\ Live(p) /\ (author[p] = r.user \/ r.user \in Manager)
    \/ r.op = "moderate" /\ post[p] # "absent"
    \/ r.op = "retire" /\ Live(p)
    \/ r.op = "unremoin" /\ p \in RemoinOf(r.user, r.source)

StartUpdate(s) ==
    /\ At(s, "update")
    /\ txn' = [txn EXCEPT ![s].step = "lock",
                          ![s].todo = {p \in Scope(txn[s]) : Matches(txn[s], p)}]
    /\ UNCHANGED <<policyVars, rowVars, lockVars>>

LockRow(s, p) ==
    /\ At(s, "lock")
    /\ p \in txn[s].todo
    /\ postLock[p] = NoSession
    /\ postLock' = IF Matches(txn[s], p) THEN [postLock EXCEPT ![p] = s] ELSE postLock
    /\ txn' = [txn EXCEPT ![s].todo = @ \ {p}]
    /\ UNCHANGED <<policyVars, rowVars, approvalLock>>

Updated(s) == {p \in Post : postLock[p] = s}

(* deletePost alone goes on when no row matched.                           *)
EndUpdate(s) ==
    LET r == txn[s] IN
    /\ At(s, "lock")
    /\ r.todo = {}
    /\ \/ /\ r.op \in {"review", "edit"}
          /\ Updated(s) # {}
          /\ Goto(s, "commit")
       \/ /\ r.op \in {"moderate", "retire"}
          /\ Updated(s) # {}
          /\ Goto(s, "cancel")
       \/ /\ r.op = "delete"
          /\ Goto(s, "cancel")
       \/ /\ r.op = "unremoin"     \* one RETURNING row is read
          /\ \E p \in Updated(s) :
               txn' = [txn EXCEPT ![s].step = "cancel", ![s].post = p]
    /\ UNCHANGED <<policyVars, rowVars, lockVars>>

NothingUpdated(s) ==
    /\ At(s, "lock")
    /\ txn[s].todo = {}
    /\ Updated(s) = {}
    /\ txn[s].op # "delete"
    /\ Rollback(s)

-----------------------------------------------------------------------------
(* reviewApproval                                                          *)

BeginReview(s, u, p, v) ==
    /\ u \in approvers
    /\ Begin(s, [Idle EXCEPT !.op = "review", !.step = "select", !.user = u,
                             !.post = p, !.verdict = v])

(* Mutant: the requester may review.                                       *)
ReviewableBySelf(r) == approval[r.post] = "pending"
Reviewable(r) == approval[r.post] = "pending" /\ author[r.post] # r.user

(* SELECT ... FOR UPDATE, the checks, and the UPDATE of the row it holds.  *)
LockApproval(s) ==
    LET p == txn[s].post IN
    /\ At(s, "select")
    /\ approvalLock[p] = NoSession
    /\ Reviewable(txn[s])
    /\ approvalLock' = [approvalLock EXCEPT ![p] = s]
    /\ Goto(s, "update")
    /\ UNCHANGED <<policyVars, rowVars, postLock>>

ReviewRefused(s) ==
    /\ At(s, "select")
    /\ approvalLock[txn[s].post] = NoSession
    /\ ~Reviewable(txn[s])
    /\ Rollback(s)

(* The author is told, and an approved Moin is announced to the people it  *)
(* mentions or answers.                                                    *)
CommitReview(s) ==
    LET p == txn[s].post
        v == txn[s].verdict
        ok == v = "approved"
    IN
    /\ At(s, "commit")
    /\ txn[s].op = "review"
    /\ approval' = [approval EXCEPT ![p] = v]
    /\ reviewer' = [reviewer EXCEPT ![p] = txn[s].user]
    /\ post' = [post EXCEPT ![p] = IF ok THEN "published" ELSE "rejected"]
    /\ told' = [told EXCEPT ![p] = @ \cup {v} \cup (IF ok THEN {"announced"} ELSE {})]
    /\ Finish(s)
    /\ UNCHANGED <<policyVars, required, author, source, body>>

-----------------------------------------------------------------------------
(* updatePost *)

BeginUpdate(s, op, u, p) ==
    Begin(s, [Idle EXCEPT !.op = op, !.step = "update", !.user = u, !.post = p])

BeginEdit(s, u, p) == BeginUpdate(s, "edit", u, p)

CommitEdit(s) ==
    LET p == txn[s].post IN
    /\ At(s, "commit")
    /\ txn[s].op = "edit"
    /\ body' = [body EXCEPT ![p] = "edited"]
    /\ told' = [told EXCEPT ![p] = @ \cup {"announced"}]
    /\ Finish(s)
    /\ UNCHANGED <<policyVars, post, required, author, source, approval, reviewer>>

-----------------------------------------------------------------------------
(* deletePost; softDeletePost behind adminUpdatePost ("moderate") and      *)
(* adminDeletePost ("retire"); deleteRemoin                                *)

BeginDelete(s, u, p) == BeginUpdate(s, "delete", u, p)

BeginModerate(s, u, p) ==
    /\ u \in Manager
    /\ \E op \in {"moderate", "retire"} : BeginUpdate(s, op, u, p)

BeginUnremoin(s, u, o) ==
    Begin(s, [Idle EXCEPT !.op = "unremoin", !.step = "update", !.user = u, !.source = o])

(* Mutant: the status of the request is not asked for.                     *)
CancelAny(s) ==
    LET p == txn[s].post IN
    /\ At(s, "cancel")
    /\ approvalLock[p] = NoSession
    /\ approvalLock' = [approvalLock EXCEPT ![p] = s]
    /\ Goto(s, "commit")
    /\ UNCHANGED <<policyVars, rowVars, postLock>>

(* UPDATE approval_requests ... WHERE status = 'pending'.                  *)
Cancel(s) ==
    LET p == txn[s].post IN
    /\ At(s, "cancel")
    /\ IF approval[p] = "pending"
         THEN /\ approvalLock[p] = NoSession
              /\ approvalLock' = [approvalLock EXCEPT ![p] = s]
         ELSE UNCHANGED approvalLock
    /\ Goto(s, "commit")
    /\ UNCHANGED <<policyVars, rowVars, postLock>>

Deletion == {"delete", "moderate", "retire", "unremoin"}

(* A Remoin has no content to clear.                                       *)
CommitDelete(s) ==
    /\ At(s, "commit")
    /\ txn[s].op \in Deletion
    /\ post' = [p \in Post |-> IF p \in Updated(s) THEN "deleted" ELSE post[p]]
    /\ body' = IF txn[s].op = "unremoin" THEN body
               ELSE [p \in Post |-> IF p \in Updated(s) THEN "blank" ELSE body[p]]
    /\ approval' = [p \in Post |-> IF approvalLock[p] = s THEN "cancelled" ELSE approval[p]]
    /\ Finish(s)
    /\ UNCHANGED <<policyVars, required, author, source, reviewer, told>>

-----------------------------------------------------------------------------
(* PostgreSQL aborts a transaction that waits in a cycle.                  *)

WaitsFor(s) ==
    LET r == txn[s]
        Holders == CASE r.step = "select" -> {approvalLock[r.post]}
                     [] r.step = "lock" -> {postLock[p] : p \in r.todo}
                     [] r.step = "cancel" /\ approval[r.post] = "pending" -> {approvalLock[r.post]}
                     [] OTHER -> {}
    IN IF NoSession \in Holders THEN {} ELSE Holders

Deadlocked(s) ==
    \E cycle \in SUBSET Session :
        /\ s \in cycle
        /\ \A t \in cycle : /\ WaitsFor(t) \cap cycle # {}
                            /\ \E u \in cycle : t \in WaitsFor(u)

BreakDeadlock(s) == Deadlocked(s) /\ Rollback(s)

-----------------------------------------------------------------------------
BeginRequest(s) ==
    \E u \in User :
        \/ \E o \in Original \cup {NoOriginal} : BeginCreate(s, u, o)
        \/ \E o \in Original : BeginUnremoin(s, u, o)
        \/ \E p \in Post : \/ BeginEdit(s, u, p) \/ BeginDelete(s, u, p)
                           \/ BeginModerate(s, u, p)
                           \/ \E v \in Verdict : BeginReview(s, u, p, v)

Run(s) ==
    \/ CheckRemoin(s) \/ ReadPolicy(s) \/ CreateRefused(s)
    \/ \E p \in Post : Insert(s, p)
    \/ LockApproval(s) \/ ReviewRefused(s)
    \/ StartUpdate(s) \/ EndUpdate(s) \/ NothingUpdated(s)
    \/ \E p \in Post : LockRow(s, p)
    \/ Cancel(s)
    \/ CommitReview(s) \/ CommitEdit(s) \/ CommitDelete(s)
    \/ BreakDeadlock(s)

Next ==
    \/ SetPolicy \/ SetApprovers
    \/ \E s \in Session : BeginRequest(s) \/ Run(s) \/ Fail(s)

Spec == Init /\ [][Next]_vars

(* The server keeps executing a request, and the waiters of a row lock     *)
(* take turns.                                                             *)
FairSpec == Spec /\ \A s \in Session : SF_vars(Run(s))

-----------------------------------------------------------------------------
(* Rows, locks and transactions stay within their types.                   *)
TypeOK ==
    /\ enabled \in BOOLEAN
    /\ approvers \in SUBSET User
    /\ post \in [Post -> PostStatus]
    /\ required \in [Post -> BOOLEAN]
    /\ author \in [Post -> User \cup {NoUser}]
    /\ source \in [Post -> Original \cup {NoOriginal}]
    /\ body \in [Post -> {"blank", "submitted", "edited"}]
    /\ approval \in [Post -> ApprovalStatus]
    /\ reviewer \in [Post -> User \cup {NoUser}]
    /\ told \in [Post -> SUBSET {"requested", "approved", "rejected", "announced"}]
    /\ postLock \in [Post -> Session \cup {NoSession}]
    /\ approvalLock \in [Post -> Session \cup {NoSession}]
    /\ txn \in [Session -> Txn]

(* The decision and the Moin agree: an approved Moin is public until it is *)
(* deleted, a rejected one never is, and the decision event was recorded   *)
(* with it and with nothing else (reviewApproval against every deletion).  *)
DecisionMatchesPost ==
    \A p \in Post :
        /\ approval[p] = "approved" => post[p] \in {"published", "deleted"}
        /\ approval[p] = "rejected" => post[p] \in {"rejected", "deleted"}
        /\ told[p] \cap Verdict = {approval[p]} \cap Verdict

(* A Moin that needed an approval is public, and is announced, only after  *)
(* somebody other than its author approved it, whatever happened to the    *)
(* policy in between (docs/security.md, requester and approver are         *)
(* separated).                                                             *)
PublishedWasApproved ==
    \A p \in Post :
        (required[p] /\ (post[p] = "published" \/ "announced" \in told[p]))
          => approval[p] = "approved" /\ reviewer[p] \notin {author[p], NoUser}

(* An edit changes neither a Moin that waits for approval nor a deleted    *)
(* one, which has lost its content for good (updatePost against reviews    *)
(* and deletions; ADMIN_GUIDE.md: a pending Moin cannot be edited).        *)
EditsOnlyPublished ==
    \A p \in Post :
        /\ post[p] \in {"pending_approval", "rejected"} => body[p] # "edited"
        /\ post[p] = "deleted" => body[p] = "blank"

(* A decision is final, and a deleted Moin stays deleted.                  *)
Final ==
    [][\A p \in Post :
         /\ approval[p] \in Verdict \cup {"cancelled"}
              => UNCHANGED <<approval[p], reviewer[p]>>
         /\ post[p] = "deleted" => post'[p] = "deleted"]_vars

(* Every request ends: the lock order of a review (request, then Moin) and *)
(* of a deletion (Moin, then request) cross, and both still finish.        *)
RequestsEnd == \A s \in Session : ~At(s, "idle") ~> At(s, "idle")
=============================================================================

--------------------------- MODULE ApprovalProofs ---------------------------
(***************************************************************************)
(* The approval policy is never bypassed, for any number of users, Moins   *)
(* and concurrent requests.                                                *)
(***************************************************************************)
EXTENDS Approval, TLAPS

(* The record of a request, field by field.                                *)
LEMMA IdleIsTxn == Idle \in Txn /\ Idle.op = "none" /\ Idle.step = "idle"
  BY DEF Idle, Txn, Request, Step, OnePost

(* The types of the fields.                                                *)
LEMMA TxnFields ==
    ASSUME NEW r \in Txn
    PROVE  /\ r.op \in Operation \cup {"none"} /\ r.step \in Step
           /\ r.user \in User \cup {NoUser} /\ r.post \in Post \cup {NoPost}
           /\ r.op \in OnePost => r.post \in Post
           /\ r.op = "review" => r.verdict \in Verdict
           /\ r.source \in Original \cup {NoOriginal}
           /\ r.verdict \in Verdict \cup {"none"} /\ r.needs \in BOOLEAN
           /\ r.todo \in SUBSET Post
  BY DEF Txn, Request

(* Moving to another statement keeps everything else.                      *)
LEMMA TxnGoto ==
    ASSUME NEW r \in Txn, NEW step \in Step
    PROVE  LET n == [r EXCEPT !.step = step] IN
           /\ n \in Txn /\ n.step = step
           /\ n.op = r.op /\ n.user = r.user /\ n.post = r.post /\ n.source = r.source
           /\ n.verdict = r.verdict /\ n.needs = r.needs /\ n.todo = r.todo
  BY DEF Txn, Request

(* createPostRecord remembers what the policy said.                        *)
LEMMA TxnPolicy ==
    ASSUME NEW r \in Txn, NEW needs \in BOOLEAN
    PROVE  LET n == [r EXCEPT !.step = "insert", !.needs = needs] IN
           /\ n \in Txn /\ n.step = "insert"
           /\ n.op = r.op /\ n.user = r.user /\ n.post = r.post /\ n.source = r.source
  BY DEF Txn, Request, Step

(* An UPDATE on posts starts with the rows that it found.                  *)
LEMMA TxnSearch ==
    ASSUME NEW r \in Txn, NEW todo \in SUBSET Post
    PROVE  LET n == [r EXCEPT !.step = "lock", !.todo = todo] IN
           /\ n \in Txn /\ n.step = "lock" /\ n.todo = todo
           /\ n.op = r.op /\ n.user = r.user /\ n.post = r.post
           /\ n.source = r.source /\ n.verdict = r.verdict
  BY DEF Txn, Request, Step

(* One of the found rows is dealt with.                                    *)
LEMMA TxnTodo ==
    ASSUME NEW r \in Txn, NEW p
    PROVE  LET n == [r EXCEPT !.todo = @ \ {p}] IN
           /\ n \in Txn /\ n.step = r.step
           /\ n.op = r.op /\ n.user = r.user /\ n.post = r.post
           /\ n.source = r.source /\ n.verdict = r.verdict
  BY DEF Txn, Request, Step

(* deleteRemoin goes on with one of the rows that it deleted.              *)
LEMMA TxnTarget ==
    ASSUME NEW r \in Txn, NEW p \in Post
    PROVE  LET n == [r EXCEPT !.step = "cancel", !.post = p] IN
           /\ n \in Txn /\ n.step = "cancel" /\ n.post = p
           /\ n.op = r.op /\ n.user = r.user /\ n.source = r.source
  BY DEF Txn, Request, Step

(* The rows that an UPDATE finds.                                          *)
LEMMA FoundRows ==
    ASSUME NEW r \in Txn
    PROVE  /\ {p \in Scope(r) : Matches(r, p)} \in SUBSET Post
           /\ r.op # "unremoin" =>
                \A p \in {q \in Scope(r) : Matches(r, q)} : p = r.post
  BY TxnFields DEF Scope, Matches, ReviewMatches, EditMatches, OnePost

-----------------------------------------------------------------------------
(* The end of a request, committed or rolled back, keeps the types.        *)
LEMMA FinishType ==
    ASSUME TypeOK, NEW s \in Session, Finish(s)
    PROVE  /\ postLock' \in [Post -> Session \cup {NoSession}]
           /\ approvalLock' \in [Post -> Session \cup {NoSession}]
           /\ txn' \in [Session -> Txn]
  BY IdleIsTxn DEF TypeOK, Finish, Unlocked

(* A request that only moves on to another statement.                      *)
LEMMA MoveType ==
    ASSUME TypeOK, NEW s \in Session, NEW r \in Txn, txn' = [txn EXCEPT ![s] = r],
           UNCHANGED <<policyVars, rowVars>>,
           postLock' \in [Post -> Session \cup {NoSession}],
           approvalLock' \in [Post -> Session \cup {NoSession}]
    PROVE  TypeOK'
  BY DEF TypeOK, policyVars, rowVars

(* So does the beginning of a request.                                     *)
LEMMA BeginType ==
    ASSUME TypeOK, NEW s \in Session, BeginRequest(s) PROVE TypeOK'
<1>1. ASSUME NEW r \in Txn, Begin(s, r) PROVE TypeOK'
  BY <1>1, MoveType DEF Begin, lockVars, TypeOK
<1>2. ASSUME NEW u \in User, NEW o \in Original \cup {NoOriginal}, BeginCreate(s, u, o)
      PROVE  TypeOK'
  BY <1>1, <1>2 DEF BeginCreate, Idle, Txn, Request, Operation, OnePost, Step
<1>3. ASSUME NEW u \in User, NEW o \in Original, BeginUnremoin(s, u, o) PROVE TypeOK'
  BY <1>1, <1>3 DEF BeginUnremoin, Idle, Txn, Request, Operation, OnePost, Step
<1>4. ASSUME NEW u \in User, NEW p \in Post, NEW op \in OnePost \ {"review"},
             BeginUpdate(s, op, u, p)
      PROVE  TypeOK'
  BY <1>1, <1>4 DEF BeginUpdate, Idle, Txn, Request, Operation, Step
<1>5. ASSUME NEW u \in User, NEW p \in Post, NEW v \in Verdict, BeginReview(s, u, p, v)
      PROVE  TypeOK'
  BY <1>1, <1>5 DEF BeginReview, Idle, Txn, Request, Operation, OnePost, Step
<1>6. QED
  BY <1>2, <1>3, <1>4, <1>5
     DEF BeginRequest, BeginEdit, BeginDelete, BeginModerate, OnePost

(* And each of its statements.                                             *)
LEMMA RunType ==
    ASSUME TypeOK, NEW s \in Session, Run(s) PROVE TypeOK'
<1> USE DEF policyVars, rowVars, lockVars
<1>0. txn[s] \in Txn /\ txn \in [Session -> Txn]
  BY DEF TypeOK
<1>1. CASE CheckRemoin(s)
  <2>1. [txn[s] EXCEPT !.step = "policy"] \in Txn
    BY <1>0, TxnGoto DEF Step
  <2>2. QED
    BY <1>1, <2>1, MoveType DEF CheckRemoin, Goto, TypeOK
<1>2. CASE ReadPolicy(s)
  <2>1. [txn[s] EXCEPT !.step = "insert", !.needs = enabled] \in Txn
    BY <1>0, TxnPolicy DEF TypeOK
  <2>2. QED
    BY <1>2, <2>1, MoveType DEF ReadPolicy, TypeOK
<1>3. ASSUME Rollback(s) PROVE TypeOK'
  BY <1>3, FinishType DEF Rollback, TypeOK
<1>4. CASE CreateRefused(s) \/ ReviewRefused(s) \/ NothingUpdated(s) \/ BreakDeadlock(s)
  BY <1>3, <1>4 DEF CreateRefused, ReviewRefused, NothingUpdated, BreakDeadlock
<1>5. ASSUME NEW p \in Post, Insert(s, p) PROVE TypeOK'
  BY <1>0, <1>5, FinishType, TxnFields
     DEF Insert, TypeOK, PostStatus, ApprovalStatus
<1>6. CASE LockApproval(s)
  <2>1. [txn[s] EXCEPT !.step = "update"] \in Txn
    BY <1>0, TxnGoto DEF Step
  <2>2. QED
    BY <1>6, <2>1, MoveType DEF LockApproval, Goto, TypeOK
<1>7. CASE StartUpdate(s)
  <2> DEFINE todo == {p \in Scope(txn[s]) : Matches(txn[s], p)}
  <2>1. todo \in SUBSET Post
    BY <1>0, FoundRows
  <2>2. [txn[s] EXCEPT !.step = "lock", !.todo = todo] \in Txn
    BY <1>0, <2>1, TxnSearch
  <2>3. QED
    BY <1>7, <2>2, MoveType DEF StartUpdate, TypeOK
<1>8. CASE EndUpdate(s)
  <2>1. \A step \in Step : [txn[s] EXCEPT !.step = step] \in Txn
    BY <1>0, TxnGoto
  <2>2. \A p \in Post : [txn[s] EXCEPT !.step = "cancel", !.post = p] \in Txn
    BY <1>0, TxnTarget
  <2>3. Updated(s) \subseteq Post
    BY DEF Updated
  <2>4. \/ Goto(s, "commit") \/ Goto(s, "cancel")
        \/ \E p \in Post : txn' = [txn EXCEPT ![s].step = "cancel", ![s].post = p]
    BY <1>8, <2>3 DEF EndUpdate
  <2>5. QED
    <3>1. CASE Goto(s, "commit")
      BY <1>8, <2>1, <3>1, MoveType DEF EndUpdate, Goto, Step, TypeOK
    <3>2. CASE Goto(s, "cancel")
      BY <1>8, <2>1, <3>2, MoveType DEF EndUpdate, Goto, Step, TypeOK
    <3>3. ASSUME NEW p \in Post,
                 txn' = [txn EXCEPT ![s].step = "cancel", ![s].post = p]
          PROVE  TypeOK'
      <4>1. txn' = [txn EXCEPT ![s] = [txn[s] EXCEPT !.step = "cancel", !.post = p]]
        BY <3>3
      <4>2. QED
        BY <1>8, <2>2, <4>1, MoveType DEF EndUpdate, TypeOK
    <3>4. QED
      BY <2>4, <3>1, <3>2, <3>3
<1>9. ASSUME NEW p \in Post, LockRow(s, p) PROVE TypeOK'
  <2>1. [txn[s] EXCEPT !.todo = @ \ {p}] \in Txn
    BY <1>0, TxnTodo
  <2>2. postLock' \in [Post -> Session \cup {NoSession}]
    BY <1>9 DEF LockRow, TypeOK
  <2>3. QED
    BY <1>9, <2>1, <2>2, MoveType DEF LockRow, TypeOK
<1>10. CASE Cancel(s)
  <2>1. [txn[s] EXCEPT !.step = "commit"] \in Txn
    BY <1>0, TxnGoto DEF Step
  <2>2. approvalLock' \in [Post -> Session \cup {NoSession}]
    BY <1>10 DEF Cancel, TypeOK
  <2>3. QED
    BY <1>10, <2>1, <2>2, MoveType DEF Cancel, Goto, TypeOK
<1>11. CASE CommitReview(s)
  <2>1. txn[s].user \in User \cup {NoUser} /\ txn[s].verdict \in Verdict
    BY <1>0, <1>11, TxnFields DEF CommitReview
  <2>2. QED
    BY <1>11, <2>1, FinishType DEF CommitReview, TypeOK, PostStatus, ApprovalStatus, Verdict
<1>12. CASE CommitEdit(s)
  BY <1>12, FinishType DEF CommitEdit, TypeOK
<1>13. CASE CommitDelete(s)
  BY <1>13, FinishType DEF CommitDelete, TypeOK, PostStatus, ApprovalStatus
<1>14. QED
  BY <1>1, <1>2, <1>4, <1>5, <1>6, <1>7, <1>8, <1>9, <1>10, <1>11, <1>12, <1>13 DEF Run

(* The tables, locks and requests stay within their types.                 *)
THEOREM TypeCorrect == Spec => []TypeOK
<1> USE DEF policyVars, rowVars, lockVars
<1>1. Init => TypeOK
  BY IdleIsTxn DEF Init, TypeOK, PostStatus, ApprovalStatus
<1>2. TypeOK /\ [Next]_vars => TypeOK'
  <2> SUFFICES ASSUME TypeOK, [Next]_vars PROVE TypeOK'
    OBVIOUS
  <2>1. CASE SetPolicy \/ SetApprovers
    BY <2>1 DEF SetPolicy, SetApprovers, TypeOK
  <2>2. ASSUME NEW s \in Session, Fail(s) PROVE TypeOK'
    BY <2>2, FinishType DEF Fail, Rollback, TypeOK
  <2>3. CASE UNCHANGED vars
    BY <2>3 DEF vars, TypeOK
  <2>4. QED
    BY <2>1, <2>2, <2>3, BeginType, RunType DEF Next
<1>3. QED
  BY <1>1, <1>2, PTL DEF Spec

-----------------------------------------------------------------------------
(* What a lock is worth.  The rows that a request locked still match its   *)
(* WHERE clause, since nobody else can write them; the approval request    *)
(* that it locked is still pending; and a decision or an edit is committed *)
(* only under the lock of its Moin, a decision also under that of the      *)
(* approval request.                                                       *)
PostHeld(s) ==
    \A p \in Post : postLock[p] = s =>
        /\ txn[s].step \in {"lock", "cancel", "commit"}
        /\ Matches(txn[s], p)
        /\ txn[s].op # "unremoin" => p = txn[s].post

ApprovalHeld(s) ==
    \A p \in Post : approvalLock[p] = s =>
        /\ p = txn[s].post
        /\ approval[p] = "pending"
        /\ \/ /\ txn[s].op = "review"
              /\ txn[s].step \in {"update", "lock", "commit"}
              /\ author[p] # txn[s].user
           \/ txn[s].op \in Deletion /\ txn[s].step = "commit"

Holds(s) ==
    /\ (txn[s].op = "review" /\ txn[s].step \in {"update", "lock", "commit"})
         => approvalLock[txn[s].post] = s
    /\ (txn[s].op \in {"review", "edit"} /\ txn[s].step = "commit")
         => postLock[txn[s].post] = s
    /\ txn[s].op = "unremoin" => txn[s].source \in Original
    /\ txn[s].op # "none" => txn[s].user \in User
    /\ txn[s].op \in {"none", "create"} =>
         txn[s].step \in {"idle", "exists", "policy", "insert"}
    /\ txn[s].step = "select" => txn[s].op = "review"
    /\ txn[s].step = "cancel" => txn[s].op \in Deletion
    /\ (txn[s].step = "lock" /\ txn[s].op # "unremoin") =>
         txn[s].todo \subseteq {txn[s].post}

Locks == \A s \in Session : PostHeld(s) /\ ApprovalHeld(s) /\ Holds(s)

(* A Moin that does not exist yet has no request and no notification; a    *)
(* Remoin never has content.                                               *)
Rows ==
    \A p \in Post :
        /\ post[p] = "absent" => approval[p] = "none" /\ told[p] = {} /\ body[p] = "blank"
        /\ source[p] # NoOriginal => body[p] = "blank"

IInv == /\ TypeOK /\ Locks /\ Rows
        /\ DecisionMatchesPost /\ PublishedWasApproved /\ EditsOnlyPublished

(* A step of s leaves alone what another request has locked.               *)
Quiet(s) ==
    \A p \in Post :
        /\ (postLock[p] \in Session \ {s} \/ postLock'[p] \in Session \ {s}) =>
             UNCHANGED <<postLock[p], post[p], author[p], source[p]>>
        /\ (approvalLock[p] \in Session \ {s} \/ approvalLock'[p] \in Session \ {s}) =>
             UNCHANGED <<approvalLock[p], approval[p], author[p]>>

(* What the other requests hold survives such a step.                      *)
LEMMA Others ==
    ASSUME TypeOK, Locks, NEW s \in Session, Quiet(s),
           NEW t \in Session \ {s}, txn'[t] = txn[t]
    PROVE  PostHeld(t)' /\ ApprovalHeld(t)' /\ Holds(t)'
<1> USE DEF Locks, Quiet
<1>1. PostHeld(t)'
  <2> SUFFICES ASSUME NEW p \in Post, postLock'[p] = t
               PROVE  /\ txn[t].step \in {"lock", "cancel", "commit"}
                      /\ Matches(txn[t], p)'
                      /\ txn[t].op # "unremoin" => p = txn[t].post
    BY DEF PostHeld
  <2>1. postLock[p] = t /\ UNCHANGED <<post[p], author[p], source[p]>>
    OBVIOUS
  <2>2. Matches(txn[t], p)
    BY <2>1 DEF PostHeld
  <2>3. Matches(txn[t], p)'
    BY <2>1, <2>2 DEF Matches, ReviewMatches, EditMatches, Live, RemoinOf
  <2>4. QED
    BY <2>1, <2>3 DEF PostHeld
<1>2. ApprovalHeld(t)'
  BY DEF ApprovalHeld
<1>3. Holds(t)'
  <2>1. txn[t].op \in OnePost => txn[t].post \in Post
    BY TxnFields DEF TypeOK
  <2>2. QED
    BY <2>1 DEF Holds, OnePost
<1>4. QED
  BY <1>1, <1>2, <1>3

(* Hence only the request that steps has to be looked at.                  *)
LEMMA AllLocks ==
    ASSUME TypeOK, Locks, NEW s \in Session, Quiet(s),
           \A t \in Session \ {s} : txn'[t] = txn[t],
           PostHeld(s)', ApprovalHeld(s)', Holds(s)'
    PROVE  Locks'
  BY Others DEF Locks

(* A locked Moin exists.                                                   *)
LEMMA HeldExists ==
    ASSUME TypeOK, Locks, Rows, NEW p \in Post, post[p] = "absent"
    PROVE  postLock[p] \notin Session /\ approvalLock[p] \notin Session
<1>1. \A s \in Session : ~Matches(txn[s], p)
  BY DEF Matches, ReviewMatches, EditMatches, Live, RemoinOf
<1>2. approval[p] = "none"
  BY DEF Rows
<1>3. QED
  BY <1>1, <1>2 DEF Locks, PostHeld, ApprovalHeld

(* A request begins without locks.                                         *)
LEMMA BeginLocks ==
    ASSUME TypeOK, Locks, NEW s \in Session, NEW r \in Txn, Begin(s, r),
           r.step \in {"exists", "policy", "select", "update"},
           r.op = "review" <=> r.step = "select",
           r.op \in {"none", "create"} => r.step \in {"exists", "policy"},
           r.op = "unremoin" => r.source \in Original,
           r.user \in User
    PROVE  Locks'
<1>1. \A p \in Post : postLock[p] # s /\ approvalLock[p] # s
  BY DEF Begin, At, Locks, PostHeld, ApprovalHeld
<1>2. txn'[s] = r /\ \A t \in Session \ {s} : txn'[t] = txn[t]
  BY DEF Begin, TypeOK
<1>3. UNCHANGED <<rowVars, lockVars>>
  BY DEF Begin
<1>4. Quiet(s)
  BY <1>3 DEF Quiet, rowVars, lockVars
<1>5. PostHeld(s)' /\ ApprovalHeld(s)'
  BY <1>1, <1>3 DEF PostHeld, ApprovalHeld, lockVars
<1>6. Holds(s)'
  BY <1>2 DEF Holds
<1>7. QED
  BY <1>2, <1>4, <1>5, <1>6, AllLocks

(* A request ends without locks.                                           *)
LEMMA FinishLocks ==
    ASSUME TypeOK, Locks, NEW s \in Session, Finish(s),
           \A p \in Post : postLock[p] \in Session \ {s} =>
                             UNCHANGED <<post[p], author[p], source[p]>>,
           \A p \in Post : approvalLock[p] \in Session \ {s} =>
                             UNCHANGED <<approval[p], author[p]>>
    PROVE  Locks'
<1>1. txn'[s] = Idle /\ \A t \in Session \ {s} : txn'[t] = txn[t]
  BY DEF Finish, TypeOK
<1>2. \A p \in Post :
        /\ postLock'[p] # s /\ approvalLock'[p] # s
        /\ (postLock[p] \in Session \ {s} \/ postLock'[p] \in Session \ {s})
             => postLock'[p] = postLock[p]
        /\ (approvalLock[p] \in Session \ {s} \/ approvalLock'[p] \in Session \ {s})
             => approvalLock'[p] = approvalLock[p]
  BY NamesAssumption DEF Finish, Unlocked
<1>3. Quiet(s)
  BY <1>2 DEF Quiet
<1>4. PostHeld(s)' /\ ApprovalHeld(s)'
  BY <1>2 DEF PostHeld, ApprovalHeld
<1>5. Holds(s)'
  BY <1>1, IdleIsTxn DEF Holds
<1>6. QED
  BY <1>1, <1>3, <1>4, <1>5, AllLocks

(* In particular when it is rolled back.                                   *)
LEMMA RollbackLocks ==
    ASSUME TypeOK, Locks, NEW s \in Session, Rollback(s) PROVE Locks'
  BY FinishLocks DEF Rollback, rowVars

(* Every handler begins that way.                                          *)
LEMMA BeginRequestLocks ==
    ASSUME TypeOK, Locks, NEW s \in Session, BeginRequest(s) PROVE Locks'
<1> USE BeginLocks
<1>2. ASSUME NEW u \in User, NEW o \in Original \cup {NoOriginal}, BeginCreate(s, u, o)
      PROVE  Locks'
  <2> DEFINE r == [Idle EXCEPT !.op = "create", !.user = u, !.source = o,
                               !.step = IF o = NoOriginal THEN "policy" ELSE "exists"]
  <2>1. /\ r \in Txn /\ r.op = "create" /\ r.user = u
        /\ r.step \in {"exists", "policy"}
    BY DEF Idle, Txn, Request, Operation, OnePost, Step
  <2>2. QED
    BY <1>2, <2>1 DEF BeginCreate
<1>3. ASSUME NEW u \in User, NEW o \in Original, BeginUnremoin(s, u, o) PROVE Locks'
  <2> DEFINE r == [Idle EXCEPT !.op = "unremoin", !.step = "update", !.user = u, !.source = o]
  <2>1. /\ r \in Txn /\ r.op = "unremoin" /\ r.user = u
        /\ r.step = "update" /\ r.source = o
    BY DEF Idle, Txn, Request, Operation, OnePost, Step
  <2>2. QED
    BY <1>3, <2>1 DEF BeginUnremoin
<1>4. ASSUME NEW u \in User, NEW p \in Post, NEW op \in OnePost \ {"review"},
             BeginUpdate(s, op, u, p)
      PROVE  Locks'
  <2> DEFINE r == [Idle EXCEPT !.op = op, !.step = "update", !.user = u, !.post = p]
  <2>1. r \in Txn /\ r.op = op /\ r.user = u /\ r.step = "update"
    BY DEF Idle, Txn, Request, Operation, Step
  <2>2. op \notin {"none", "create", "review", "unremoin"}
    BY DEF OnePost
  <2>3. QED
    BY <1>4, <2>1, <2>2 DEF BeginUpdate
<1>5. ASSUME NEW u \in User, NEW p \in Post, NEW v \in Verdict, BeginReview(s, u, p, v)
      PROVE  Locks'
  <2> DEFINE r == [Idle EXCEPT !.op = "review", !.step = "select", !.user = u,
                               !.post = p, !.verdict = v]
  <2>1. r \in Txn /\ r.op = "review" /\ r.user = u /\ r.step = "select"
    BY DEF Idle, Txn, Request, Operation, OnePost, Step
  <2>2. QED
    BY <1>5, <2>1 DEF BeginReview
<1>6. QED
  BY <1>2, <1>3, <1>4, <1>5
     DEF BeginRequest, BeginEdit, BeginDelete, BeginModerate, OnePost

(* Steps that write no row.                                                *)
LEMMA MoveLocks ==
    ASSUME TypeOK, Locks, NEW s \in Session,
           \/ CheckRemoin(s) \/ ReadPolicy(s) \/ LockApproval(s) \/ StartUpdate(s)
           \/ EndUpdate(s) \/ (\E p \in Post : LockRow(s, p)) \/ Cancel(s)
    PROVE  Locks'
<1>0. /\ txn[s] \in Txn /\ txn \in [Session -> Txn]
      /\ PostHeld(s) /\ ApprovalHeld(s) /\ Holds(s)
  BY DEF TypeOK, Locks
<1>1. UNCHANGED rowVars /\ \E r \in {txn'[s]} : txn' = [txn EXCEPT ![s] = r]
  BY <1>0 DEF CheckRemoin, ReadPolicy, LockApproval, StartUpdate, EndUpdate, LockRow,
              Cancel, Goto
<1>2. \A t \in Session \ {s} : txn'[t] = txn[t]
  BY <1>0, <1>1
<1>3. \A p \in Post :
        /\ postLock'[p] \in {postLock[p], s} /\ approvalLock'[p] \in {approvalLock[p], s}
        /\ postLock'[p] # postLock[p] => postLock[p] = NoSession
        /\ approvalLock'[p] # approvalLock[p] => approvalLock[p] = NoSession
  BY <1>0 DEF CheckRemoin, ReadPolicy, LockApproval, StartUpdate, EndUpdate, LockRow,
              Cancel, Goto, lockVars, TypeOK
<1>4. Quiet(s)
  BY <1>1, <1>3, NamesAssumption DEF Quiet, rowVars
<1>5. ASSUME txn'[s].op = txn[s].op, txn'[s].user = txn[s].user,
             txn'[s].source = txn[s].source
      PROVE  \A p \in Post : Matches(txn[s], p)' <=> Matches(txn[s], p)
  BY <1>1, <1>5 DEF Matches, ReviewMatches, EditMatches, Live, RemoinOf, rowVars
<1> USE <1>0
<1>6. CASE CheckRemoin(s) \/ ReadPolicy(s)
  <2>1. /\ txn'[s].op = txn[s].op /\ txn'[s].user = txn[s].user
        /\ txn'[s].source = txn[s].source /\ txn'[s].step \in {"policy", "insert"}
        /\ txn[s].step \in {"exists", "policy"} /\ UNCHANGED lockVars
    <3>1. CASE CheckRemoin(s)
      BY <3>1, TxnGoto DEF CheckRemoin, Goto, At, Step
    <3>2. CASE ReadPolicy(s)
      <4>1. enabled \in BOOLEAN
        BY DEF TypeOK
      <4>2. QED
        BY <3>2, <4>1, TxnPolicy DEF ReadPolicy, At
    <3>3. QED
      BY <1>6, <3>1, <3>2
  <2>2. \A p \in Post : postLock'[p] # s /\ approvalLock'[p] # s
    BY <2>1 DEF PostHeld, ApprovalHeld, lockVars
  <2>3. PostHeld(s)' /\ ApprovalHeld(s)' /\ Holds(s)'
    BY <2>1, <2>2 DEF PostHeld, ApprovalHeld, Holds
  <2>4. QED
    BY <1>2, <1>4, <2>3, AllLocks
<1>7. CASE LockApproval(s)
  <2> DEFINE p == txn[s].post
  <2>1. /\ txn'[s].op = txn[s].op /\ txn'[s].user = txn[s].user /\ txn'[s].post = p
        /\ txn'[s].source = txn[s].source /\ txn'[s].step = "update"
    BY <1>7, TxnGoto DEF LockApproval, Goto, Step
  <2>2. /\ txn[s].step = "select" /\ Reviewable(txn[s]) /\ UNCHANGED postLock
        /\ approvalLock' = [approvalLock EXCEPT ![p] = s]
    BY <1>7 DEF LockApproval, At
  <2>3. txn[s].op = "review" /\ p \in Post
    BY <2>2, TxnFields DEF Holds, OnePost
  <2>4. PostHeld(s)'
    BY <2>2 DEF PostHeld
  <2>5. ApprovalHeld(s)' /\ Holds(s)'
    BY <1>1, <2>1, <2>2, <2>3 DEF ApprovalHeld, Holds, Reviewable, rowVars, TypeOK
  <2>6. QED
    BY <1>2, <1>4, <2>4, <2>5, AllLocks
<1>8. CASE StartUpdate(s)
  <2> DEFINE found == {p \in Scope(txn[s]) : Matches(txn[s], p)}
  <2>1. found \in SUBSET Post /\ (txn[s].op # "unremoin" => found \subseteq {txn[s].post})
    BY FoundRows
  <2>2. /\ txn'[s].op = txn[s].op /\ txn'[s].user = txn[s].user
        /\ txn'[s].post = txn[s].post /\ txn'[s].source = txn[s].source
        /\ txn'[s].step = "lock" /\ txn'[s].todo = found
        /\ txn[s].step = "update" /\ UNCHANGED lockVars
    <3> HIDE DEF found
    <3>1. txn' = [txn EXCEPT ![s] = [txn[s] EXCEPT !.step = "lock", !.todo = found]]
      BY <1>8 DEF StartUpdate, found
    <3>2. txn'[s] = [txn[s] EXCEPT !.step = "lock", !.todo = found]
      BY <3>1
    <3>3. txn[s].step = "update" /\ UNCHANGED lockVars
      BY <1>8 DEF StartUpdate, At
    <3>4. QED
      BY <1>0, <3>2, <3>3 DEF Txn, Request
  <2>3. PostHeld(s)'
    BY <2>2 DEF PostHeld, lockVars
  <2>4. ApprovalHeld(s)' /\ Holds(s)'
    BY <1>1, <2>1, <2>2 DEF ApprovalHeld, Holds, Deletion, lockVars, rowVars
  <2>5. QED
    BY <1>2, <1>4, <2>3, <2>4, AllLocks
<1>9. ASSUME NEW q \in Post, LockRow(s, q) PROVE Locks'
  <2>1. /\ txn'[s].op = txn[s].op /\ txn'[s].user = txn[s].user
        /\ txn'[s].post = txn[s].post /\ txn'[s].source = txn[s].source
        /\ txn'[s].step = "lock" /\ txn[s].step = "lock"
        /\ txn'[s].todo \subseteq txn[s].todo
        /\ UNCHANGED approvalLock /\ q \in txn[s].todo
    BY <1>9, TxnTodo DEF LockRow, At
  <2>2. \A p \in Post : postLock'[p] = s =>
          postLock[p] = s \/ (p = q /\ Matches(txn[s], q))
    BY <1>9 DEF LockRow, TypeOK
  <2>3. \A p \in Post : Matches(txn[s], p)' <=> Matches(txn[s], p)
    BY <1>5, <2>1
  <2>4. txn[s].op # "unremoin" => q = txn[s].post
    BY <2>1 DEF Holds
  <2>5. PostHeld(s)'
    BY <2>1, <2>2, <2>3, <2>4 DEF PostHeld
  <2>6. ApprovalHeld(s)' /\ Holds(s)'
    BY <1>1, <2>1 DEF ApprovalHeld, Holds, Deletion, rowVars
  <2>7. QED
    BY <1>2, <1>4, <2>5, <2>6, AllLocks
<1>10. CASE EndUpdate(s)
  <2>1. /\ txn'[s].op = txn[s].op /\ txn'[s].user = txn[s].user
        /\ txn'[s].source = txn[s].source /\ txn[s].step = "lock" /\ UNCHANGED lockVars
        /\ txn[s].op # "unremoin" => txn'[s].post = txn[s].post
        /\ txn'[s].step \in {"cancel", "commit"}
        /\ txn'[s].step = "cancel" => txn[s].op \in Deletion
        /\ txn'[s].step = "commit" => txn[s].op \in {"review", "edit"} /\ Updated(s) # {}
    <3>1. txn[s].step = "lock" /\ UNCHANGED lockVars
      BY <1>10 DEF EndUpdate, At
    <3>2. CASE Goto(s, "commit") /\ txn[s].op \in {"review", "edit"} /\ Updated(s) # {}
      BY <3>1, <3>2, TxnGoto DEF Goto, Step
    <3>3. CASE Goto(s, "cancel") /\ txn[s].op \in {"moderate", "retire", "delete"}
      BY <3>1, <3>3, TxnGoto DEF Goto, Step, Deletion
    <3>4. ASSUME NEW p \in Post, txn[s].op = "unremoin",
                 txn' = [txn EXCEPT ![s].step = "cancel", ![s].post = p]
          PROVE  <2>1
      <4>1. txn'[s] = [txn[s] EXCEPT !.step = "cancel", !.post = p]
        BY <3>4
      <4>2. QED
        BY <1>0, <3>1, <3>4, <4>1 DEF Deletion, Txn, Request
    <3>5. Updated(s) \subseteq Post
      BY DEF Updated
    <3>6. QED
      BY <1>10, <3>2, <3>3, <3>4, <3>5 DEF EndUpdate
  <2>3. \A p \in Post : Matches(txn[s], p)' <=> Matches(txn[s], p)
    BY <1>5, <2>1
  <2>5. PostHeld(s)'
    BY <2>1, <2>3 DEF PostHeld, lockVars
  <2>6. ApprovalHeld(s)'
    BY <1>1, <2>1 DEF ApprovalHeld, Deletion, lockVars, rowVars
  <2>7. Holds(s)'
    BY <2>1 DEF Holds, PostHeld, Updated, lockVars
  <2>8. QED
    BY <1>2, <1>4, <2>5, <2>6, <2>7, AllLocks
<1>11. CASE Cancel(s)
  <2>1. /\ txn'[s].op = txn[s].op /\ txn'[s].user = txn[s].user
        /\ txn'[s].post = txn[s].post /\ txn'[s].source = txn[s].source
        /\ txn'[s].step = "commit" /\ txn[s].step = "cancel" /\ UNCHANGED postLock
    BY <1>11, TxnGoto DEF Cancel, Goto, At, Step
  <2>2. txn[s].op \in Deletion
    BY <2>1 DEF Holds
  <2>3. \A p \in Post : approvalLock'[p] = s =>
          approvalLock[p] = s \/ (p = txn[s].post /\ approval[p] = "pending")
    BY <1>11 DEF Cancel, TypeOK
  <2>4. \A p \in Post : Matches(txn[s], p)' <=> Matches(txn[s], p)
    BY <1>5, <2>1
  <2>5. PostHeld(s)'
    BY <2>1, <2>4 DEF PostHeld
  <2>6. ApprovalHeld(s)' /\ Holds(s)'
    BY <1>1, <2>1, <2>2, <2>3 DEF ApprovalHeld, Holds, Deletion, rowVars
  <2>7. QED
    BY <1>2, <1>4, <2>5, <2>6, AllLocks
<1>12. QED
  BY <1>6, <1>7, <1>8, <1>9, <1>10, <1>11

-----------------------------------------------------------------------------
(* What a commit finds under its locks.                                    *)
LEMMA ReviewFinds ==
    ASSUME TypeOK, Locks, NEW s \in Session, CommitReview(s)
    PROVE  LET p == txn[s].post IN
           /\ p \in Post /\ txn[s].verdict \in Verdict /\ txn[s].user \in User
           /\ postLock[p] = s /\ approvalLock[p] = s
           /\ post[p] = "pending_approval" /\ approval[p] = "pending"
           /\ author[p] # txn[s].user
<1> DEFINE p == txn[s].post
<1>1. txn[s] \in Txn /\ PostHeld(s) /\ ApprovalHeld(s) /\ Holds(s)
  BY DEF TypeOK, Locks
<1>2. txn[s].op = "review" /\ txn[s].step = "commit"
  BY DEF CommitReview, At
<1>3. p \in Post /\ txn[s].verdict \in Verdict /\ txn[s].user \in User
  BY <1>1, <1>2, TxnFields DEF Holds, OnePost
<1>4. postLock[p] = s /\ approvalLock[p] = s
  BY <1>1, <1>2 DEF Holds
<1>5. Matches(txn[s], p) /\ approval[p] = "pending" /\ author[p] # txn[s].user
  BY <1>1, <1>2, <1>3, <1>4 DEF PostHeld, ApprovalHeld, Deletion
<1>6. QED
  BY <1>2, <1>3, <1>4, <1>5 DEF Matches, ReviewMatches, EditMatches

(* An edit still finds a published Moin that is no Remoin.                 *)
LEMMA EditFinds ==
    ASSUME TypeOK, Locks, NEW s \in Session, CommitEdit(s)
    PROVE  LET p == txn[s].post IN
           p \in Post /\ post[p] = "published" /\ source[p] = NoOriginal
<1> DEFINE p == txn[s].post
<1>1. txn[s] \in Txn /\ PostHeld(s) /\ Holds(s)
  BY DEF TypeOK, Locks
<1>2. txn[s].op = "edit" /\ txn[s].step = "commit"
  BY DEF CommitEdit, At
<1>3. p \in Post /\ postLock[p] = s
  BY <1>1, <1>2, TxnFields DEF Holds, OnePost
<1>4. Matches(txn[s], p)
  BY <1>1, <1>3 DEF PostHeld
<1>5. QED
  BY <1>2, <1>3, <1>4 DEF Matches, ReviewMatches, EditMatches

(* A deletion cancels only pending requests.                               *)
LEMMA DeleteFinds ==
    ASSUME TypeOK, Locks, NEW s \in Session, CommitDelete(s), NEW p \in Post
    PROVE  /\ approvalLock[p] = s => approval[p] = "pending"
           /\ postLock[p] = s => post[p] # "absent"
           /\ (postLock[p] = s /\ txn[s].op = "unremoin") => source[p] # NoOriginal
<1>1. PostHeld(s) /\ ApprovalHeld(s) /\ Holds(s)
  BY DEF Locks
<1>2. approvalLock[p] = s => approval[p] = "pending"
  BY <1>1 DEF ApprovalHeld
<1>3. postLock[p] = s => Matches(txn[s], p)
  BY <1>1 DEF PostHeld
<1>4. txn[s].op \in Deletion /\ (txn[s].op = "unremoin" => txn[s].source \in Original)
  BY <1>1 DEF CommitDelete, Holds
<1>5. QED
  BY <1>2, <1>3, <1>4, NamesAssumption
     DEF Matches, ReviewMatches, EditMatches, Live, RemoinOf, Deletion

(* A commit writes only what it has locked.                                *)
LEMMA CommitLocks ==
    ASSUME TypeOK, Locks, Rows, NEW s \in Session,
           \/ \E p \in Post : Insert(s, p)
           \/ CommitReview(s) \/ CommitEdit(s) \/ CommitDelete(s)
    PROVE  Locks'
<1>1. ASSUME NEW p \in Post, Insert(s, p) PROVE Locks'
  <2>1. postLock[p] \notin Session /\ approvalLock[p] \notin Session
    BY <1>1, HeldExists DEF Insert
  <2>2. \A q \in Post \ {p} :
          UNCHANGED <<post[q], author[q], source[q], approval[q]>>
    BY <1>1 DEF Insert, TypeOK
  <2>3. QED
    BY <1>1, <2>1, <2>2, FinishLocks DEF Insert
<1>2. CASE CommitReview(s)
  <2>1. /\ \A q \in Post \ {txn[s].post} : UNCHANGED <<post[q], approval[q]>>
        /\ UNCHANGED <<author, source>>
    BY <1>2 DEF CommitReview, TypeOK
  <2>2. postLock[txn[s].post] = s /\ approvalLock[txn[s].post] = s /\ Finish(s)
    BY <1>2, ReviewFinds DEF CommitReview
  <2>3. /\ \A q \in Post : postLock[q] \in Session \ {s} => q \in Post \ {txn[s].post}
        /\ \A q \in Post : approvalLock[q] \in Session \ {s} => q \in Post \ {txn[s].post}
    BY <2>2
  <2>4. QED
    BY <2>1, <2>2, <2>3, FinishLocks
<1>3. CASE CommitEdit(s)
  BY <1>3, FinishLocks DEF CommitEdit
<1>4. CASE CommitDelete(s)
  BY <1>4, FinishLocks DEF CommitDelete, Updated
<1>5. QED
  BY <1>1, <1>2, <1>3, <1>4

-----------------------------------------------------------------------------
(* What the rows say of each other                                         *)

RowInv == Rows /\ DecisionMatchesPost /\ PublishedWasApproved /\ EditsOnlyPublished

(* Without a write they keep saying it.                                    *)
LEMMA SameRows ==
    ASSUME RowInv, UNCHANGED rowVars PROVE RowInv'
  BY DEF RowInv, Rows, DecisionMatchesPost, PublishedWasApproved, EditsOnlyPublished, rowVars

(* The same, of one Moin.                                                  *)
RowOK(p) ==
    /\ post[p] = "absent" => approval[p] = "none" /\ told[p] = {} /\ body[p] = "blank"
    /\ source[p] # NoOriginal => body[p] = "blank"
    /\ approval[p] = "approved" => post[p] \in {"published", "deleted"}
    /\ approval[p] = "rejected" => post[p] \in {"rejected", "deleted"}
    /\ told[p] \cap Verdict = {approval[p]} \cap Verdict
    /\ (required[p] /\ (post[p] = "published" \/ "announced" \in told[p]))
         => approval[p] = "approved" /\ reviewer[p] \notin {author[p], NoUser}
    /\ post[p] \in {"pending_approval", "rejected"} => body[p] # "edited"
    /\ post[p] = "deleted" => body[p] = "blank"

(* All Moins are fine if each is.                                          *)
LEMMA RowByRow == RowInv <=> \A p \in Post : RowOK(p)
  BY DEF RowInv, RowOK, Rows, DecisionMatchesPost, PublishedWasApproved, EditsOnlyPublished

(* The same of the next state.                                             *)
LEMMA RowByRowNext == RowInv' <=> \A p \in Post : RowOK(p)'
  BY DEF RowInv, RowOK, Rows, DecisionMatchesPost, PublishedWasApproved, EditsOnlyPublished

(* A Moin that no step touches stays fine.                                 *)
LEMMA SameRow ==
    ASSUME NEW p \in Post, RowOK(p),
           UNCHANGED <<post[p], required[p], author[p], source[p], body[p], approval[p],
                       reviewer[p], told[p]>>
    PROVE  RowOK(p)'
  BY DEF RowOK

(* And every commit keeps the rows consistent.                             *)
LEMMA CommitRows ==
    ASSUME TypeOK, Locks, RowInv, NEW s \in Session,
           \/ \E p \in Post : Insert(s, p)
           \/ CommitReview(s) \/ CommitEdit(s) \/ CommitDelete(s)
    PROVE  RowInv'
<1>0. /\ \A p \in Post : RowOK(p)
      /\ \A p \in Post : told[p] \subseteq {"requested", "approved", "rejected", "announced"}
  BY RowByRow DEF TypeOK
<1> SUFFICES ASSUME NEW q \in Post PROVE RowOK(q)'
  BY RowByRow, RowByRowNext
<1>1. ASSUME NEW p \in Post, Insert(s, p) PROVE RowOK(q)'
  <2>1. CASE q # p
    BY <1>0, <1>1, <2>1, SameRow DEF Insert, TypeOK
  <2>2. CASE q = p
    <3>1. /\ post'[q] = IF txn[s].needs THEN "pending_approval" ELSE "published"
          /\ approval'[q] = IF txn[s].needs THEN "pending" ELSE "none"
          /\ told'[q] = IF txn[s].needs THEN {"requested"} ELSE {"announced"}
          /\ required'[q] = txn[s].needs /\ source'[q] = txn[s].source
          /\ body'[q] = IF txn[s].source = NoOriginal THEN "submitted" ELSE "blank"
      BY <1>1, <2>2 DEF Insert, TypeOK
    <3>2. QED
      BY <3>1 DEF RowOK, Verdict
  <2>3. QED
    BY <2>1, <2>2
<1>2. CASE CommitReview(s)
  <2> DEFINE p == txn[s].post
             v == txn[s].verdict
  <2>1. /\ p \in Post /\ v \in Verdict /\ txn[s].user \in User
        /\ post[p] = "pending_approval" /\ approval[p] = "pending"
        /\ author[p] # txn[s].user
    BY <1>2, ReviewFinds
  <2>2. CASE q # p
    BY <1>0, <1>2, <2>2, SameRow DEF CommitReview, TypeOK
  <2>3. CASE q = p
    <3>1. /\ approval'[q] = v /\ reviewer'[q] = txn[s].user
          /\ post'[q] = IF v = "approved" THEN "published" ELSE "rejected"
          /\ told'[q] = told[q] \cup {v} \cup (IF v = "approved" THEN {"announced"} ELSE {})
          /\ UNCHANGED <<required[q], author[q], source[q], body[q]>>
      BY <1>2, <2>1, <2>3 DEF CommitReview, TypeOK
    <3>2. told[q] \cap Verdict = {} /\ (required[q] => "announced" \notin told[q])
      BY <1>0, <2>1, <2>3 DEF RowOK, Verdict
    <3>3. /\ told'[q] \cap Verdict = {v}
          /\ v = "rejected" => "announced" \notin told'[q] \/ ~required[q]
      BY <2>1, <3>1, <3>2 DEF Verdict
    <3>4. txn[s].user # NoUser
      BY <2>1, NamesAssumption
    <3>5. {approval'[q]} \cap Verdict = {v}
      BY <2>1, <3>1
    <3>6. body[q] # "edited" /\ (source[q] # NoOriginal => body[q] = "blank")
      BY <1>0, <2>1, <2>3 DEF RowOK
    <3>7. CASE v = "approved"
      BY <2>1, <2>3, <3>1, <3>3, <3>4, <3>5, <3>6, <3>7 DEF RowOK
    <3>8. CASE v = "rejected"
      BY <2>1, <2>3, <3>1, <3>3, <3>4, <3>5, <3>6, <3>8 DEF RowOK
    <3>9. QED
      BY <2>1, <3>7, <3>8 DEF Verdict
  <2>4. QED
    BY <2>2, <2>3
<1>3. CASE CommitEdit(s)
  <2> DEFINE p == txn[s].post
  <2>1. p \in Post /\ post[p] = "published" /\ source[p] = NoOriginal
    BY <1>3, EditFinds
  <2>2. CASE q # p
    BY <1>0, <1>3, <2>2, SameRow DEF CommitEdit, TypeOK
  <2>3. CASE q = p
    <3>1. /\ body'[q] = "edited" /\ told'[q] = told[q] \cup {"announced"}
          /\ UNCHANGED <<post[q], required[q], author[q], source[q], approval[q], reviewer[q]>>
      BY <1>3, <2>1, <2>3 DEF CommitEdit, TypeOK
    <3>2. told'[q] \cap Verdict = told[q] \cap Verdict
      BY <3>1 DEF Verdict
    <3>3. QED
      BY <1>0, <2>1, <2>3, <3>1, <3>2 DEF RowOK
  <2>4. QED
    BY <2>2, <2>3
<1>4. CASE CommitDelete(s)
  <2>1. /\ approvalLock[q] = s => approval[q] = "pending"
        /\ postLock[q] = s => post[q] # "absent"
        /\ (postLock[q] = s /\ txn[s].op = "unremoin") => source[q] # NoOriginal
    BY <1>4, DeleteFinds
  <2>2. /\ post'[q] = IF postLock[q] = s THEN "deleted" ELSE post[q]
        /\ body'[q] = IF postLock[q] = s /\ txn[s].op # "unremoin" THEN "blank" ELSE body[q]
        /\ approval'[q] = IF approvalLock[q] = s THEN "cancelled" ELSE approval[q]
        /\ UNCHANGED <<required[q], author[q], source[q], reviewer[q], told[q]>>
    BY <1>4 DEF CommitDelete, Updated
  <2>3. "pending" \notin Verdict /\ "cancelled" \notin Verdict
    BY DEF Verdict
  <2>4. told'[q] \cap Verdict = {approval'[q]} \cap Verdict
    BY <1>0, <2>1, <2>2, <2>3 DEF RowOK
  <2>5. QED
    BY <1>0, <2>1, <2>2, <2>4 DEF RowOK
<1>5. QED
  BY <1>1, <1>2, <1>3, <1>4

-----------------------------------------------------------------------------
(* The initial state has the right types.                                  *)
LEMMA TypeInit == Init => TypeOK
  BY IdleIsTxn DEF Init, TypeOK, PostStatus, ApprovalStatus

(* The inductive invariant holds at first.                                 *)
LEMMA IInvInit == Init => IInv
<1> SUFFICES ASSUME Init PROVE IInv
  OBVIOUS
<1>1. TypeOK
  BY TypeInit
<1>2. Locks
  BY IdleIsTxn, NamesAssumption DEF Init, Locks, PostHeld, ApprovalHeld, Holds
<1>3. RowInv
  BY DEF Init, RowInv, Rows, Verdict, DecisionMatchesPost, PublishedWasApproved,
         EditsOnlyPublished
<1>4. QED
  BY <1>1, <1>2, <1>3 DEF IInv, RowInv

(* Every step keeps it.                                                    *)
LEMMA IInvNext == IInv /\ [Next]_vars => IInv'
<1> SUFFICES ASSUME TypeOK, Locks, RowInv, [Next]_vars PROVE TypeOK' /\ Locks' /\ RowInv'
  BY DEF IInv, RowInv
<1> USE DEF policyVars, rowVars, lockVars
<1>1. CASE SetPolicy \/ SetApprovers \/ UNCHANGED vars
  <2>1. UNCHANGED <<rowVars, lockVars, txn>>
    BY <1>1 DEF SetPolicy, SetApprovers, vars
  <2>2. TypeOK'
    BY <1>1 DEF SetPolicy, SetApprovers, vars, TypeOK
  <2>3. Locks'
    BY <2>1 DEF Locks, PostHeld, ApprovalHeld, Holds, Matches, ReviewMatches, EditMatches,
                Live, RemoinOf
  <2>4. QED
    BY <2>1, <2>2, <2>3, SameRows
<1>2. ASSUME NEW s \in Session, BeginRequest(s) PROVE TypeOK' /\ Locks' /\ RowInv'
  <2>1. UNCHANGED rowVars
    BY <1>2 DEF BeginRequest, BeginCreate, BeginUnremoin, BeginEdit, BeginDelete,
                BeginModerate, BeginReview, BeginUpdate, Begin
  <2>2. QED
    BY <1>2, <2>1, BeginType, BeginRequestLocks, SameRows
<1>3. ASSUME NEW s \in Session, Rollback(s) PROVE TypeOK' /\ Locks' /\ RowInv'
  <2>1. TypeOK'
    BY <1>3, FinishType DEF Rollback, TypeOK
  <2>2. QED
    BY <1>3, <2>1, RollbackLocks, SameRows DEF Rollback
<1>4. ASSUME NEW s \in Session, Run(s) PROVE TypeOK' /\ Locks' /\ RowInv'
  <2>1. TypeOK'
    BY <1>4, RunType
  <2>2. CASE CreateRefused(s) \/ ReviewRefused(s) \/ NothingUpdated(s) \/ BreakDeadlock(s)
    BY <1>3, <2>2 DEF CreateRefused, ReviewRefused, NothingUpdated, BreakDeadlock
  <2>3. CASE \/ CheckRemoin(s) \/ ReadPolicy(s) \/ LockApproval(s) \/ StartUpdate(s)
             \/ EndUpdate(s) \/ (\E p \in Post : LockRow(s, p)) \/ Cancel(s)
    <3>1. UNCHANGED rowVars
      BY <2>3 DEF CheckRemoin, ReadPolicy, LockApproval, StartUpdate, EndUpdate, LockRow,
                  Cancel
    <3>2. QED
      BY <2>1, <2>3, <3>1, MoveLocks, SameRows
  <2>4. CASE \/ \E p \in Post : Insert(s, p)
             \/ CommitReview(s) \/ CommitEdit(s) \/ CommitDelete(s)
    <3>1. Rows
      BY DEF RowInv
    <3>2. QED
      BY <2>1, <2>4, <3>1, CommitLocks, CommitRows
  <2>5. QED
    BY <1>4, <2>2, <2>3, <2>4 DEF Run
<1>5. QED
  BY <1>1, <1>2, <1>3, <1>4 DEF Next, Fail

(* So it always holds.                                                     *)
LEMMA Inductive == Spec => []IInv
  BY IInvInit, IInvNext, PTL DEF Spec

(* A decision and its Moin never disagree, and the decision event is       *)
(* recorded exactly when the decision is.                                  *)
THEOREM DecisionsMatchPosts == Spec => []DecisionMatchesPost
<1>1. IInv => DecisionMatchesPost
  BY DEF IInv
<1>2. QED
  BY <1>1, Inductive, PTL

(* Nothing that needed an approval becomes public or is announced without  *)
(* the approval of somebody other than its author.                         *)
THEOREM NothingPublishedUnapproved == Spec => []PublishedWasApproved
<1>1. IInv => PublishedWasApproved
  BY DEF IInv
<1>2. QED
  BY <1>1, Inductive, PTL

(* An edit reaches neither a Moin under review nor a deleted one.          *)
THEOREM OnlyPublishedIsEdited == Spec => []EditsOnlyPublished
<1>1. IInv => EditsOnlyPublished
  BY DEF IInv
<1>2. QED
  BY <1>1, Inductive, PTL

(* A decision is never taken back, and a deleted Moin never returns.       *)
THEOREM DecisionsAreFinal == Spec => Final
<1> DEFINE Keeps ==
      \A p \in Post : /\ approval[p] \in Verdict \cup {"cancelled"}
                         => UNCHANGED <<approval[p], reviewer[p]>>
                      /\ post[p] = "deleted" => post'[p] = "deleted"
<1>1. IInv /\ [Next]_vars => Keeps
  <2> SUFFICES ASSUME IInv, [Next]_vars PROVE Keeps
    OBVIOUS
  <2>0. TypeOK /\ Locks /\ Rows
    BY DEF IInv
  <2>1. ASSUME UNCHANGED rowVars PROVE Keeps
    BY <2>1 DEF rowVars
  <2>2. ASSUME NEW s \in Session, NEW p \in Post, Insert(s, p) PROVE Keeps
    BY <2>0, <2>2 DEF Insert, Rows, TypeOK, Verdict
  <2>3. ASSUME NEW s \in Session, CommitReview(s) PROVE Keeps
    <3> DEFINE p == txn[s].post
    <3>1. p \in Post /\ post[p] = "pending_approval" /\ approval[p] = "pending"
      BY <2>0, <2>3, ReviewFinds
    <3>2. \A q \in Post \ {p} : UNCHANGED <<post[q], approval[q], reviewer[q]>>
      BY <2>0, <2>3 DEF CommitReview, TypeOK
    <3>3. QED
      BY <3>1, <3>2 DEF Verdict
  <2>4. ASSUME NEW s \in Session, CommitEdit(s) PROVE Keeps
    BY <2>4 DEF CommitEdit
  <2>5. ASSUME NEW s \in Session, CommitDelete(s) PROVE Keeps
    BY <2>0, <2>5, DeleteFinds DEF CommitDelete, Verdict
  <2>6. ASSUME NEW s \in Session, BeginRequest(s) \/ Run(s) \/ Fail(s) PROVE Keeps
    <3>1. CASE \/ CreateRefused(s) \/ ReviewRefused(s) \/ NothingUpdated(s)
               \/ BreakDeadlock(s) \/ Fail(s)
      BY <2>1, <3>1 DEF CreateRefused, ReviewRefused, NothingUpdated, BreakDeadlock, Fail,
                        Rollback
    <3>2. CASE \/ CheckRemoin(s) \/ ReadPolicy(s) \/ LockApproval(s) \/ StartUpdate(s)
               \/ EndUpdate(s) \/ (\E p \in Post : LockRow(s, p)) \/ Cancel(s)
      BY <2>1, <3>2 DEF CheckRemoin, ReadPolicy, LockApproval, StartUpdate, EndUpdate,
                        LockRow, Cancel
    <3>3. CASE BeginRequest(s)
      BY <2>1, <3>3 DEF BeginRequest, BeginCreate, BeginUnremoin, BeginEdit, BeginDelete,
                        BeginModerate, BeginReview, BeginUpdate, Begin
    <3>4. QED
      BY <2>2, <2>3, <2>4, <2>5, <2>6, <3>1, <3>2, <3>3 DEF Run
  <2>7. QED
    BY <2>1, <2>6 DEF Next, SetPolicy, SetApprovers, vars
<1>2. QED
  BY <1>1, Inductive, PTL DEF Spec, Final
=============================================================================

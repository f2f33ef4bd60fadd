-------------------------- MODULE OperationsProofs --------------------------
(***************************************************************************)
(* What the outbox (Outbox), the rights of principals (Authority) and the  *)
(* settings cache (SettingCache) guarantee for every number of events,     *)
(* workers, users, roles, requests and instances and every value of their  *)
(* limits.                                                                 *)
(***************************************************************************)
EXTENDS MCOperations, FiniteSetTheorems, TLAPS

(* Every state of the outbox is well typed, workers of any speed: in       *)
(* particular no backoff written by MarkFailed exceeds MaxBackoff.         *)
THEOREM OutboxTypes == Spec => []TypeOK
<1> USE NamesAssumption, LimitsAssumption, LeaseAssumption
<1>1. Init => TypeOK
  BY DEF Init, TypeOK, Status, Busy, InHandler, Outside, Late
<1>2. TypeOK /\ [Next]_vars => TypeOK'
  <2> SUFFICES ASSUME TypeOK, [Next]_vars PROVE TypeOK'
    OBVIOUS
  <2> USE DEF TypeOK, Busy, InHandler, Outside, Late
  <2>1. ASSUME NEW e \in Event, Enqueue(e) PROVE TypeOK'
    BY <2>1 DEF Enqueue, Status, workVars
  <2>2. ASSUME NEW e \in Event, RetryDeadLetter(e) PROVE TypeOK'
    BY <2>2 DEF RetryDeadLetter, Status, workVars
  <2>3. ASSUME NEW e \in Event, Purge(e) PROVE TypeOK'
    BY <2>3 DEF Purge, Status, workVars
  <2>4. ASSUME NEW w \in Worker, NEW e \in Event, Claim(w, e) PROVE TypeOK'
    BY <2>4 DEF Claim, Returned, LockRow
  <2>5. ASSUME NEW w \in Worker, NEW e \in Event, ClaimLost(w, e) PROVE TypeOK'
    BY <2>5 DEF ClaimLost, LockRow, workVars
  <2>6. ASSUME NEW w \in Worker, Start(w) PROVE TypeOK'
    BY <2>6 DEF Start, rowVars
  <2>7. ASSUME NEW w \in Worker, Apply(w) PROVE TypeOK'
    BY <2>7 DEF Apply, rowVars
  <2>8. ASSUME NEW w \in Worker, Succeed(w) PROVE TypeOK'
    BY <2>8 DEF Succeed, rowVars
  <2>9. ASSUME NEW w \in Worker, Fail(w) PROVE TypeOK'
    BY <2>9 DEF Fail, rowVars
  <2>10. ASSUME NEW w \in Worker, MarkDelivered(w) PROVE TypeOK'
    BY <2>10 DEF MarkDelivered, Unlock, ToIdle, Status
  <2>11. ASSUME NEW w \in Worker, MarkFailed(w) PROVE TypeOK'
    <3>1. Backoff(seen[w]) \in 0..MaxBackoff
      BY DEF Backoff
    <3>2. QED
      BY <2>11, <3>1 DEF MarkFailed, Unlock, ToIdle, Status
  <2>12. ASSUME NEW w \in Worker, LeaseLost(w) PROVE TypeOK'
    BY <2>12 DEF LeaseLost, ToIdle, rowVars
  <2>13. ASSUME NEW w \in Worker, MarkError(w) PROVE TypeOK'
    BY <2>13 DEF MarkError, ToIdle, rowVars
  <2>14. ASSUME NEW w \in Worker, Crash(w) PROVE TypeOK'
    BY <2>14 DEF Crash, rowVars
  <2>15. ASSUME NEW w \in Worker, Restart(w) PROVE TypeOK'
    BY <2>15 DEF Restart, ToIdle, rowVars
  <2>16. ASSUME Tick PROVE TypeOK'
    BY <2>16 DEF Tick
  <2>17. CASE UNCHANGED vars
    BY <2>17 DEF vars, rowVars, workVars
  <2>18. QED
    BY <2>1, <2>2, <2>3, <2>4, <2>5, <2>6, <2>7, <2>8, <2>9, <2>10, <2>11,
       <2>12, <2>13, <2>14, <2>15, <2>16, <2>17
       DEF Next, Step, RowStep, WorkStep
<1>3. QED
  BY <1>1, <1>2, PTL DEF Spec

-----------------------------------------------------------------------------
(* The fence.  A row that is not pending has no lock; a worker whose name  *)
(* is on the lock of the row in its hand took the last claim of that row,  *)
(* so the attempts it was given are the row's; a dead letter has used up   *)
(* its attempts; what is settled or about to be settled was applied; and   *)
(* only a recorded event is worked on.                                     *)
Fence ==
    /\ \A e \in Event : status[e] # "pending" => lockedBy[e] = NoWorker
    /\ \A w \in Worker : \A e \in Event :
         (item[w] = e /\ lockedBy[e] = w) => seen[w] = attempts[e]
    /\ DeadIsExhausted
    /\ DeliveredWasApplied
    /\ \A w \in Worker : pc[w] \in {"applied", "succeeded"} => applied[item[w]]
    /\ \A w \in Worker : pc[w] \in Busy => seen[w] > 0 /\ status[item[w]] # "absent"

(* Every step of a worker, a retention sweep or an administrator keeps the *)
(* facts about attempts and leases that Fence collects.                    *)
LEMMA FenceStep == TypeOK /\ Fence /\ [Next]_vars => Fence'
<1> USE NamesAssumption
<1> SUFFICES ASSUME TypeOK, Fence, [Next]_vars PROVE Fence'
  OBVIOUS
<1> USE DEF TypeOK, Fence, DeadIsExhausted, DeliveredWasApplied,
            Busy, InHandler, Outside, Status
<1>1. ASSUME NEW e \in Event, Enqueue(e) PROVE Fence'
  BY <1>1 DEF Enqueue, workVars
<1>2. ASSUME NEW e \in Event, RetryDeadLetter(e) PROVE Fence'
  BY <1>2 DEF RetryDeadLetter, workVars
<1>3. ASSUME NEW e \in Event, Purge(e) PROVE Fence'
  BY <1>3 DEF Purge, workVars
<1>4. ASSUME NEW w \in Worker, NEW e \in Event, Claim(w, e) PROVE Fence'
  BY <1>4 DEF Claim, Returned, LockRow, Claimable
<1>5. ASSUME NEW w \in Worker, NEW e \in Event, ClaimLost(w, e) PROVE Fence'
  BY <1>5 DEF ClaimLost, LockRow, Claimable, workVars
<1>6. ASSUME NEW w \in Worker, Start(w) PROVE Fence'
  BY <1>6 DEF Start, rowVars
<1>7. ASSUME NEW w \in Worker, Apply(w) PROVE Fence'
  BY <1>7 DEF Apply, rowVars
<1>8. ASSUME NEW w \in Worker, Succeed(w) PROVE Fence'
  BY <1>8 DEF Succeed, rowVars
<1>9. ASSUME NEW w \in Worker, Fail(w) PROVE Fence'
  BY <1>9 DEF Fail, rowVars
<1>10. ASSUME NEW w \in Worker, MarkDelivered(w) PROVE Fence'
  BY <1>10 DEF MarkDelivered, HoldsLease, Unlock, ToIdle
<1>11. ASSUME NEW w \in Worker, MarkFailed(w) PROVE Fence'
  BY <1>11 DEF MarkFailed, HoldsLease, Unlock, ToIdle
<1>12. ASSUME NEW w \in Worker, LeaseLost(w) PROVE Fence'
  BY <1>12 DEF LeaseLost, ToIdle, rowVars
<1>13. ASSUME NEW w \in Worker, MarkError(w) PROVE Fence'
  BY <1>13 DEF MarkError, ToIdle, rowVars
<1>14. ASSUME NEW w \in Worker, Crash(w) PROVE Fence'
  BY <1>14 DEF Crash, rowVars
<1>15. ASSUME NEW w \in Worker, Restart(w) PROVE Fence'
  BY <1>15 DEF Restart, ToIdle, rowVars
<1>16. ASSUME Tick PROVE Fence'
  BY <1>16 DEF Tick
<1>17. CASE UNCHANGED vars
  BY <1>17 DEF vars, rowVars, workVars
<1>18. QED
  BY <1>1, <1>2, <1>3, <1>4, <1>5, <1>6, <1>7, <1>8, <1>9, <1>10, <1>11,
     <1>12, <1>13, <1>14, <1>15, <1>16, <1>17
     DEF Next, Step, RowStep, WorkStep

(* Fence holds in every reachable state: what the claim, the handler and   *)
(* the fenced updates of event/repository.go maintain between them.        *)
LEMMA Fenced == Spec => []Fence
<1>1. Init => Fence
  BY NamesAssumption DEF Init, Fence, DeadIsExhausted, DeliveredWasApplied,
                         Busy, InHandler, Outside
<1>2. QED
  BY <1>1, FenceStep, OutboxTypes, PTL DEF Spec

(* However late a worker is, a dead letter has really been attempted       *)
(* MaxAttempts times in its current round.                                 *)
THEOREM DeadLettersAreExhausted == Spec => []DeadIsExhausted
<1>1. Fence => DeadIsExhausted
  BY DEF Fence
<1>2. QED
  BY <1>1, Fenced, PTL

(* However late a worker is, what is marked delivered has been applied.    *)
THEOREM DeliveredIsApplied == Spec => []DeliveredWasApplied
<1>1. Fence => DeliveredWasApplied
  BY DEF Fence
<1>2. QED
  BY <1>1, Fenced, PTL

(* Parking and backoff agree with the row's own count, although the worker *)
(* that decides has only a copy of it: the lock ties the copy to the row   *)
(* (Fence), and only the holder of the lock can give it up.                *)
THEOREM VerdictsMatchCounts == Spec => VerdictMatchesCount
<1> DEFINE A == \A e \in Event :
         status[e] = "pending" /\ lockedBy[e] # NoWorker /\ lockedBy'[e] = NoWorker =>
             \/ status'[e] = "delivered"
             \/ attempts[e] >= MaxAttempts /\ status'[e] = "dead"
             \/ /\ attempts[e] < MaxAttempts
                /\ status'[e] = "pending" /\ wait'[e] = Backoff(attempts[e])
<1>1. TypeOK /\ Fence /\ Next => A
  <2> SUFFICES ASSUME TypeOK, Fence, Next PROVE A
    OBVIOUS
  <2>1. ASSUME RowStep PROVE A
    BY <2>1 DEF TypeOK, RowStep, Enqueue, RetryDeadLetter, Purge
  <2>2. ASSUME NEW w \in Worker, MarkDelivered(w) PROVE A
    BY <2>2 DEF TypeOK, MarkDelivered, HoldsLease, Unlock, Busy, InHandler, Outside
  <2>3. ASSUME NEW w \in Worker, MarkFailed(w) PROVE A
    <3>1. item[w] \in Event /\ lockedBy[item[w]] = w /\ status[item[w]] = "pending"
      BY <2>3 DEF TypeOK, MarkFailed, HoldsLease, Busy, InHandler, Outside
    <3>2. seen[w] = attempts[item[w]]
      BY <3>1 DEF Fence
    <3>3. \A e \in Event \ {item[w]} : lockedBy'[e] = lockedBy[e]
      BY <2>3, <3>1 DEF TypeOK, MarkFailed, Unlock
    <3>4. CASE seen[w] >= MaxAttempts
      BY <2>3, <3>1, <3>2, <3>3, <3>4 DEF TypeOK, MarkFailed
    <3>5. CASE ~(seen[w] >= MaxAttempts)
      <4>1. attempts[item[w]] < MaxAttempts
        BY <3>1, <3>2, <3>5, LimitsAssumption DEF TypeOK
      <4>2. status' = status /\ wait'[item[w]] = Backoff(attempts[item[w]])
        BY <2>3, <3>1, <3>2, <3>5 DEF TypeOK, MarkFailed
      <4>3. QED
        BY <3>1, <3>3, <4>1, <4>2
    <3>6. QED
      BY <3>4, <3>5
  <2>4. ASSUME NEW w \in Worker, WorkStep(w), ~MarkDelivered(w), ~MarkFailed(w)
        PROVE A
    BY <2>4, NamesAssumption
       DEF TypeOK, WorkStep, Claim, ClaimLost, LockRow, Start, Apply, Succeed, Fail,
           LeaseLost, MarkError, Crash, Restart, rowVars
  <2>5. ASSUME Tick PROVE A
    BY <2>5 DEF Tick
  <2>6. QED
    BY <2>1, <2>2, <2>3, <2>4, <2>5 DEF Next, Step
<1>2. TypeOK /\ Fence /\ [Next]_vars => [A]_vars
  BY <1>1
<1>3. QED
  BY <1>2, OutboxTypes, Fenced, PTL DEF Spec, VerdictMatchesCount

-----------------------------------------------------------------------------
(* The table and its workers implement the abstract promise of             *)
(* EventDelivery: what a claim, a handler run, a mark, a retry and the     *)
(* retention rule do to a row is one abstract step or none.                *)
THEOREM OutboxImplementsDelivery == Spec => ImplementsDelivery
<1> USE NamesAssumption
<1>1. Init => Delivery!Init
  BY DEF Init, Delivery!Init
<1>2. TypeOK /\ Fence /\ [Next]_vars => [Delivery!Next]_(Delivery!edVars)
  <2> SUFFICES ASSUME TypeOK, Fence, [Next]_vars
               PROVE [Delivery!Next]_(Delivery!edVars)
    OBVIOUS
  <2> USE DEF Delivery!edVars
  <2>1. ASSUME NEW e \in Event, Enqueue(e) PROVE Delivery!Next
    BY <2>1 DEF Enqueue, Delivery!Next, Delivery!Record
  <2>2. ASSUME NEW e \in Event, RetryDeadLetter(e) PROVE Delivery!Next
    BY <2>2 DEF RetryDeadLetter, Delivery!Next, Delivery!Retry
  <2>3. ASSUME NEW e \in Event, Purge(e) PROVE Delivery!Next
    BY <2>3 DEF Purge, Delivery!Next, Delivery!Forget
  <2>4. ASSUME NEW w \in Worker, NEW e \in Event, Claim(w, e) \/ ClaimLost(w, e)
        PROVE Delivery!Next
    BY <2>4 DEF Claim, ClaimLost, LockRow, Claimable, Delivery!Next, Delivery!Attempt
  <2>5. ASSUME NEW w \in Worker, Apply(w) PROVE Delivery!Next
    <3>1. item[w] \in Event /\ status[item[w]] # "absent"
      BY <2>5 DEF Apply, TypeOK, Fence, Busy, InHandler, Outside
    <3>2. Delivery!Apply(item[w])
      BY <2>5, <3>1 DEF Apply, rowVars, Delivery!Apply
    <3>3. QED
      BY <3>1, <3>2 DEF Delivery!Next
  <2>6. ASSUME NEW w \in Worker, MarkDelivered(w) PROVE Delivery!Next
    <3>1. /\ item[w] \in Event /\ applied[item[w]]
          /\ seen[w] = attempts[item[w]] /\ seen[w] > 0
      BY <2>6 DEF MarkDelivered, HoldsLease, TypeOK, Fence, Busy, InHandler, Outside
    <3>2. Delivery!Deliver(item[w])
      BY <2>6, <3>1 DEF MarkDelivered, HoldsLease, Delivery!Deliver
    <3>3. QED
      BY <3>1, <3>2 DEF Delivery!Next
  <2>7. ASSUME NEW w \in Worker, MarkFailed(w)
        PROVE Delivery!Next \/ UNCHANGED Delivery!edVars
    <3>1. item[w] \in Event /\ seen[w] = attempts[item[w]]
      BY <2>7 DEF MarkFailed, HoldsLease, TypeOK, Fence, Busy, InHandler, Outside
    <3>2. CASE seen[w] >= MaxAttempts
      <4>1. Delivery!Park(item[w])
        BY <2>7, <3>1, <3>2 DEF MarkFailed, HoldsLease, Delivery!Park
      <4>2. QED
        BY <3>1, <4>1 DEF Delivery!Next
    <3>3. CASE ~(seen[w] >= MaxAttempts)
      BY <2>7, <3>3 DEF MarkFailed
    <3>4. QED
      BY <3>2, <3>3
  <2>8. ASSUME NEW w \in Worker,
               \/ Start(w) \/ Succeed(w) \/ Fail(w) \/ LeaseLost(w)
               \/ MarkError(w) \/ Crash(w) \/ Restart(w)
        PROVE UNCHANGED Delivery!edVars
    BY <2>8 DEF Start, Succeed, Fail, LeaseLost, MarkError, Crash, Restart, rowVars
  <2>9. ASSUME Tick PROVE UNCHANGED Delivery!edVars
    BY <2>9 DEF Tick
  <2>10. CASE UNCHANGED vars
    BY <2>10 DEF vars, rowVars
  <2>11. QED
    BY <2>1, <2>2, <2>3, <2>4, <2>5, <2>6, <2>7, <2>8, <2>9, <2>10
       DEF Next, Step, RowStep, WorkStep
<1>3. QED
  BY <1>1, <1>2, OutboxTypes, Fenced, PTL DEF Spec, ImplementsDelivery, Delivery!Spec

-----------------------------------------------------------------------------
(* The lease.  A worker that has a row in hand and did not oversleep has   *)
(* the lock on it, no older than the time that the worker spent.           *)
LeaseHeld ==
    \A w \in Worker : (pc[w] \in Busy /\ slack[w] < Late) =>
        /\ lockedBy[item[w]] = w
        /\ lockAge[item[w]] <= slack[w] + elapsed[w]
        /\ pc[w] = "claimed" => elapsed[w] = 0

(* No step takes the lock of a row from a worker that has it in hand and   *)
(* did not oversleep.                                                      *)
LEMMA LeaseStep == TypeOK /\ Fence /\ LeaseHeld /\ [Next]_vars => LeaseHeld'
<1> USE NamesAssumption, LeaseAssumption
<1> SUFFICES ASSUME TypeOK, Fence, LeaseHeld, [Next]_vars PROVE LeaseHeld'
  OBVIOUS
<1> USE DEF TypeOK, LeaseHeld, Busy, InHandler, Outside, Late
<1>0. \A e \in Event : status[e] # "pending" => lockedBy[e] = NoWorker
  BY DEF Fence
<1>1. ASSUME NEW e \in Event, Enqueue(e) PROVE LeaseHeld'
  BY <1>1 DEF Enqueue, workVars
<1>2. ASSUME NEW e \in Event, RetryDeadLetter(e) PROVE LeaseHeld'
  BY <1>0, <1>2 DEF RetryDeadLetter, workVars
<1>3. ASSUME NEW e \in Event, Purge(e) PROVE LeaseHeld'
  BY <1>3 DEF Purge, workVars
<1>a. ASSUME NEW w \in Worker, NEW e \in Event, Claimable(e), pc[w] \in Busy,
             slack[w] < Late
      PROVE item[w] # e
  BY <1>a DEF Claimable
<1>4. ASSUME NEW w \in Worker, NEW e \in Event, Claim(w, e) PROVE LeaseHeld'
  BY <1>4, <1>a DEF Claim, Returned, LockRow
<1>5. ASSUME NEW w \in Worker, NEW e \in Event, ClaimLost(w, e) PROVE LeaseHeld'
  BY <1>5, <1>a DEF ClaimLost, LockRow, workVars
<1>6. ASSUME NEW w \in Worker, Start(w) PROVE LeaseHeld'
  BY <1>6 DEF Start, rowVars
<1>7. ASSUME NEW w \in Worker, Apply(w) PROVE LeaseHeld'
  BY <1>7 DEF Apply, rowVars
<1>8. ASSUME NEW w \in Worker, Succeed(w) PROVE LeaseHeld'
  BY <1>8 DEF Succeed, rowVars
<1>9. ASSUME NEW w \in Worker, Fail(w) PROVE LeaseHeld'
  BY <1>9 DEF Fail, rowVars
<1>b. ASSUME NEW v \in Worker, NEW w \in Worker, v # w,
             pc[v] \in Busy, pc[w] \in Busy, slack[v] < Late, slack[w] < Late
      PROVE item[v] # item[w]
  BY <1>b
<1>10. ASSUME NEW w \in Worker, MarkDelivered(w) PROVE LeaseHeld'
  BY <1>10, <1>b DEF MarkDelivered, HoldsLease, Unlock, ToIdle
<1>11. ASSUME NEW w \in Worker, MarkFailed(w) PROVE LeaseHeld'
  BY <1>11, <1>b DEF MarkFailed, HoldsLease, Unlock, ToIdle
<1>12. ASSUME NEW w \in Worker, LeaseLost(w) PROVE LeaseHeld'
  BY <1>12 DEF LeaseLost, ToIdle, rowVars
<1>13. ASSUME NEW w \in Worker, MarkError(w) PROVE LeaseHeld'
  BY <1>13 DEF MarkError, ToIdle, rowVars
<1>14. ASSUME NEW w \in Worker, Crash(w) PROVE LeaseHeld'
  BY <1>14 DEF Crash, rowVars
<1>15. ASSUME NEW w \in Worker, Restart(w) PROVE LeaseHeld'
  BY <1>15 DEF Restart, ToIdle, rowVars
<1>16. ASSUME Tick PROVE LeaseHeld'
  BY <1>16 DEF Tick
<1>17. CASE UNCHANGED vars
  BY <1>17 DEF vars, rowVars, workVars
<1>18. QED
  BY <1>1, <1>2, <1>3, <1>4, <1>5, <1>6, <1>7, <1>8, <1>9, <1>10, <1>11,
     <1>12, <1>13, <1>14, <1>15, <1>16, <1>17
     DEF Next, Step, RowStep, WorkStep

(* Two workers have the same event in hand only if one of them overslept:  *)
(* every lease outlives the work done under it.                            *)
THEOREM HandlingIsExclusive == Spec => []ExclusiveHandling
<1>1. Init => LeaseHeld
  BY DEF Init, LeaseHeld, Busy, InHandler, Outside
<1>2. Spec => []LeaseHeld
  BY <1>1, LeaseStep, OutboxTypes, Fenced, PTL DEF Spec
<1>3. TypeOK /\ LeaseHeld => ExclusiveHandling
  BY LeaseAssumption, LimitsAssumption DEF TypeOK, LeaseHeld, ExclusiveHandling, Late
<1>4. QED
  BY <1>2, <1>3, OutboxTypes, PTL

-----------------------------------------------------------------------------
(* The rights of principals.  The steps of Authority, one by one.          *)
LEMMA RightsSteps ==
    ASSUME [Rights!Next]_(Rights!vars)
    PROVE  \/ \E q \in Request, i \in Instance, u \in User, k \in Key \cup {None} :
                  Rights!Authenticate(q, i, u, k)
           \/ \E q \in Request :
                  \/ Rights!Load(q) \/ Rights!Put(q) \/ Rights!Refuse(q)
                  \/ Rights!InvalidateRolePermissions(q)
                  \/ Rights!CanAssignRoles(q) \/ Rights!CountSupers(q)
                  \/ Rights!InsertUser(q) \/ Rights!UpdateUser(q) \/ Rights!AdminWriteKey(q)
           \/ \E q \in Request, r \in Role, perms \in Grants : Rights!PutRoles(q, r, perms)
           \/ \E q \in Request, u \in User, give \in RoleSets \cup {None},
                 on \in BOOLEAN \cup {None} : Rights!StartUpdate(q, u, give, on)
           \/ \E q \in Request, u \in User, give \in RoleSets : Rights!StartCreate(q, u, give)
           \/ \E q \in Request, k \in Key, perms \in Grants :
                  Rights!CreateKey(q, k, perms) \/ Rights!UpdateKey(q, k, perms)
           \/ \E q \in Request, k \in Key :
                  Rights!RotateKey(q, k) \/ Rights!RevokeKey(q, k) \/ Rights!AdminRevokeKey(q, k)
           \/ \E q \in Request, k \in Key, perms \in Grants \cup {None} :
                  Rights!AdminReadKey(q, k, perms)
           \/ \E i \in Instance : Rights!Invalidate(i)
           \/ Rights!Tick
           \/ UNCHANGED Rights!vars
BY DEF Rights!Next, Rights!Authenticating, Rights!Administration, Rights!Keys

(* What roles grant are permissions, and so is what a key leaves of it.    *)
LEMMA Grantings ==
    ASSUME NEW p \in [Role -> SUBSET Rights!Permission], NEW s \in SUBSET (Role \cup {Super})
    PROVE  Rights!Granted(p, s) \in SUBSET Rights!Permission
<1>1. All \in Rights!Permission
  BY DEF Rights!Permission
<1>2. \A r \in s \ {Super} : p[r] \subseteq Rights!Permission
  OBVIOUS
<1>3. ASSUME NEW x \in Rights!Granted(p, s) PROVE x \in Rights!Permission
  <2>1. (\E r \in s \ {Super} : x \in p[r]) \/ x = All
    BY <1>3 DEF Rights!Granted
  <2>2. QED
    BY <1>1, <1>2, <2>1
<1>4. QED
  BY <1>3

(* A key with a scope allows nothing beyond what its user may do.          *)
LEMMA Scopes ==
    ASSUME NEW perms \in SUBSET Rights!Permission,
           NEW scope \in (SUBSET Rights!Permission) \cup {None}
    PROVE  /\ Rights!Scoped(perms, scope) \in SUBSET Rights!Permission
           /\ All \in perms \/ Rights!Scoped(perms, scope) \subseteq perms
<1>1. CASE scope = None
  BY <1>1 DEF Rights!Scoped
<1>2. CASE scope # None
  BY <1>2 DEF Rights!Scoped, Rights!Intersect
<1>3. QED
  BY <1>1, <1>2

(* What the handlers of a request leave behind.                            *)
LEMMA Principals ==
    ASSUME Rights!TypeOK, NEW q \in Request
    PROVE  /\ Rights!Nobody \in Rights!Principal /\ Rights!NoJob \in Rights!Job
           /\ who[q] \in Rights!Principal /\ job[q] \in Rights!Job
           /\ Rights!Begun(q) =>
                  /\ who' \in [Request -> Rights!Principal]
                  /\ who'[q].roles = who[q].roles \cap {Super} /\ who'[q].perms = who[q].perms
                  /\ \A x \in Request : x # q => who'[x] = who[x]
<1>1. /\ Rights!Nobody \in Rights!Principal /\ Rights!NoJob \in Rights!Job
      /\ who[q] \in Rights!Principal /\ job[q] \in Rights!Job
  <2>1. Rights!Nobody \in Rights!Principal
    BY DEF Rights!Nobody, Rights!Principal
  <2>2. Rights!NoJob \in Rights!Job
    BY DEF Rights!NoJob, Rights!Job
  <2>3. QED
    BY <2>1, <2>2 DEF Rights!TypeOK
<1>2. ASSUME Rights!Begun(q)
      PROVE  /\ who' \in [Request -> Rights!Principal]
             /\ who'[q].roles = who[q].roles \cap {Super} /\ who'[q].perms = who[q].perms
             /\ \A x \in Request : x # q => who'[x] = who[x]
  <2> DEFINE n == [Rights!Nobody EXCEPT !.roles = who[q].roles \cap {Super},
                                        !.perms = who[q].perms]
  <2>1. who' = [who EXCEPT ![q] = n]
    BY <1>2 DEF Rights!Begun
  <2>2. n.roles = who[q].roles \cap {Super} /\ n.perms = who[q].perms
    BY DEF Rights!Nobody
  <2>3. n \in Rights!Principal
    BY <1>1 DEF Rights!Nobody, Rights!Principal
  <2> HIDE DEF n
  <2>4. QED
    BY <2>1, <2>2, <2>3 DEF Rights!TypeOK
<1>3. QED
  BY <1>1, <1>2

(* A commit to users or roles crosses every handler that is deciding.      *)
LEMMA Crossings ==
    ASSUME Rights!TypeOK, NEW q \in Request, Rights!Crossing(q)
    PROVE  /\ job' \in [Request -> Rights!Job] /\ job'[q] = Rights!NoJob
           /\ \A x \in Request : x # q =>
                  /\ job'[x].new = job[x].new /\ job'[x].target = job[x].target
                  /\ job'[x].give = job[x].give /\ job'[x].active = job[x].active
                  /\ at[x] \in Rights!Deciding => job'[x].crossed
<1> DEFINE n(x) == [job[x] EXCEPT !.crossed = @ \/ job[x] # Rights!NoJob]
<1>1. job' = [x \in Request |-> IF x = q THEN Rights!NoJob ELSE n(x)]
  BY DEF Rights!Crossing
<1>2. ASSUME NEW x \in Request
      PROVE  /\ n(x) \in Rights!Job /\ n(x).new = job[x].new /\ n(x).target = job[x].target
             /\ n(x).give = job[x].give /\ n(x).active = job[x].active
             /\ n(x).crossed = (job[x].crossed \/ job[x] # Rights!NoJob)
  BY Principals DEF Rights!Job
<1>3. ASSUME NEW x \in Request, at[x] \in Rights!Deciding PROVE job[x] # Rights!NoJob
  BY <1>3, RightsAssumption DEF Rights!TypeOK, Rights!NoJob, Rights!AuthorityConstants
<1> HIDE DEF n
<1>4. QED
  BY <1>1, <1>2, <1>3, Principals

(* Where the steps of one request leave the tables as they are, it is      *)
(* enough to look at what they make of that request.                       *)
LEMMA RequestTypes ==
    ASSUME Rights!TypeOK, NEW q \in Request,
           UNCHANGED <<roles, active, policy, key, cache, clock>>,
           \A x \in Request : x # q => at'[x] = at[x] /\ job'[x] = job[x],
           at' \in [Request -> {"idle", "load", "put", "ready", "notify", "keywrite"}
                                   \cup Rights!Deciding],
           who' \in [Request -> Rights!Principal],
           job' \in [Request -> Rights!Job],
           at'[q] \in Rights!Deciding =>
               /\ job'[q].target \in User
               /\ job'[q].give \in IF job'[q].new THEN RoleSets ELSE RoleSets \cup {None}
               /\ job'[q].new \/ roles[job'[q].target] # {},
           at'[q] = "keywrite" =>
               /\ job'[q].target \in Key /\ key[job'[q].target] # None
               /\ job'[q].give \in SUBSET Rights!Permission
    PROVE  Rights!TypeOK'
BY DEF Rights!TypeOK

(* Every step keeps to the types.                                          *)
LEMMA RightsTypeStep == Rights!TypeOK /\ [Rights!Next]_(Rights!vars) => Rights!TypeOK'
<1> SUFFICES ASSUME Rights!TypeOK, [Rights!Next]_(Rights!vars) PROVE Rights!TypeOK'
  OBVIOUS
<1> DEFINE Places == {"idle", "load", "put", "ready", "notify", "keywrite"} \cup Rights!Deciding
<1> DEFINE KeysKept == /\ key' \in [Key -> Rights!KeyRow \cup {None}]
                       /\ \A k \in Key : key[k] # None => key'[k] # None
<1>0. /\ at \in [Request -> Places] /\ who \in [Request -> Rights!Principal]
      /\ job \in [Request -> Rights!Job] /\ clock \in Nat
      /\ Rights!Nobody \in Rights!Principal /\ Rights!NoJob \in Rights!Job
  <2>1. ASSUME NEW q \in Request
        PROVE Rights!Nobody \in Rights!Principal /\ Rights!NoJob \in Rights!Job
    BY Principals
  <2>2. Rights!Nobody \in Rights!Principal /\ Rights!NoJob \in Rights!Job
    BY DEF Rights!Nobody, Rights!Principal, Rights!NoJob, Rights!Job
  <2>3. QED
    BY <2>2 DEF Rights!TypeOK
<1>k. ASSUME NEW k \in Key, NEW row \in Rights!KeyRow, key' = [key EXCEPT ![k] = row]
      PROVE  KeysKept
  BY <1>k, RightsAssumption DEF Rights!TypeOK, Rights!AuthorityConstants
<1> HIDE DEF KeysKept
<1>w. ASSUME NEW q \in Request, KeysKept, Rights!End(q),
             UNCHANGED <<roles, active, policy, cache, clock>>
      PROVE  Rights!TypeOK'
  <2>1. /\ at' = [at EXCEPT ![q] = "idle"] /\ who' = [who EXCEPT ![q] = Rights!Nobody]
        /\ job' = [job EXCEPT ![q] = Rights!NoJob]
    BY <1>w DEF Rights!End, Rights!Over, Rights!Goto
  <2>2. QED
    BY <1>0, <1>w, <2>1 DEF Rights!TypeOK, Rights!Deciding, KeysKept
<1>1. ASSUME NEW q \in Request, NEW i \in Instance, NEW u \in User, NEW k \in Key \cup {None},
             Rights!Authenticate(q, i, u, k)
      PROVE  Rights!TypeOK'
  <2> DEFINE scope == IF k = None THEN None ELSE key[k].perms
             e == IF Super \in roles[u] THEN [perms |-> {All}, at |-> clock]
                  ELSE cache[i][roles[u]]
             n == [user |-> u, on |-> i, roles |-> roles[u], now |-> clock, scope |-> scope,
                   perms |-> IF Rights!Fresh(e) THEN Rights!Scoped(e.perms, scope) ELSE {}]
  <2>1. /\ active[u] /\ at' = [at EXCEPT ![q] = IF Rights!Fresh(e) THEN "ready" ELSE "load"]
        /\ k # None => key[k] # None
        /\ who' = [who EXCEPT ![q] = n]
        /\ UNCHANGED <<roles, active, policy, key, cache, clock, job>>
    BY <1>1 DEF Rights!Authenticate, Rights!Goto, Rights!tableVars
  <2>2. scope \in (SUBSET Rights!Permission) \cup {None}
    BY <2>1 DEF Rights!TypeOK, Rights!KeyRow
  <2>3. roles[u] \in SUBSET (Role \cup {Super})
    BY RightsAssumption DEF Rights!TypeOK, Rights!AuthorityConstants
  <2>4. Rights!Fresh(e) => e.perms \in SUBSET Rights!Permission
    <3>1. CASE Super \in roles[u]
      BY <3>1 DEF Rights!Permission
    <3>2. CASE Super \notin roles[u]
      <4>1. roles[u] \in Rights!Cached
        BY <2>1, <3>2 DEF Rights!TypeOK, Rights!Cached
      <4>2. cache[i][roles[u]] \in [perms : SUBSET Rights!Permission, at : Nat] \cup {None}
        BY <4>1 DEF Rights!TypeOK
      <4>3. QED
        BY <3>2, <4>2 DEF Rights!Fresh
    <3>3. QED
      BY <3>1, <3>2
  <2> HIDE DEF scope, e
  <2>5. n.perms \in SUBSET Rights!Permission
    BY <2>2, <2>4, Scopes
  <2>6. n \in Rights!Principal
    BY <1>0, <2>2, <2>3, <2>5 DEF Rights!Principal
  <2> HIDE DEF n
  <2>7. /\ at' \in [Request -> Places] /\ who' \in [Request -> Rights!Principal]
        /\ at'[q] \notin Rights!Deciding /\ \A x \in Request : x # q => at'[x] = at[x]
    BY <1>0, <2>1, <2>6 DEF Rights!Deciding
  <2>8. QED
    BY <1>0, <2>1, <2>7, RequestTypes
<1>2. ASSUME NEW q \in Request, Rights!Load(q) PROVE Rights!TypeOK'
  <2>1. Rights!Granted(policy, who[q].roles) \in SUBSET Rights!Permission
    BY <1>0, Grantings DEF Rights!TypeOK, Rights!Principal
  <2>2. who' \in [Request -> Rights!Principal]
    BY <1>0, <1>2, <2>1 DEF Rights!Load, Rights!Principal
  <2>3. QED
    BY <1>0, <1>2, <2>2, RequestTypes DEF Rights!Load, Rights!Goto, Rights!tableVars, Rights!Deciding
<1>3. ASSUME NEW q \in Request, Rights!Put(q) PROVE Rights!TypeOK'
  <2> DEFINE p == who[q]
             e == [perms |-> p.perms, at |-> p.now]
  <2>1. /\ cache' = [cache EXCEPT ![p.on][p.roles] = e]
        /\ who' = [who EXCEPT ![q].perms = Rights!Scoped(p.perms, p.scope)]
        /\ at' = [at EXCEPT ![q] = "ready"]
        /\ UNCHANGED <<roles, active, policy, key, clock, job>>
    BY <1>3 DEF Rights!Put, Rights!Goto, Rights!tableVars
  <2>2. p.perms \in SUBSET Rights!Permission /\ p.now \in Nat
        /\ p.scope \in (SUBSET Rights!Permission) \cup {None}
    BY <1>0 DEF Rights!Principal
  <2>3. Rights!Scoped(p.perms, p.scope) \in SUBSET Rights!Permission
    BY <2>2, Scopes
  <2>4. who' \in [Request -> Rights!Principal]
    BY <1>0, <2>1, <2>3 DEF Rights!Principal
  <2>5. e \in [perms : SUBSET Rights!Permission, at : Nat]
    BY <2>2
  <2> HIDE DEF e
  <2>6. cache' \in [Instance -> [Rights!Cached ->
                        [perms : SUBSET Rights!Permission, at : Nat] \cup {None}]]
    BY <2>1, <2>5 DEF Rights!TypeOK
  <2>7. QED
    BY <1>0, <2>1, <2>4, <2>6 DEF Rights!TypeOK, Rights!Deciding
<1>4. ASSUME NEW q \in Request, Rights!Refuse(q) PROVE Rights!TypeOK'
  BY <1>0, <1>4, RequestTypes DEF Rights!Refuse, Rights!End, Rights!Over, Rights!Goto,
     Rights!tableVars, Rights!Deciding
<1>5. ASSUME NEW q \in Request, Rights!InvalidateRolePermissions(q) PROVE Rights!TypeOK'
  <2>1. /\ cache' = [cache EXCEPT ![who[q].on] = Rights!Empty]
        /\ at' = [at EXCEPT ![q] = "idle"] /\ who' = [who EXCEPT ![q] = Rights!Nobody]
        /\ job' = [job EXCEPT ![q] = Rights!NoJob]
        /\ UNCHANGED <<roles, active, policy, key, clock>>
    BY <1>5 DEF Rights!InvalidateRolePermissions, Rights!End, Rights!Over, Rights!Goto,
                Rights!tableVars
  <2>2. QED
    BY <1>0, <2>1 DEF Rights!TypeOK, Rights!Empty, Rights!Deciding
<1>6. ASSUME NEW q \in Request, Rights!CanAssignRoles(q) \/ Rights!CountSupers(q)
      PROVE  Rights!TypeOK'
  BY <1>0, <1>6, RequestTypes DEF Rights!CanAssignRoles, Rights!CountSupers, Rights!Goto,
     Rights!tableVars, Rights!Deciding, Rights!TypeOK
<1>7. ASSUME NEW q \in Request, Rights!InsertUser(q) \/ Rights!UpdateUser(q)
      PROVE  Rights!TypeOK'
  <2>1. /\ roles' \in [User -> RoleSets \cup {{}}] /\ active' \in [User -> BOOLEAN]
        /\ \A u \in User : active'[u] => roles'[u] # {}
        /\ \A u \in User : roles[u] # {} => roles'[u] # {}
        /\ UNCHANGED <<policy, key, cache, clock>>
    <3>1. CASE Rights!InsertUser(q)
      <4>1. job[q].target \in User /\ job[q].give \in RoleSets /\ job[q].give # {}
        <5>1. at[q] \in Rights!Deciding /\ job[q].new
          BY <3>1 DEF Rights!InsertUser, Rights!Deciding
        <5>2. job[q].target \in User /\ job[q].give \in RoleSets
          BY <5>1 DEF Rights!TypeOK
        <5>3. QED
          BY <5>2, RightsAssumption DEF Rights!AuthorityConstants
      <4>2. QED
        BY <3>1, <4>1 DEF Rights!InsertUser, Rights!TypeOK
    <3>2. CASE Rights!UpdateUser(q)
      <4>1. /\ job[q].target \in User /\ job[q].give \in RoleSets \cup {None}
            /\ job[q].active \in BOOLEAN \cup {None}
            /\ roles[job[q].target] # {} /\ {} \notin RoleSets
        BY <1>0, <3>2, RightsAssumption DEF Rights!UpdateUser, Rights!TypeOK, Rights!Deciding,
           Rights!Job, Rights!AuthorityConstants
      <4>2. QED
        BY <3>2, <4>1 DEF Rights!UpdateUser, Rights!TypeOK
    <3>3. QED
      BY <1>7, <3>1, <3>2
  <2>2. /\ at' = [at EXCEPT ![q] = "idle"] /\ who' = [who EXCEPT ![q] = Rights!Nobody]
        /\ Rights!Crossing(q)
    BY <1>7 DEF Rights!InsertUser, Rights!UpdateUser, Rights!Over, Rights!Goto
  <2>3. /\ job' \in [Request -> Rights!Job]
        /\ \A x \in Request : x # q => /\ job'[x].new = job[x].new
                                      /\ job'[x].target = job[x].target
                                      /\ job'[x].give = job[x].give
    BY <2>2, Crossings
  <2>4. QED
    BY <1>0, <2>1, <2>2, <2>3 DEF Rights!TypeOK, Rights!Deciding
<1>8. ASSUME NEW q \in Request, Rights!AdminWriteKey(q) PROVE Rights!TypeOK'
  <2> DEFINE k == job[q].target
             row == [key[k] EXCEPT !.perms = job[q].give]
  <2>1. /\ key' = [key EXCEPT ![k] = row] /\ at[q] = "keywrite" /\ Rights!End(q)
        /\ UNCHANGED <<roles, active, policy, cache, clock>>
    BY <1>8 DEF Rights!AdminWriteKey
  <2>2. k \in Key /\ key[k] \in Rights!KeyRow /\ job[q].give \in SUBSET Rights!Permission
    BY <2>1 DEF Rights!TypeOK
  <2>3. row \in Rights!KeyRow
    BY <2>2 DEF Rights!KeyRow
  <2> HIDE DEF k, row
  <2>4. QED
    BY <1>k, <1>w, <2>1, <2>2, <2>3
<1>9. ASSUME NEW q \in Request, NEW r \in Role, NEW perms \in Grants, Rights!PutRoles(q, r, perms)
      PROVE  Rights!TypeOK'
  <2>1. /\ policy' = [policy EXCEPT ![r] = perms] /\ Rights!Crossing(q)
        /\ at' = [at EXCEPT ![q] = "notify"]
        /\ who' = [who EXCEPT ![q] = [Rights!Nobody EXCEPT !.on = who[q].on]]
        /\ UNCHANGED <<roles, active, key, cache, clock>>
    BY <1>9 DEF Rights!PutRoles, Rights!Goto
  <2>2. perms \in SUBSET Rights!Permission
    BY DEF Rights!Permission
  <2>3. [Rights!Nobody EXCEPT !.on = who[q].on] \in Rights!Principal
    BY <1>0 DEF Rights!Principal
  <2>4. /\ job' \in [Request -> Rights!Job]
        /\ \A x \in Request : x # q => /\ job'[x].new = job[x].new
                                      /\ job'[x].target = job[x].target
                                      /\ job'[x].give = job[x].give
    BY <2>1, Crossings
  <2>5. policy' \in [Role -> SUBSET Rights!Permission]
    BY <2>1, <2>2 DEF Rights!TypeOK
  <2>6. who' \in [Request -> Rights!Principal]
    BY <1>0, <2>1, <2>3
  <2>7. QED
    BY <1>0, <2>1, <2>4, <2>5, <2>6 DEF Rights!TypeOK, Rights!Deciding
<1>10. ASSUME NEW q \in Request, NEW u \in User, NEW give \in RoleSets \cup {None},
              NEW on \in BOOLEAN \cup {None}, Rights!StartUpdate(q, u, give, on)
       PROVE  Rights!TypeOK'
  <2> DEFINE n == [new |-> FALSE, target |-> u, give |-> give, active |-> on, crossed |-> FALSE]
  <2>1. /\ job' = [job EXCEPT ![q] = n] /\ Rights!Begun(q) /\ roles[u] # {}
        /\ \E l \in Rights!Deciding : at' = [at EXCEPT ![q] = l]
        /\ UNCHANGED <<roles, active, policy, key, cache, clock>>
    BY <1>10 DEF Rights!StartUpdate, Rights!Goto, Rights!tableVars, Rights!Deciding
  <2>2. n \in Rights!Job /\ n.target = u /\ n.give = give /\ n.new = FALSE
    BY DEF Rights!Job
  <2> HIDE DEF n
  <2>3. who' \in [Request -> Rights!Principal]
    BY <2>1, Principals
  <2>4. /\ \A x \in Request : x # q => at'[x] = at[x] /\ job'[x] = job[x]
        /\ at' \in [Request -> Places] /\ job' \in [Request -> Rights!Job]
        /\ at'[q] # "keywrite" /\ job'[q] = n
    BY <1>0, <2>1, <2>2 DEF Rights!Deciding
  <2>5. QED
    BY <2>1, <2>2, <2>3, <2>4, RequestTypes
<1>11. ASSUME NEW q \in Request, NEW u \in User, NEW give \in RoleSets,
              Rights!StartCreate(q, u, give)
       PROVE  Rights!TypeOK'
  <2> DEFINE n == [new |-> TRUE, target |-> u, give |-> give, active |-> TRUE, crossed |-> FALSE]
  <2>1. /\ job' = [job EXCEPT ![q] = n] /\ Rights!Begun(q)
        /\ \E l \in Rights!Deciding : at' = [at EXCEPT ![q] = l]
        /\ UNCHANGED <<roles, active, policy, key, cache, clock>>
    BY <1>11 DEF Rights!StartCreate, Rights!Goto, Rights!tableVars, Rights!Deciding
  <2>2. n \in Rights!Job /\ n.target = u /\ n.give = give /\ n.new = TRUE
    BY DEF Rights!Job
  <2> HIDE DEF n
  <2>3. who' \in [Request -> Rights!Principal]
    BY <2>1, Principals
  <2>4. /\ \A x \in Request : x # q => at'[x] = at[x] /\ job'[x] = job[x]
        /\ at' \in [Request -> Places] /\ job' \in [Request -> Rights!Job]
        /\ at'[q] # "keywrite" /\ job'[q] = n
    BY <1>0, <2>1, <2>2 DEF Rights!Deciding
  <2>5. QED
    BY <2>1, <2>2, <2>3, <2>4, RequestTypes
<1>12. ASSUME NEW i \in Instance, Rights!Invalidate(i) PROVE Rights!TypeOK'
  BY <1>12 DEF Rights!Invalidate, Rights!TypeOK, Rights!Empty, Rights!tableVars, Rights!requestVars
<1>13. CASE Rights!Tick
  BY <1>0, <1>13 DEF Rights!Tick, Rights!TypeOK, Rights!requestVars
<1>14. CASE UNCHANGED Rights!vars
  BY <1>14 DEF Rights!vars, Rights!TypeOK, Rights!tableVars, Rights!requestVars
<1>15. ASSUME NEW q \in Request, NEW k \in Key, NEW perms \in Grants,
              Rights!CreateKey(q, k, perms)
       PROVE  Rights!TypeOK'
  <2> DEFINE row == [owner |-> who[q].user, perms |-> perms, live |-> TRUE]
  <2>1. row \in Rights!KeyRow
    BY <1>0 DEF Rights!KeyRow, Rights!Principal, Rights!Permission
  <2> HIDE DEF row
  <2>2. QED
    BY <1>15, <1>k, <1>w, <2>1 DEF Rights!CreateKey, row
<1>16. ASSUME NEW q \in Request, NEW k \in Key, NEW perms \in Grants,
              Rights!UpdateKey(q, k, perms)
       PROVE  Rights!TypeOK'
  <2> DEFINE row == [key[k] EXCEPT !.perms = perms]
  <2>1. key[k] \in Rights!KeyRow /\ perms \in SUBSET Rights!Permission
    BY <1>16 DEF Rights!UpdateKey, Rights!TypeOK, Rights!Permission
  <2>2. row \in Rights!KeyRow
    BY <2>1 DEF Rights!KeyRow
  <2>3. key' = [key EXCEPT ![k] = row]
    BY <1>16 DEF Rights!UpdateKey
  <2> HIDE DEF row
  <2>4. QED
    BY <1>16, <1>k, <1>w, <2>2, <2>3 DEF Rights!UpdateKey
<1>17. ASSUME NEW q \in Request, NEW k \in Key,
              Rights!RotateKey(q, k) \/ Rights!RevokeKey(q, k) \/ Rights!AdminRevokeKey(q, k)
       PROVE  Rights!TypeOK'
  <2>1. CASE Rights!RotateKey(q, k)
    BY <2>1, <1>w DEF Rights!RotateKey, Rights!TypeOK, KeysKept
  <2>2. CASE Rights!Revoked(q, k)
    <3> DEFINE row == [key[k] EXCEPT !.live = FALSE]
    <3>1. key[k] \in Rights!KeyRow
      BY <2>2 DEF Rights!Revoked, Rights!TypeOK
    <3>2. row \in Rights!KeyRow
      BY <3>1 DEF Rights!KeyRow
    <3>3. key' = [key EXCEPT ![k] = row]
      BY <2>2 DEF Rights!Revoked
    <3> HIDE DEF row
    <3>4. QED
      BY <2>2, <1>k, <1>w, <3>2, <3>3 DEF Rights!Revoked
  <2>3. QED
    BY <1>17, <2>1, <2>2 DEF Rights!RevokeKey, Rights!AdminRevokeKey
<1>18. ASSUME NEW q \in Request, NEW k \in Key, NEW perms \in Grants \cup {None},
              Rights!AdminReadKey(q, k, perms)
       PROVE  Rights!TypeOK'
  <2> DEFINE give == IF perms = None THEN key[k].perms ELSE perms
             n == [Rights!NoJob EXCEPT !.target = k, !.give = give]
  <2>1. /\ job' = [job EXCEPT ![q] = n] /\ Rights!Begun(q) /\ key[k] # None
        /\ at' = [at EXCEPT ![q] = "keywrite"]
        /\ UNCHANGED <<roles, active, policy, key, cache, clock>>
    BY <1>18 DEF Rights!AdminReadKey, Rights!Goto, Rights!tableVars
  <2>2. key[k] \in Rights!KeyRow
    BY <2>1 DEF Rights!TypeOK
  <2>3. give \in SUBSET Rights!Permission
    BY <2>2 DEF Rights!KeyRow, Rights!Permission
  <2> HIDE DEF give
  <2>4. n \in Rights!Job /\ n.target = k /\ n.give = give
    BY <2>3 DEF Rights!Job, Rights!NoJob
  <2> HIDE DEF n
  <2>5. who' \in [Request -> Rights!Principal]
    BY <2>1, Principals
  <2>6. QED
    BY <1>0, <2>1, <2>3, <2>4, <2>5, RequestTypes DEF Rights!Deciding
<1>19. QED
  BY <1>1, <1>2, <1>3, <1>4, <1>5, <1>6, <1>7, <1>8, <1>9, <1>10, <1>11, <1>12, <1>13, <1>14,
     <1>15, <1>16, <1>17, <1>18, RightsSteps

(* The tables, the caches and the requests stay within their types: a      *)
(* change has a target, an active account has roles, and only a key that   *)
(* exists is written.                                                      *)
THEOREM RightsTypes == Rights!Spec => []Rights!TypeOK
<1>1. Rights!Init => Rights!TypeOK
  <2> SUFFICES ASSUME Rights!Init PROVE Rights!TypeOK
    OBVIOUS
  <2>1. Rights!Nobody \in Rights!Principal /\ Rights!NoJob \in Rights!Job
    BY DEF Rights!Nobody, Rights!Principal, Rights!NoJob, Rights!Job
  <2>2. /\ roles \in [User -> RoleSets \cup {{}}] /\ policy \in [Role -> SUBSET Rights!Permission]
    BY RightsAssumption DEF Rights!Init, Rights!AuthorityConstants
  <2>3. QED
    BY <2>1, <2>2 DEF Rights!Init, Rights!TypeOK, Rights!Deciding, Rights!Empty
<1>2. QED
  BY <1>1, RightsTypeStep, PTL DEF Rights!Spec

-----------------------------------------------------------------------------
(* How old permissions are.  What an instance has cached, and what a       *)
(* request is about to cache, was granted at the time of its stamp or      *)
(* later: the clock is read before the table is.                           *)
Backed(perms, s, since) == \E h \in held : h[2] >= since /\ perms = Rights!Granted(h[1], s)

RecentOK ==
    /\ <<policy, clock>> \in held
    /\ \A h \in held : h[2] \in Nat
    /\ \A i \in Instance, s \in Rights!Cached :
           cache[i][s] # None => Backed(cache[i][s].perms, s, cache[i][s].at)
    /\ \A q \in Request :
           /\ at[q] = "load" => who[q].now <= clock
           /\ at[q] = "put" => Backed(who[q].perms, who[q].roles, who[q].now)
    /\ PermissionsAreRecent

(* Where no request gets on with its authentication, they stay backed.     *)
LEMMA RecentKept ==
    ASSUME RecentOK, Rights!TypeOK, clock' \in Nat, clock' >= clock,
           held \subseteq held', <<policy', clock'>> \in held', \A h \in held' : h[2] \in Nat,
           \A i \in Instance, s \in Rights!Cached : cache'[i][s] \in {None, cache[i][s]},
           \A x \in Request : \/ at'[x] = at[x] /\ who'[x] = who[x]
                              \/ at'[x] \notin {"load", "put", "ready"}
    PROVE  RecentOK'
<1>1. \A i \in Instance, s \in Rights!Cached :
          cache'[i][s] # None => Backed(cache[i][s].perms, s, cache[i][s].at)'
  BY DEF RecentOK, Backed
<1>2. ASSUME NEW q \in Request, at'[q] = "load" PROVE who'[q].now <= clock'
  <2>1. who'[q].now <= clock /\ who'[q].now \in Nat /\ clock \in Nat
    BY <1>2 DEF RecentOK, Rights!TypeOK, Rights!Principal
  <2>2. QED
    BY <2>1
<1>3. \A q \in Request : at'[q] = "put" => Backed(who[q].perms, who[q].roles, who[q].now)'
  BY DEF RecentOK, Backed
<1>4. PermissionsAreRecent'
  BY DEF RecentOK, PermissionsAreRecent, Rights!PermissionsAreRecent
<1>5. QED
  BY <1>1, <1>2, <1>3, <1>4 DEF RecentOK

(* Every step keeps the permissions that are cached or in use backed.      *)
LEMMA RecentStep ==
    ASSUME Rights!TypeOK, RecentOK, [Rights!Next]_(Rights!vars)
    PROVE  RecentOK'
<1>0. /\ clock \in Nat /\ <<policy, clock>> \in held /\ \A h \in held : h[2] \in Nat
      /\ at = [x \in Request |-> at[x]] /\ who = [x \in Request |-> who[x]]
      /\ \A x \in Request : who[x] \in Rights!Principal
  BY DEF RecentOK, Rights!TypeOK
<1>a. ASSUME UNCHANGED <<policy, held, cache, clock>>,
             \A x \in Request : \/ at'[x] = at[x] /\ who'[x] = who[x]
                                \/ at'[x] \notin {"load", "put", "ready"}
      PROVE  RecentOK'
  BY <1>0, <1>a, RecentKept
<1>1. ASSUME NEW q \in Request, NEW i \in Instance, NEW u \in User, NEW k \in Key \cup {None},
             Rights!Authenticate(q, i, u, k)
      PROVE  RecentOK'
  <2> DEFINE scope == IF k = None THEN None ELSE key[k].perms
             e == IF Super \in roles[u] THEN [perms |-> {All}, at |-> clock]
                  ELSE cache[i][roles[u]]
             n == [user |-> u, on |-> i, roles |-> roles[u], now |-> clock, scope |-> scope,
                   perms |-> IF Rights!Fresh(e) THEN Rights!Scoped(e.perms, scope) ELSE {}]
  <2>1. /\ active[u] /\ at' = [at EXCEPT ![q] = IF Rights!Fresh(e) THEN "ready" ELSE "load"]
        /\ k # None => key[k] # None
        /\ who' = [who EXCEPT ![q] = n]
        /\ UNCHANGED <<policy, held, cache, clock>>
    BY <1>1 DEF Rights!Authenticate, Rights!Goto, Rights!tableVars
  <2>2. scope \in (SUBSET Rights!Permission) \cup {None}
    BY <2>1 DEF Rights!TypeOK, Rights!KeyRow
  <2>3. n.now = clock /\ n.roles = roles[u]
    OBVIOUS
  <2>4. ASSUME Rights!Fresh(e)
        PROVE  \E h \in held : /\ h[2] + TTL > clock
                               /\ Rights!Covers(Rights!Granted(h[1], roles[u]), n.perms)
    <3>1. n.perms = Rights!Scoped(e.perms, scope)
      BY <2>4
    <3>2. CASE Super \in roles[u]
      <4>1. All \in Rights!Granted(policy, roles[u])
        BY <3>2 DEF Rights!Granted
      <4>2. clock + TTL > clock
        BY <1>0, RightsAssumption DEF Rights!AuthorityConstants
      <4>3. QED
        BY <1>0, <4>1, <4>2 DEF Rights!Covers
    <3>3. CASE Super \notin roles[u]
      <4>1. roles[u] \in Rights!Cached
        BY <2>1, <3>3 DEF Rights!TypeOK, Rights!Cached
      <4>2. e = cache[i][roles[u]] /\ e # None /\ clock - e.at < TTL
        BY <2>4, <3>3 DEF Rights!Fresh
      <4>3. e.perms \in SUBSET Rights!Permission /\ e.at \in Nat
        BY <4>1, <4>2 DEF Rights!TypeOK
      <4>4. PICK h \in held : h[2] >= e.at /\ e.perms = Rights!Granted(h[1], roles[u])
        BY <4>1, <4>2 DEF RecentOK, Backed
      <4> HIDE DEF scope, e, n
      <4>5. h[2] + TTL > clock
        BY <1>0, <4>2, <4>3, <4>4, RightsAssumption DEF Rights!AuthorityConstants
      <4>6. Rights!Covers(e.perms, n.perms)
        BY <2>2, <3>1, <4>3, Scopes DEF Rights!Covers
      <4>7. QED
        BY <4>4, <4>5, <4>6
    <3>4. QED
      BY <3>2, <3>3
  <2> HIDE DEF n, e
  <2>5. /\ who'[q] = n /\ at'[q] = (IF Rights!Fresh(e) THEN "ready" ELSE "load")
        /\ \A x \in Request : x # q => at'[x] = at[x] /\ who'[x] = who[x]
    BY <1>0, <2>1
  <2>6. PermissionsAreRecent'
    BY <2>1, <2>3, <2>4, <2>5 DEF RecentOK, PermissionsAreRecent, Rights!PermissionsAreRecent
  <2>7. \A x \in Request :
            /\ at'[x] = "load" => who'[x].now <= clock
            /\ at'[x] = "put" => Backed(who'[x].perms, who'[x].roles, who'[x].now)
    BY <1>0, <2>3, <2>5 DEF RecentOK
  <2>8. QED
    BY <2>1, <2>6, <2>7 DEF RecentOK, Backed
<1>2. ASSUME NEW q \in Request, Rights!Load(q) PROVE RecentOK'
  <2> DEFINE n == [who[q] EXCEPT !.perms = Rights!Granted(policy, who[q].roles)]
  <2>1. /\ who' = [who EXCEPT ![q] = n] /\ at' = [at EXCEPT ![q] = "put"] /\ at[q] = "load"
        /\ UNCHANGED <<policy, held, cache, clock>>
    BY <1>2 DEF Rights!Load, Rights!Goto, Rights!tableVars
  <2>2. /\ n.now = who[q].now /\ n.roles = who[q].roles
        /\ n.perms = Rights!Granted(policy, who[q].roles)
    BY <1>0 DEF Rights!Principal
  <2> HIDE DEF n
  <2>3. clock >= n.now
    BY <1>0, <2>1, <2>2 DEF RecentOK, Rights!Principal
  <2>4. Backed(n.perms, n.roles, n.now)
    BY <1>0, <2>2, <2>3 DEF Backed
  <2>5. /\ who'[q] = n /\ at'[q] = "put"
        /\ \A x \in Request : x # q => at'[x] = at[x] /\ who'[x] = who[x]
    BY <1>0, <2>1
  <2>6. QED
    BY <2>1, <2>4, <2>5 DEF RecentOK, Backed, PermissionsAreRecent, Rights!PermissionsAreRecent
<1>3. ASSUME NEW q \in Request, Rights!Put(q) PROVE RecentOK'
  <2> DEFINE p == who[q]
             e == [perms |-> p.perms, at |-> p.now]
             n == [who[q] EXCEPT !.perms = Rights!Scoped(p.perms, p.scope)]
  <2>1. /\ cache' = [cache EXCEPT ![p.on][p.roles] = e] /\ at[q] = "put"
        /\ who' = [who EXCEPT ![q] = n] /\ at' = [at EXCEPT ![q] = "ready"]
        /\ UNCHANGED <<policy, held, clock>>
    BY <1>3 DEF Rights!Put, Rights!Goto, Rights!tableVars
  <2>2. /\ p.perms \in SUBSET Rights!Permission /\ p.now \in Nat
        /\ p.scope \in (SUBSET Rights!Permission) \cup {None}
    BY <1>0 DEF Rights!Principal
  <2>3. /\ n.now = p.now /\ n.roles = p.roles /\ n.perms = Rights!Scoped(p.perms, p.scope)
        /\ e.perms = p.perms /\ e.at = p.now
    BY <1>0 DEF Rights!Principal
  <2>4. PICK h \in held : h[2] >= p.now /\ p.perms = Rights!Granted(h[1], p.roles)
    BY <2>1 DEF RecentOK, Backed
  <2> HIDE DEF p, e, n
  <2>5. h[2] + TTL > p.now
    BY <1>0, <2>2, <2>4, RightsAssumption DEF Rights!AuthorityConstants
  <2>6. Rights!Covers(Rights!Granted(h[1], p.roles), n.perms)
    BY <2>2, <2>3, <2>4, Scopes DEF Rights!Covers
  <2>7. /\ who'[q] = n /\ at'[q] = "ready"
        /\ \A x \in Request : x # q => at'[x] = at[x] /\ who'[x] = who[x]
    BY <1>0, <2>1
  <2>8. PermissionsAreRecent'
    BY <2>1, <2>3, <2>5, <2>6, <2>7
       DEF RecentOK, PermissionsAreRecent, Rights!PermissionsAreRecent
  <2>9. ASSUME NEW i \in Instance, NEW s \in Rights!Cached, cache'[i][s] # None
        PROVE  Backed(cache[i][s].perms, s, cache[i][s].at)'
    <3>1. cache'[i][s] = cache[i][s] \/ (cache'[i][s] = e /\ s = p.roles)
      BY <2>1 DEF Rights!TypeOK
    <3>2. CASE cache'[i][s] = cache[i][s]
      BY <2>1, <2>9, <3>2 DEF RecentOK, Backed
    <3>3. CASE cache'[i][s] = e /\ s = p.roles
      BY <2>1, <2>3, <2>4, <3>3 DEF Backed
    <3>4. QED
      BY <3>1, <3>2, <3>3
  <2>10. QED
    BY <2>1, <2>7, <2>8, <2>9 DEF RecentOK, Backed
<1>4. ASSUME NEW q \in Request, Rights!Refuse(q) \/ Rights!AdminWriteKey(q) PROVE RecentOK'
  BY <1>0, <1>4, <1>a DEF Rights!Refuse, Rights!AdminWriteKey, Rights!End, Rights!Over,
     Rights!Goto, Rights!tableVars
<1>5. ASSUME NEW q \in Request, Rights!InvalidateRolePermissions(q) PROVE RecentOK'
  BY <1>0, <1>5, RecentKept DEF Rights!InvalidateRolePermissions, Rights!End, Rights!Over,
     Rights!Goto, Rights!tableVars, Rights!TypeOK, Rights!Empty
<1>6. ASSUME NEW q \in Request, Rights!CanAssignRoles(q) \/ Rights!CountSupers(q) PROVE RecentOK'
  BY <1>0, <1>6, <1>a DEF Rights!CanAssignRoles, Rights!CountSupers, Rights!Goto, Rights!tableVars
<1>7. ASSUME NEW q \in Request, Rights!InsertUser(q) \/ Rights!UpdateUser(q) PROVE RecentOK'
  BY <1>0, <1>7, <1>a DEF Rights!InsertUser, Rights!UpdateUser, Rights!Over, Rights!Goto
<1>8. ASSUME NEW q \in Request, NEW r \in Role, NEW perms \in Grants, Rights!PutRoles(q, r, perms)
      PROVE  RecentOK'
  <2>1. /\ held' = held \cup {<<policy', clock>>} /\ UNCHANGED <<cache, clock>>
        /\ at' = [at EXCEPT ![q] = "notify"] /\ \A x \in Request : x # q => who'[x] = who[x]
    BY <1>0, <1>8 DEF Rights!PutRoles, Rights!Goto
  <2>2. QED
    BY <1>0, <2>1, RecentKept
<1>9. ASSUME NEW q \in Request, NEW l \in Rights!Deciding \cup {"keywrite"}, Rights!Begun(q),
             at' = [at EXCEPT ![q] = l], UNCHANGED <<policy, held, cache, clock>>
      PROVE  RecentOK'
  <2>1. \A x \in Request : x # q => who'[x] = who[x]
    BY <1>9, Principals
  <2>2. l \notin {"load", "put", "ready"}
    BY DEF Rights!Deciding
  <2>3. QED
    BY <1>0, <1>9, <1>a, <2>1, <2>2
<1>10. ASSUME NEW q \in Request, NEW u \in User, NEW give \in RoleSets \cup {None},
              NEW on \in BOOLEAN \cup {None}, Rights!StartUpdate(q, u, give, on)
       PROVE  RecentOK'
  BY <1>9, <1>10 DEF Rights!StartUpdate, Rights!Goto, Rights!tableVars, Rights!Deciding
<1>11. ASSUME NEW q \in Request, NEW u \in User, NEW give \in RoleSets,
              Rights!StartCreate(q, u, give)
       PROVE  RecentOK'
  BY <1>9, <1>11 DEF Rights!StartCreate, Rights!Goto, Rights!tableVars, Rights!Deciding
<1>12. ASSUME NEW q \in Request, NEW k \in Key, NEW perms \in Grants \cup {None},
              Rights!AdminReadKey(q, k, perms)
       PROVE  RecentOK'
  BY <1>9, <1>12 DEF Rights!AdminReadKey, Rights!Goto, Rights!tableVars
<1>13. ASSUME NEW q \in Request, NEW k \in Key, NEW perms \in Grants,
              Rights!CreateKey(q, k, perms) \/ Rights!UpdateKey(q, k, perms)
       PROVE  RecentOK'
  BY <1>0, <1>13, <1>a DEF Rights!CreateKey, Rights!UpdateKey, Rights!End, Rights!Over,
     Rights!Goto
<1>14. ASSUME NEW q \in Request, NEW k \in Key,
              Rights!RotateKey(q, k) \/ Rights!RevokeKey(q, k) \/ Rights!AdminRevokeKey(q, k)
       PROVE  RecentOK'
  BY <1>0, <1>14, <1>a DEF Rights!RotateKey, Rights!RevokeKey, Rights!AdminRevokeKey,
     Rights!Revoked, Rights!End, Rights!Over, Rights!Goto
<1>15. ASSUME NEW i \in Instance, Rights!Invalidate(i) PROVE RecentOK'
  BY <1>0, <1>15, RecentKept DEF Rights!Invalidate, Rights!tableVars, Rights!requestVars,
     Rights!TypeOK, Rights!Empty
<1>16. CASE Rights!Tick
  BY <1>0, <1>16, RecentKept DEF Rights!Tick, Rights!requestVars
<1>17. CASE UNCHANGED Rights!vars
  BY <1>17, <1>a DEF Rights!vars, Rights!tableVars, Rights!requestVars
<1>18. QED
  BY <1>1, <1>2, <1>3, <1>4, <1>5, <1>6, <1>7, <1>8, <1>10, <1>11, <1>12, <1>13, <1>14, <1>15,
     <1>16, <1>17, RightsSteps

(* What a session or a key may do when it is authenticated was granted to  *)
(* the roles of its user less than a TTL before, whichever notices were    *)
(* missed and however slowly a request fills the cache (auth_cache.go).    *)
THEOREM PermissionsStayRecent == Rights!Spec => []PermissionsAreRecent
<1>1. Rights!Init => RecentOK
  <2> SUFFICES ASSUME Rights!Init PROVE RecentOK
    OBVIOUS
  <2>1. /\ held = {<<policy, 0>>} /\ clock = 0 /\ at = [q \in Request |-> "idle"]
        /\ cache = [i \in Instance |-> [s \in Rights!Cached |-> None]]
    BY DEF Rights!Init, Rights!Empty
  <2>2. QED
    BY <2>1 DEF RecentOK, PermissionsAreRecent, Rights!PermissionsAreRecent
<1>2. RecentOK => PermissionsAreRecent
  BY DEF RecentOK
<1>3. Rights!TypeOK /\ RecentOK /\ [Rights!Next]_(Rights!vars) => RecentOK'
  BY RecentStep
<1>4. QED
  BY <1>1, <1>2, <1>3, RightsTypes, PTL DEF Rights!Spec
-----------------------------------------------------------------------------
(* Authority counts with the Cardinality of its own instance, which is the *)
(* one that the theorems on finite sets are about.                         *)
LEMMA CardinalityIsOne == \A S : Rights!Cardinality(S) = Cardinality(S)
BY DEF Rights!Cardinality, Cardinality

(* What a handler that writes means to take away from its target.          *)
Removes(j) == j.active = FALSE \/ (j.give # None /\ Super \notin j.give)

(* What the handler of request q knows still holds: the target of a change *)
(* is a super administrator only if the principal is one, is not the last  *)
(* one when the change may write, and what it gives is held.               *)
Decided(q) ==
    /\ ~job[q].new /\ Super \in roles[job[q].target] =>
           /\ Super \in who[q].roles
           /\ at[q] = "write" /\ Removes(job[q]) => Cardinality(Rights!ActiveSupers) > 1
    /\ at[q] = "write" /\ job[q].give # None /\ Super \notin who[q].roles =>
           Rights!Covers(who[q].perms, Rights!Granted(policy, job[q].give))
    /\ at[q] = "assign" => Super \notin who[q].roles
    /\ at[q] = "count" => job[q].give = None \/ Super \in who[q].roles

(* As long as no other commit crossed it.                                  *)
DecidedOK ==
    \A q \in Request : at[q] \in Rights!Deciding /\ ~job[q].crossed => Decided(q)

(* Where nothing is committed, it is enough to look at the request that    *)
(* takes the step.                                                         *)
LEMMA DecidedKept ==
    ASSUME Rights!TypeOK, DecidedOK, NEW q \in Request, UNCHANGED <<roles, active, policy>>,
           \A x \in Request : x # q => at'[x] = at[x] /\ who'[x] = who[x] /\ job'[x] = job[x],
           at'[q] \in Rights!Deciding /\ ~job'[q].crossed => Decided(q)'
    PROVE  DecidedOK'
<1>1. Rights!ActiveSupers' = Rights!ActiveSupers
  BY DEF Rights!ActiveSupers
<1>2. ASSUME NEW x \in Request, x # q, at'[x] \in Rights!Deciding, ~job'[x].crossed
      PROVE  Decided(x)'
  <2>1. Decided(x) /\ at'[x] = at[x] /\ who'[x] = who[x] /\ job'[x] = job[x]
    BY <1>2 DEF DecidedOK
  <2>2. QED
    BY <1>1, <2>1 DEF Decided
<1>3. QED
  BY <1>2 DEF DecidedOK

(* A commit crosses all the handlers that are deciding but its own.        *)
LEMMA DecidedCrossed ==
    ASSUME Rights!TypeOK, NEW q \in Request, Rights!Crossing(q),
           at'[q] \notin Rights!Deciding, \A x \in Request : x # q => at'[x] = at[x]
    PROVE  DecidedOK'
BY Crossings DEF DecidedOK

(* Every step keeps what uncrossed handlers know.                          *)
LEMMA DecidedStep ==
    ASSUME Rights!TypeOK, DecidedOK, [Rights!Next]_(Rights!vars)
    PROVE  DecidedOK'
<1>0. /\ at = [x \in Request |-> at[x]] /\ who = [x \in Request |-> who[x]]
      /\ job = [x \in Request |-> job[x]]
      /\ \A x \in Request : who[x] \in Rights!Principal /\ job[x] \in Rights!Job
  BY DEF Rights!TypeOK
<1>a. ASSUME NEW q \in Request, UNCHANGED <<roles, active, policy>>,
             \A x \in Request : x # q => at'[x] = at[x] /\ who'[x] = who[x] /\ job'[x] = job[x],
             at'[q] \notin Rights!Deciding
      PROVE  DecidedOK'
  BY <1>a, DecidedKept
<1>b. {"idle", "load", "put", "ready", "notify", "keywrite"} \cap Rights!Deciding = {}
  BY DEF Rights!Deciding
<1>c. ASSUME NEW q \in Request, Rights!End(q), UNCHANGED <<roles, active, policy>>
      PROVE  DecidedOK'
  <2>1. /\ at' = [at EXCEPT ![q] = "idle"] /\ who' = [who EXCEPT ![q] = Rights!Nobody]
        /\ job' = [job EXCEPT ![q] = Rights!NoJob]
    BY <1>c DEF Rights!End, Rights!Over, Rights!Goto
  <2>2. at'[q] = "idle"
        /\ \A x \in Request : x # q => at'[x] = at[x] /\ who'[x] = who[x] /\ job'[x] = job[x]
    BY <1>0, <2>1
  <2>3. QED
    BY <1>a, <1>b, <1>c, <2>2
<1>1. ASSUME NEW q \in Request, NEW i \in Instance, NEW u \in User, NEW k \in Key \cup {None},
             Rights!Authenticate(q, i, u, k)
      PROVE  DecidedOK'
  <2>1. /\ at'[q] \in {"ready", "load"} /\ UNCHANGED <<roles, active, policy>>
        /\ \A x \in Request : x # q => at'[x] = at[x] /\ who'[x] = who[x] /\ job'[x] = job[x]
    BY <1>0, <1>1 DEF Rights!Authenticate, Rights!Goto, Rights!tableVars
  <2>2. QED
    BY <1>a, <1>b, <2>1
<1>2. ASSUME NEW q \in Request, Rights!Load(q) \/ Rights!Put(q) PROVE DecidedOK'
  <2>1. /\ at'[q] \in {"ready", "put"} /\ UNCHANGED <<roles, active, policy>>
        /\ \A x \in Request : x # q => at'[x] = at[x] /\ who'[x] = who[x] /\ job'[x] = job[x]
    BY <1>0, <1>2 DEF Rights!Load, Rights!Put, Rights!Goto, Rights!tableVars
  <2>2. QED
    BY <1>a, <1>b, <2>1
<1>3. ASSUME NEW q \in Request,
             Rights!Refuse(q) \/ Rights!AdminWriteKey(q) \/ Rights!InvalidateRolePermissions(q)
      PROVE  DecidedOK'
  BY <1>c, <1>3 DEF Rights!Refuse, Rights!AdminWriteKey, Rights!InvalidateRolePermissions,
     Rights!tableVars
<1>4. ASSUME NEW q \in Request, Rights!CanAssignRoles(q) PROVE DecidedOK'
  <2>1. /\ at[q] = "assign" /\ at'[q] = "write"
        /\ Rights!Covers(who[q].perms, Rights!Granted(policy, job[q].give))
        /\ UNCHANGED <<roles, active, policy, who, job>>
        /\ \A x \in Request : x # q => at'[x] = at[x]
    BY <1>0, <1>4 DEF Rights!CanAssignRoles, Rights!Goto, Rights!tableVars
  <2>2. ASSUME ~job[q].crossed PROVE Decided(q)'
    <3>1. Decided(q)
      BY <1>b, <2>1, <2>2 DEF DecidedOK, Rights!Deciding
    <3>2. Super \notin who[q].roles /\ (job[q].new \/ Super \notin roles[job[q].target])
      BY <2>1, <3>1 DEF Decided
    <3>3. QED
      BY <2>1, <3>2 DEF Decided
  <2>3. QED
    BY <2>1, <2>2, DecidedKept
<1>5. ASSUME NEW q \in Request, Rights!CountSupers(q) PROVE DecidedOK'
  <2>1. /\ at[q] = "count" /\ at'[q] = "write" /\ Cardinality(Rights!ActiveSupers) > 1
        /\ UNCHANGED <<roles, active, policy, who, job>>
        /\ \A x \in Request : x # q => at'[x] = at[x]
    BY <1>0, <1>5, CardinalityIsOne DEF Rights!CountSupers, Rights!Goto, Rights!tableVars
  <2>2. ASSUME ~job[q].crossed PROVE Decided(q)'
    <3>1. Decided(q)
      BY <1>b, <2>1, <2>2 DEF DecidedOK, Rights!Deciding
    <3>2. Rights!ActiveSupers' = Rights!ActiveSupers
      BY <2>1 DEF Rights!ActiveSupers
    <3>3. QED
      BY <2>1, <3>1, <3>2 DEF Decided
  <2>3. QED
    BY <2>1, <2>2, DecidedKept
<1>6. ASSUME NEW q \in Request, Rights!InsertUser(q) \/ Rights!UpdateUser(q) PROVE DecidedOK'
  <2>1. at' = [at EXCEPT ![q] = "idle"] /\ Rights!Crossing(q)
    BY <1>6 DEF Rights!InsertUser, Rights!UpdateUser, Rights!Over, Rights!Goto
  <2>2. at'[q] = "idle" /\ \A x \in Request : x # q => at'[x] = at[x]
    BY <1>0, <2>1
  <2>3. QED
    BY <1>b, <2>1, <2>2, DecidedCrossed
<1>7. ASSUME NEW q \in Request, NEW r \in Role, NEW perms \in Grants, Rights!PutRoles(q, r, perms)
      PROVE  DecidedOK'
  <2>1. at' = [at EXCEPT ![q] = "notify"] /\ Rights!Crossing(q)
    BY <1>7 DEF Rights!PutRoles, Rights!Goto
  <2>2. at'[q] = "notify" /\ \A x \in Request : x # q => at'[x] = at[x]
    BY <1>0, <2>1
  <2>3. QED
    BY <1>b, <2>1, <2>2, DecidedCrossed
<1>8. ASSUME NEW q \in Request, NEW u \in User, NEW give \in RoleSets \cup {None},
             NEW on \in BOOLEAN \cup {None}, Rights!StartUpdate(q, u, give, on)
      PROVE  DecidedOK'
  <2> DEFINE n == [new |-> FALSE, target |-> u, give |-> give, active |-> on, crossed |-> FALSE]
             counts == Super \in roles[u] /\ (on = FALSE \/ (give # None /\ Super \notin give))
             s == Super \in who[q].roles
             l == IF give # None /\ ~s THEN "assign" ELSE IF counts THEN "count" ELSE "write"
  <2>1. /\ job' = [job EXCEPT ![q] = n] /\ at' = [at EXCEPT ![q] = l]
        /\ Super \in roles[u] => s
        /\ Rights!Begun(q) /\ UNCHANGED <<roles, active, policy>>
    BY <1>8 DEF Rights!StartUpdate, Rights!Goto, Rights!tableVars, Rights!MayChange, Rights!IsSuper
  <2>2. n.new = FALSE /\ n.target = u /\ n.give = give /\ n.active = on
    OBVIOUS
  <2>3. Removes(n) <=> (on = FALSE \/ (give # None /\ Super \notin give))
    BY DEF Removes
  <2> HIDE DEF n
  <2>4. who'[q].roles = who[q].roles \cap {Super} /\ \A x \in Request : x # q => who'[x] = who[x]
    BY <2>1, Principals
  <2>5. /\ at'[q] = l /\ job'[q] = n
        /\ \A x \in Request : x # q => at'[x] = at[x] /\ job'[x] = job[x]
    BY <1>0, <2>1
  <2>6. Super \in who'[q].roles <=> s
    BY <2>4
  <2>7. Decided(q)'
    <3>1. ~job'[q].new /\ Super \in roles'[job'[q].target] =>
              s /\ ~(at'[q] = "write" /\ Removes(job'[q]))
      BY <2>1, <2>2, <2>3, <2>5
    <3>2. at'[q] = "write" /\ job'[q].give # None => s
      BY <2>1, <2>2, <2>5
    <3>3. at'[q] = "assign" => ~s
      BY <2>1, <2>2, <2>5
    <3>4. at'[q] = "count" => job'[q].give = None \/ s
      BY <2>1, <2>2, <2>5
    <3>5. QED
      BY <2>6, <3>1, <3>2, <3>3, <3>4 DEF Decided, Removes
  <2>8. QED
    BY <2>1, <2>4, <2>5, <2>7, DecidedKept
<1>9. ASSUME NEW q \in Request, NEW u \in User, NEW give \in RoleSets,
             Rights!StartCreate(q, u, give)
      PROVE  DecidedOK'
  <2> DEFINE n == [new |-> TRUE, target |-> u, give |-> give, active |-> TRUE, crossed |-> FALSE]
             s == Super \in who[q].roles
             l == IF s THEN "write" ELSE "assign"
  <2>1. /\ job' = [job EXCEPT ![q] = n] /\ at' = [at EXCEPT ![q] = l]
        /\ Rights!Begun(q) /\ UNCHANGED <<roles, active, policy>>
    BY <1>9 DEF Rights!StartCreate, Rights!Goto, Rights!tableVars, Rights!IsSuper
  <2>2. n.new = TRUE
    OBVIOUS
  <2> HIDE DEF n
  <2>4. who'[q].roles = who[q].roles \cap {Super} /\ \A x \in Request : x # q => who'[x] = who[x]
    BY <2>1, Principals
  <2>5. /\ at'[q] = l /\ job'[q] = n
        /\ \A x \in Request : x # q => at'[x] = at[x] /\ job'[x] = job[x]
    BY <1>0, <2>1
  <2>6. Super \in who'[q].roles <=> s
    BY <2>4
  <2>7. Decided(q)'
    <3>1. job'[q].new /\ (at'[q] = "write" => s) /\ (at'[q] = "assign" => ~s) /\ at'[q] # "count"
      BY <2>2, <2>5
    <3>2. QED
      BY <2>6, <3>1 DEF Decided
  <2>8. QED
    BY <2>1, <2>4, <2>5, <2>7, DecidedKept
<1>10. ASSUME NEW q \in Request, NEW k \in Key, NEW perms \in Grants \cup {None},
              Rights!AdminReadKey(q, k, perms)
       PROVE  DecidedOK'
  <2>1. /\ at' = [at EXCEPT ![q] = "keywrite"] /\ Rights!Begun(q)
        /\ \A x \in Request : x # q => job'[x] = job[x]
        /\ UNCHANGED <<roles, active, policy>>
    BY <1>0, <1>10 DEF Rights!AdminReadKey, Rights!Goto, Rights!tableVars
  <2>2. at'[q] = "keywrite" /\ \A x \in Request : x # q => at'[x] = at[x] /\ who'[x] = who[x]
    BY <1>0, <2>1, Principals
  <2>3. QED
    BY <1>a, <1>b, <2>1, <2>2
<1>11. ASSUME NEW q \in Request, NEW k \in Key, NEW perms \in Grants,
              Rights!CreateKey(q, k, perms) \/ Rights!UpdateKey(q, k, perms)
       PROVE  DecidedOK'
  BY <1>c, <1>11 DEF Rights!CreateKey, Rights!UpdateKey
<1>12. ASSUME NEW q \in Request, NEW k \in Key,
              Rights!RotateKey(q, k) \/ Rights!RevokeKey(q, k) \/ Rights!AdminRevokeKey(q, k)
       PROVE  DecidedOK'
  BY <1>c, <1>12 DEF Rights!RotateKey, Rights!RevokeKey, Rights!AdminRevokeKey, Rights!Revoked
<1>13. ASSUME UNCHANGED <<roles, active, policy, at, who, job>> PROVE DecidedOK'
  <2>1. Rights!ActiveSupers' = Rights!ActiveSupers
    BY <1>13 DEF Rights!ActiveSupers
  <2>2. QED
    BY <1>13, <2>1 DEF DecidedOK, Decided
<1>14. ASSUME NEW i \in Instance, Rights!Invalidate(i) PROVE DecidedOK'
  BY <1>13, <1>14 DEF Rights!Invalidate, Rights!tableVars, Rights!requestVars
<1>15. CASE Rights!Tick
  BY <1>13, <1>15 DEF Rights!Tick, Rights!requestVars
<1>16. CASE UNCHANGED Rights!vars
  BY <1>13, <1>16 DEF Rights!vars, Rights!tableVars, Rights!requestVars
<1>17. QED
  BY <1>1, <1>2, <1>3, <1>4, <1>5, <1>6, <1>7, <1>8, <1>9, <1>10, <1>11, <1>12, <1>14, <1>15,
     <1>16, RightsSteps

(* Of every behaviour of the rights.                                       *)
LEMMA HandlersDecide == Rights!Spec => []DecidedOK
<1>1. Rights!Init => DecidedOK
  BY DEF Rights!Init, DecidedOK, Rights!Deciding
<1>2. QED
  BY <1>1, RightsTypes, DecidedStep, PTL DEF Rights!Spec

-----------------------------------------------------------------------------
(* What users may do is changed by three kinds of step.                    *)
LEMMA Changes ==
    ASSUME Rights!TypeOK, [Rights!Next]_(Rights!vars)
    PROVE  \/ UNCHANGED <<roles, active, policy>>
           \/ \E q \in Request : Rights!InsertUser(q) \/ Rights!UpdateUser(q)
           \/ \E q \in Request, r \in Role, perms \in Grants : Rights!PutRoles(q, r, perms)
<1> USE DEF Rights!tableVars, Rights!requestVars
<1>1. ASSUME NEW q \in Request, NEW i \in Instance, NEW u \in User, NEW k \in Key \cup {None},
             Rights!Authenticate(q, i, u, k)
      PROVE  UNCHANGED <<roles, active, policy>>
  BY <1>1 DEF Rights!Authenticate
<1>2. ASSUME NEW q \in Request,
             \/ Rights!Load(q) \/ Rights!Put(q) \/ Rights!Refuse(q)
             \/ Rights!InvalidateRolePermissions(q) \/ Rights!AdminWriteKey(q)
             \/ Rights!CanAssignRoles(q) \/ Rights!CountSupers(q)
      PROVE  UNCHANGED <<roles, active, policy>>
  BY <1>2 DEF Rights!Load, Rights!Put, Rights!Refuse, Rights!InvalidateRolePermissions,
     Rights!AdminWriteKey, Rights!CanAssignRoles, Rights!CountSupers
<1>3. ASSUME NEW q \in Request, NEW u \in User, NEW give, NEW on,
             Rights!StartUpdate(q, u, give, on) \/ Rights!StartCreate(q, u, give)
      PROVE  UNCHANGED <<roles, active, policy>>
  BY <1>3 DEF Rights!StartUpdate, Rights!StartCreate
<1>4. ASSUME NEW q \in Request, NEW k \in Key, NEW perms,
             \/ Rights!CreateKey(q, k, perms) \/ Rights!UpdateKey(q, k, perms)
             \/ Rights!AdminReadKey(q, k, perms)
      PROVE  UNCHANGED <<roles, active, policy>>
  BY <1>4 DEF Rights!CreateKey, Rights!UpdateKey, Rights!AdminReadKey
<1>5. ASSUME NEW q \in Request, NEW k \in Key,
             Rights!RotateKey(q, k) \/ Rights!RevokeKey(q, k) \/ Rights!AdminRevokeKey(q, k)
      PROVE  UNCHANGED <<roles, active, policy>>
  BY <1>5 DEF Rights!RotateKey, Rights!RevokeKey, Rights!AdminRevokeKey, Rights!Revoked
<1>6. ASSUME (\E i \in Instance : Rights!Invalidate(i)) \/ Rights!Tick \/ UNCHANGED Rights!vars
      PROVE  UNCHANGED <<roles, active, policy>>
  BY <1>6 DEF Rights!Invalidate, Rights!Tick, Rights!vars
<1>7. QED
  BY <1>1, <1>2, <1>3, <1>4, <1>5, <1>6, RightsSteps

(* Who writes, and what it knew when it did.                               *)
LEMMA Writers ==
    ASSUME Rights!TypeOK, DecidedOK, NEW q \in Request, Rights!InsertUser(q) \/ Rights!UpdateUser(q)
    PROVE  /\ Rights!Writes(q) /\ job[q].target \in User /\ policy' = policy
           /\ job[q].crossed \/ Decided(q)
           /\ at[q] = "write"
           /\ \A u \in User : u # job[q].target => roles'[u] = roles[u] /\ active'[u] = active[u]
           /\ Rights!InsertUser(q) =>
                  /\ job[q].new /\ roles[job[q].target] = {} /\ job[q].give # None
                  /\ roles'[job[q].target] = job[q].give /\ active'[job[q].target]
           /\ Rights!UpdateUser(q) =>
                  /\ ~job[q].new
                  /\ roles'[job[q].target] \in {roles[job[q].target], job[q].give}
                  /\ job[q].give = None => roles'[job[q].target] = roles[job[q].target]
                  /\ Super \in roles[job[q].target] /\ active[job[q].target] =>
                         \/ Removes(job[q])
                         \/ Super \in roles'[job[q].target] /\ active'[job[q].target]
<1> DEFINE j == job[q]
           t == job[q].target
<1>1. /\ at[q] = "write" /\ at[q] \in Rights!Deciding /\ at' = [at EXCEPT ![q] = "idle"]
      /\ policy' = policy
  BY DEF Rights!InsertUser, Rights!UpdateUser, Rights!Over, Rights!Goto, Rights!Deciding
<1>2. /\ j \in Rights!Job /\ t \in User /\ j.crossed \in BOOLEAN /\ j.new \in BOOLEAN
      /\ j.active \in BOOLEAN \cup {None}
      /\ j.new => j.give \in RoleSets
      /\ roles = [u \in User |-> roles[u]] /\ active = [u \in User |-> active[u]]
      /\ None \notin RoleSets
  BY <1>1, RightsAssumption DEF Rights!TypeOK, Rights!Job, Rights!AuthorityConstants
<1>3. Rights!Writes(q)
  BY <1>1 DEF Rights!Writes, Rights!TypeOK
<1>4. j.crossed \/ Decided(q)
  BY <1>1, <1>2 DEF DecidedOK
<1>5. ASSUME Rights!InsertUser(q)
      PROVE  /\ j.new /\ roles[t] = {} /\ j.give # None /\ roles'[t] = j.give /\ active'[t]
             /\ \A u \in User : u # t => roles'[u] = roles[u] /\ active'[u] = active[u]
  BY <1>2, <1>5 DEF Rights!InsertUser
<1>6. ASSUME Rights!UpdateUser(q)
      PROVE  /\ ~j.new
             /\ roles'[t] = IF j.give = None THEN roles[t] ELSE j.give
             /\ active'[t] = IF j.active = None THEN active[t] ELSE j.active
             /\ \A u \in User : u # t => roles'[u] = roles[u] /\ active'[u] = active[u]
  BY <1>2, <1>6 DEF Rights!UpdateUser
<1> HIDE DEF j, t
<1>7. ASSUME Rights!UpdateUser(q)
      PROVE  /\ roles'[t] \in {roles[t], j.give}
             /\ j.give = None => roles'[t] = roles[t]
             /\ Super \in roles[t] /\ active[t] =>
                    Removes(j) \/ (Super \in roles'[t] /\ active'[t])
  BY <1>2, <1>6, <1>7 DEF Removes
<1>8. QED
  BY <1>1, <1>2, <1>3, <1>4, <1>5, <1>6, <1>7 DEF j, t

(* The last active super administrator goes only in a handler that another *)
(* commit crossed (adminUpdateUser).                                       *)
THEOREM LastSuperIsKept == Rights!Spec => LastSuperStays
<1>1. ASSUME Rights!TypeOK, DecidedOK, [Rights!Next]_(Rights!vars),
             Rights!ActiveSupers # {}, Rights!ActiveSupers' = {}
      PROVE  \E q \in Request : Rights!Writes(q) /\ job[q].crossed
  <2>1. PICK u \in User : active[u] /\ Super \in roles[u]
    BY <1>1 DEF Rights!ActiveSupers
  <2>2. \A v \in User : ~(active'[v] /\ Super \in roles'[v])
    BY <1>1 DEF Rights!ActiveSupers
  <2>3. PICK q \in Request : Rights!InsertUser(q) \/ Rights!UpdateUser(q)
    <3>1. ~UNCHANGED <<roles, active, policy>>
      BY <2>1, <2>2
    <3>2. ASSUME NEW q \in Request, NEW r \in Role, NEW perms \in Grants,
                 Rights!PutRoles(q, r, perms)
          PROVE  FALSE
      BY <2>1, <2>2, <3>2 DEF Rights!PutRoles
    <3>3. QED
      BY <1>1, <3>1, <3>2, Changes
  <2> DEFINE t == job[q].target
  <2>4. /\ Rights!Writes(q) /\ t \in User
        /\ \A v \in User : v # t => roles'[v] = roles[v] /\ active'[v] = active[v]
    BY <1>1, <2>3, Writers
  <2>5. u = t /\ Rights!ActiveSupers = {t}
    BY <2>1, <2>2, <2>4 DEF Rights!ActiveSupers
  <2>6. Cardinality(Rights!ActiveSupers) = 1
    BY <2>5, FS_Singleton
  <2>7. ASSUME ~job[q].crossed PROVE FALSE
    <3>1. Decided(q) /\ at[q] = "write"
      BY <1>1, <2>3, <2>7, Writers
    <3>2. Rights!UpdateUser(q)
      <4>1. roles[t] # {}
        BY <2>1, <2>5
      <4>2. QED
        BY <1>1, <2>3, <4>1, Writers
    <3>3. ~job[q].new /\ Super \in roles[t] /\ Removes(job[q])
      BY <1>1, <2>1, <2>2, <2>5, <3>2, Writers
    <3>4. Cardinality(Rights!ActiveSupers) > 1
      BY <3>1, <3>3 DEF Decided
    <3>5. QED
      BY <2>6, <3>4
  <2>8. QED
    BY <2>4, <2>7
<1>2. QED
  BY <1>1, RightsTypes, HandlersDecide, PTL
     DEF Rights!Spec, LastSuperStays, Rights!LastSuperStays

(* A super administrator's account is changed only by a super              *)
(* administrator, or by a handler that another commit crossed.             *)
THEOREM SupersStayProtected == Rights!Spec => SupersAreProtected
<1>1. ASSUME Rights!TypeOK, DecidedOK, [Rights!Next]_(Rights!vars),
             NEW u \in User, Super \in roles[u], roles'[u] # roles[u] \/ active'[u] # active[u]
      PROVE  \E q \in Request : /\ Rights!Writes(q) /\ job[q].target = u
                                /\ Rights!IsSuper(q) \/ job[q].crossed
  <2>1. PICK q \in Request : Rights!InsertUser(q) \/ Rights!UpdateUser(q)
    <3>1. ~UNCHANGED <<roles, active, policy>>
      BY <1>1
    <3>2. ASSUME NEW q \in Request, NEW r \in Role, NEW perms \in Grants,
                 Rights!PutRoles(q, r, perms)
          PROVE  FALSE
      BY <1>1, <3>2 DEF Rights!PutRoles
    <3>3. QED
      BY <1>1, <3>1, <3>2, Changes
  <2>2. /\ Rights!Writes(q) /\ job[q].target = u
        /\ job[q].crossed \/ Decided(q)
    BY <1>1, <2>1, Writers
  <2>3. ~job[q].new
    <3>1. roles[u] # {}
      BY <1>1
    <3>2. QED
      BY <1>1, <2>1, <2>2, <3>1, Writers
  <2>4. Decided(q) => Super \in who[q].roles
    BY <1>1, <2>2, <2>3 DEF Decided
  <2>5. QED
    BY <2>2, <2>4 DEF Rights!IsSuper
<1> DEFINE A == \A u \in User :
                  Super \in roles[u] /\ (roles'[u] # roles[u] \/ active'[u] # active[u]) =>
                      \E q \in Request :
                          Rights!Writes(q) /\ job[q].target = u
                              /\ (Rights!IsSuper(q) \/ job[q].crossed)
<1>2. Rights!TypeOK /\ DecidedOK /\ [Rights!Next]_(Rights!vars) => [A]_(Rights!vars)
  BY <1>1
<1>3. QED
  BY <1>2, RightsTypes, HandlersDecide, PTL
     DEF Rights!Spec, SupersAreProtected, Rights!SupersAreProtected

(* Whatever a user gains by a change of roles or of the policy, the        *)
(* administrator who made it held, or is a super administrator or was      *)
(* crossed by another commit (adminPutRoles, canAssignRoles).              *)
THEOREM NobodyGaveMore == Rights!Spec => NobodyGivesMore
<1>1. ASSUME Rights!TypeOK, DecidedOK, [Rights!Next]_(Rights!vars), NEW u \in User,
             ~Rights!Covers(Rights!Granted(policy, roles[u]), Rights!Granted(policy, roles[u])')
      PROVE  \E q \in Request :
                 /\ Rights!Writes(q)
                 /\ \/ Rights!IsSuper(q) \/ job[q].crossed
                    \/ Rights!Covers(who[q].perms, Rights!Granted(policy, roles[u])'
                                                       \ Rights!Granted(policy, roles[u]))
  <2> DEFINE before == Rights!Granted(policy, roles[u])
             after == Rights!Granted(policy', roles'[u])
  <2>1. after # before
    BY <1>1 DEF Rights!Covers
  <2>2. ASSUME NEW q \in Request, Rights!InsertUser(q) \/ Rights!UpdateUser(q)
        PROVE  /\ Rights!Writes(q)
               /\ \/ Rights!IsSuper(q) \/ job[q].crossed
                  \/ Rights!Covers(who[q].perms, after \ before)
    <3>1. Rights!Writes(q) /\ policy' = policy /\ roles'[u] # roles[u]
      BY <1>1, <2>1, <2>2, Writers
    <3>2. u = job[q].target /\ job[q].give # None /\ roles'[u] = job[q].give
      BY <1>1, <2>2, <3>1, Writers
    <3>3. ASSUME ~job[q].crossed, ~Rights!IsSuper(q)
          PROVE  Rights!Covers(who[q].perms, after \ before)
      <4>1. Decided(q) /\ at[q] = "write"
        BY <1>1, <2>2, <3>3, Writers
      <4>2. Rights!Covers(who[q].perms, Rights!Granted(policy, job[q].give))
        BY <3>2, <3>3, <4>1 DEF Decided, Rights!IsSuper
      <4>3. Rights!Covers(who[q].perms, after)
        BY <3>1, <3>2, <4>2
      <4> HIDE DEF after, before
      <4>4. QED
        BY <4>3 DEF Rights!Covers
    <3>4. QED
      BY <3>1, <3>3
  <2>3. ASSUME NEW q \in Request, NEW r \in Role, NEW perms \in Grants,
               Rights!PutRoles(q, r, perms)
        PROVE  /\ Rights!Writes(q)
               /\ Rights!IsSuper(q) \/ Rights!Covers(who[q].perms, after \ before)
    <3>1. /\ at[q] = "ready" /\ at' = [at EXCEPT ![q] = "notify"]
          /\ Rights!IsSuper(q) \/ Rights!Covers(who[q].perms, perms)
          /\ policy' = [policy EXCEPT ![r] = perms] /\ roles' = roles
      BY <2>3 DEF Rights!PutRoles, Rights!Admin, Rights!Session, Rights!Goto
    <3>2. Rights!Writes(q)
      BY <1>1, <3>1 DEF Rights!Writes, Rights!TypeOK
    <3>3. after \ before \subseteq perms
      <4>1. ASSUME NEW x \in after, x \notin before PROVE x \in perms
        <5>1. ~\E s \in roles[u] \cap {Super} : x = All
          BY <4>1 DEF Rights!Granted
        <5>2. PICK s \in roles[u] \ {Super} : x \in policy'[s]
          BY <3>1, <4>1, <5>1 DEF Rights!Granted
        <5>3. x \notin policy[s]
          BY <4>1 DEF Rights!Granted
        <5>4. s = r
          BY <1>1, <3>1, <5>2, <5>3 DEF Rights!TypeOK
        <5>5. QED
          BY <1>1, <3>1, <5>2, <5>4 DEF Rights!TypeOK
      <4>2. QED
        BY <4>1
    <3> HIDE DEF after, before
    <3>4. QED
      BY <3>1, <3>2, <3>3 DEF Rights!Covers
  <2>4. ~UNCHANGED <<roles, active, policy>>
    BY <2>1
  <2>5. QED
    BY <1>1, <2>2, <2>3, <2>4, Changes
<1> DEFINE A == \A u \in User :
                  ~Rights!Covers(Rights!Granted(policy, roles[u]),
                                 Rights!Granted(policy, roles[u])') =>
                      \E q \in Request :
                          /\ Rights!Writes(q)
                          /\ \/ Rights!IsSuper(q) \/ job[q].crossed
                             \/ Rights!Covers(who[q].perms,
                                    Rights!Granted(policy, roles[u])'
                                        \ Rights!Granted(policy, roles[u]))
<1>2. Rights!TypeOK /\ DecidedOK /\ [Rights!Next]_(Rights!vars) => [A]_(Rights!vars)
  BY <1>1
<1>3. QED
  BY <1>2, RightsTypes, HandlersDecide, PTL
     DEF Rights!Spec, NobodyGivesMore, Rights!NobodyGivesMore

-----------------------------------------------------------------------------
(* The settings cache.  Its worker also serves the cache of permissions.   *)

(* The cache, the handlers and the listener stay within their types.       *)
THEOREM SettingsTypes == Settings!Spec => []Settings!TypeOK
<1>0. /\ 0 \in Settings!Revision /\ 0 \in Settings!Age
      /\ \A n \in Settings!Age : Settings!Older(n) \in Settings!Age
      /\ \A r \in Settings!Revision : r < MaxRevision => r + 1 \in Settings!Revision
      /\ \A n \in Nat : n + 1 \in Nat /\ (n > 0 => n - 1 \in Nat)
      /\ \A n \in Nat : \A m \in 0..n : m \in Nat
  BY SettingsAssumption DEF Settings!CacheConstants, Settings!Revision, Settings!Age, Settings!Older
<1> USE <1>0 DEF Settings!TypeOK
<1>1. Settings!Init => Settings!TypeOK
  BY DEF Settings!Init
<1>2. Settings!TypeOK /\ [Settings!Next]_(Settings!vars) => Settings!TypeOK'
  <2> SUFFICES ASSUME Settings!TypeOK, [Settings!Next]_(Settings!vars) PROVE Settings!TypeOK'
    OBVIOUS
  <2> USE DEF Settings!rowVars, Settings!cacheVars, Settings!listenVars, Settings!readVars
  <2>1. ASSUME NEW q \in Reader, Settings!Read(q) PROVE Settings!TypeOK'
    <3>1. ASSUME NEW i \in Instance, Settings!Miss(q, i) PROVE Settings!TypeOK'
      BY <3>1 DEF Settings!Miss
    <3>2. CASE Settings!Load(q)
      BY <3>2 DEF Settings!Load
    <3>3. CASE Settings!Store(q)
      BY <3>3 DEF Settings!Store, Settings!Stored, Settings!Put, Settings!Finish
    <3>4. CASE Settings!LoadError(q)
      BY <3>4 DEF Settings!LoadError, Settings!Finish
    <3>5. QED
      BY <2>1, <3>1, <3>2, <3>3, <3>4 DEF Settings!Read
  <2>2. ASSUME NEW i \in Instance, Settings!SaveStep(i) PROVE Settings!TypeOK'
    <3>1. CASE Settings!Save(i)
      BY <3>1 DEF Settings!Save
    <3>2. CASE Settings!DropOwn(i)
      BY <3>2 DEF Settings!DropOwn, Settings!Invalidate
    <3>3. CASE Settings!Answer(i)
      BY <3>3 DEF Settings!Answer
    <3>4. QED
      BY <2>2, <3>1, <3>2, <3>3 DEF Settings!SaveStep
  <2>3. ASSUME NEW i \in Instance, Settings!ListenStep(i) PROVE Settings!TypeOK'
    <3>1. CASE Settings!Reset(i)
      BY <3>1 DEF Settings!Reset, Settings!Invalidate
    <3>2. CASE Settings!Listen(i)
      BY <3>2 DEF Settings!Listen
    <3>3. CASE Settings!Apply(i)
      BY <3>3 DEF Settings!Apply, Settings!Invalidate
    <3>4. CASE Settings!Disconnect(i)
      BY <3>4 DEF Settings!Disconnect
    <3>5. QED
      BY <2>3, <3>1, <3>2, <3>3, <3>4 DEF Settings!ListenStep
  <2>4. CASE Settings!Tick
    BY <2>4 DEF Settings!Tick
  <2>5. CASE UNCHANGED Settings!vars
    BY <2>5 DEF Settings!vars
  <2>6. QED
    BY <2>1, <2>2, <2>3, <2>4, <2>5 DEF Settings!Next
<1>3. QED
  BY <1>1, <1>2, PTL DEF Settings!Spec

-----------------------------------------------------------------------------
(* A value is never out of date for longer than the clock stamp that came  *)
(* with it is old: a request reads the clock before it reads the row, and  *)
(* the entry inherits that stamp.  A revision that has not been superseded *)
(* is not out of date at all.                                              *)
Stamped ==
    /\ \A r \in Settings!Revision : r >= revision => outdated[r] = 0
    /\ \A i \in Instance :
         entry[i] # Settings!NoCopy => entry[i] <= revision /\ outdated[entry[i]] <= age[i]
    /\ \A q \in Reader :
         place[q] = "put" => loaded[q] <= revision /\ outdated[loaded[q]] <= began[q]

(* Every step keeps the two facts of Stamped: an entry, and a value about  *)
(* to be put, is never older than the time stamped on it.                  *)
LEMMA StampedStep == Settings!TypeOK /\ Stamped /\ [Settings!Next]_(Settings!vars) => Stamped'
<1> SUFFICES ASSUME Settings!TypeOK, Stamped, [Settings!Next]_(Settings!vars) PROVE Stamped'
  OBVIOUS
<1>0. /\ revision \in Settings!Revision
      /\ Settings!Revision \subseteq Int /\ Settings!Age \subseteq Int
      /\ \A i \in Instance : entry[i] # Settings!NoCopy => entry[i] \in Settings!Revision
      /\ \A i \in Instance : age[i] \in Int
      /\ \A q \in Reader : loaded[q] \in Settings!Revision /\ began[q] \in Int
      /\ \A r \in Settings!Revision : outdated[r] \in Int
  BY SettingsAssumption DEF Settings!CacheConstants, Settings!TypeOK, Settings!Revision, Settings!Age
<1> USE <1>0 DEF Stamped, Settings!rowVars, Settings!cacheVars, Settings!listenVars,
                Settings!readVars
<1>1. ASSUME NEW q \in Reader, Settings!Read(q) PROVE Stamped'
  <2> USE DEF Settings!TypeOK
  <2>1. ASSUME NEW i \in Instance, Settings!Miss(q, i) PROVE Stamped'
    BY <2>1 DEF Settings!Miss
  <2>2. CASE Settings!Load(q)
    <3>1. outdated[revision] = 0 /\ 0 <= began[q]
      BY DEF Settings!Age
    <3>2. /\ loaded' = [loaded EXCEPT ![q] = revision]
          /\ place' = [place EXCEPT ![q] = "put"]
          /\ UNCHANGED <<Settings!rowVars, Settings!cacheVars, began>>
      BY <2>2 DEF Settings!Load
    <3>3. QED
      BY <3>1, <3>2
  <2>3. CASE Settings!Store(q)
    BY <2>3 DEF Settings!Store, Settings!Put, Settings!Finish
  <2>4. CASE Settings!LoadError(q)
    BY <2>4 DEF Settings!LoadError, Settings!Finish
  <2>5. QED
    BY <1>1, <2>1, <2>2, <2>3, <2>4 DEF Settings!Read
<1>2. ASSUME NEW i \in Instance, Settings!SaveStep(i) PROVE Stamped'
  <2> USE DEF Settings!TypeOK
  <2>1. CASE Settings!Save(i)
    <3>1. revision' = revision + 1 /\ UNCHANGED <<outdated, Settings!cacheVars, Settings!readVars>>
      BY <2>1 DEF Settings!Save
    <3>2. \A r \in Settings!Revision :
            (r >= revision + 1 => r >= revision) /\ (r <= revision => r <= revision + 1)
      OBVIOUS
    <3>3. QED
      BY <1>0, <3>1, <3>2
  <2>2. CASE Settings!DropOwn(i)
    BY <2>2 DEF Settings!DropOwn, Settings!Invalidate
  <2>3. CASE Settings!Answer(i)
    BY <2>3 DEF Settings!Answer
  <2>4. QED
    BY <1>2, <2>1, <2>2, <2>3 DEF Settings!SaveStep
<1>3. ASSUME NEW i \in Instance, Settings!ListenStep(i) PROVE Stamped'
  <2>1. CASE Settings!Reset(i) \/ Settings!Apply(i)
    BY <2>1 DEF Settings!Reset, Settings!Apply, Settings!Invalidate, Settings!TypeOK
  <2>2. CASE Settings!Listen(i) \/ Settings!Disconnect(i)
    BY <2>2 DEF Settings!Listen, Settings!Disconnect
  <2>3. QED
    BY <1>3, <2>1, <2>2 DEF Settings!ListenStep
<1>4. CASE Settings!Tick
  <2>1. \A r \in Settings!Revision :
          outdated'[r] = IF r < revision THEN Settings!Older(outdated[r]) ELSE outdated[r]
    BY <1>4 DEF Settings!Tick
  <2>2. \A i \in Instance : entry[i] # Settings!NoCopy => age'[i] = Settings!Older(age[i])
    BY <1>4 DEF Settings!Tick
  <2>3. \A q \in Reader : place[q] = "put" => began'[q] = Settings!Older(began[q])
    BY <1>4 DEF Settings!Tick
  <2>4. \A m, n \in Settings!Age :
            m <= n => m <= Settings!Older(n) /\ Settings!Older(m) <= Settings!Older(n)
    BY SettingsAssumption DEF Settings!CacheConstants, Settings!Age, Settings!Older
  <2>5. /\ \A r \in Settings!Revision : outdated[r] \in Settings!Age
        /\ \A i \in Instance : age[i] \in Settings!Age
        /\ \A q \in Reader : began[q] \in Settings!Age
    BY DEF Settings!TypeOK
  <2>6. UNCHANGED <<revision, entry, place, loaded>>
    BY <1>4 DEF Settings!Tick
  <2>7. \A r \in Settings!Revision : r >= revision' => outdated'[r] = 0
    BY <2>1, <2>6
  <2>8. ASSUME NEW r \in Settings!Revision, NEW n \in Settings!Age, r <= revision, outdated[r] <= n
        PROVE  outdated'[r] <= Settings!Older(n)
    <3>1. CASE r < revision
      BY <2>1, <2>4, <2>5, <2>8, <3>1
    <3>2. CASE ~(r < revision)
      BY <2>1, <2>4, <2>5, <2>8, <3>2
    <3>3. QED
      BY <3>1, <3>2
  <2>9. \A i \in Instance : entry[i] # Settings!NoCopy =>
          entry[i] <= revision /\ outdated'[entry[i]] <= age'[i]
    BY <2>2, <2>5, <2>8
  <2>10. \A q \in Reader : place[q] = "put" =>
           loaded[q] <= revision /\ outdated'[loaded[q]] <= began'[q]
    BY <2>3, <2>5, <2>8
  <2>11. QED
    BY <2>6, <2>7, <2>9, <2>10
<1>5. CASE UNCHANGED Settings!vars
  BY <1>5 DEF Settings!vars
<1>6. QED
  BY <1>1, <1>2, <1>3, <1>4, <1>5 DEF Settings!Next

(* An instance never answers from memory with a value that was superseded  *)
(* a TTL ago or earlier, whatever happens to the notifications.            *)
THEOREM StalenessIsBounded == Settings!Spec => []StalenessBound
<1>1. Settings!Init => Stamped
  BY DEF Settings!Init, Stamped
<1>2. Settings!TypeOK /\ Stamped => StalenessBound
  <2> SUFFICES ASSUME Settings!TypeOK, Stamped, NEW i \in Instance,
                      entry[i] # Settings!NoCopy, age[i] < SettingTTL
               PROVE  outdated[entry[i]] < SettingTTL
    BY DEF StalenessBound, Settings!StalenessBound, Settings!Fresh
  <2>1. entry[i] \in Settings!Revision /\ age[i] \in Settings!Age
    BY DEF Settings!TypeOK
  <2>2. outdated[entry[i]] \in Settings!Age /\ outdated[entry[i]] <= age[i]
    BY <2>1 DEF Settings!TypeOK, Stamped
  <2>3. age[i] \in Int /\ outdated[entry[i]] \in Int /\ SettingTTL \in Int
    BY <2>1, <2>2, SettingsAssumption DEF Settings!CacheConstants, Settings!Age
  <2>4. QED
    BY <2>2, <2>3
<1>3. QED
  BY <1>1, <1>2, StampedStep, SettingsTypes, PTL DEF Settings!Spec

-----------------------------------------------------------------------------
(* OldForAReason for every copy, whether it is still answered or expired.  *)
Reason(i) ==
    \/ i \in spoilt
    \/ notices[i] > 0
    \/ saving[i] = "saved"
    \/ \E j \in Instance \ {i} : saving[j] # "no"

Reasons == \A i \in Instance : Settings!Stale(i) => Reason(i)

(* Every step that makes a copy old, or takes one of the reasons away,     *)
(* leaves another reason or takes the copy away with it.                   *)
LEMMA ReasonsStep == Settings!TypeOK /\ Reasons /\ [Settings!Next]_(Settings!vars) => Reasons'
<1> SUFFICES ASSUME Settings!TypeOK, Reasons, [Settings!Next]_(Settings!vars),
                    NEW k \in Instance, Settings!Stale(k)'
             PROVE  Reason(k)'
  BY DEF Reasons
<1>0. /\ revision \in Int /\ entry[k] \in Int /\ notices[k] \in Nat
      /\ Settings!Stale(k) => Reason(k)
  BY SettingsAssumption DEF Settings!CacheConstants, Settings!TypeOK, Settings!Revision, Settings!NoCopy, Reasons
<1> USE <1>0 DEF Settings!Stale, Reason, Settings!rowVars, Settings!cacheVars,
                Settings!listenVars, Settings!readVars
<1>1. ASSUME NEW q \in Reader, Settings!Read(q) PROVE Reason(k)'
  <2>1. ASSUME NEW i \in Instance, Settings!Miss(q, i) PROVE Reason(k)'
    BY <2>1 DEF Settings!Miss
  <2>2. CASE Settings!Load(q) \/ Settings!LoadError(q)
    BY <2>2 DEF Settings!Load, Settings!LoadError
  <2>3. CASE Settings!Store(q)
    <3>1. /\ entry' = [entry EXCEPT ![host[q]] = loaded[q]]
          /\ Settings!Stored(q)
          /\ UNCHANGED <<Settings!rowVars, Settings!listenVars, saving>>
      BY <2>3 DEF Settings!Store, Settings!Put
    <3>2. CASE host[q] = k
      <4>1. entry'[k] = loaded[q]
        BY <3>1, <3>2 DEF Settings!TypeOK
      <4>2. loaded[q] < revision
        BY <3>1, <4>1
      <4>3. QED
        BY <3>2, <4>2, <3>1 DEF Settings!Stored
    <3>3. CASE host[q] # k
      <4>1. entry'[k] = entry[k]
        BY <3>1, <3>3 DEF Settings!TypeOK
      <4>2. k \in spoilt => k \in spoilt'
        BY <3>1, <3>3 DEF Settings!Stored
      <4>3. QED
        BY <3>1, <4>1, <4>2
    <3>4. QED
      BY <3>2, <3>3
  <2>4. QED
    BY <1>1, <2>1, <2>2, <2>3 DEF Settings!Read
<1>2. ASSUME NEW i \in Instance, Settings!SaveStep(i) PROVE Reason(k)'
  <2>1. CASE Settings!Save(i)
    BY <2>1 DEF Settings!Save, Settings!TypeOK
  <2>2. CASE Settings!DropOwn(i)
    BY <2>2 DEF Settings!DropOwn, Settings!Invalidate, Settings!TypeOK
  <2>3. CASE Settings!Answer(i)
    <3>1. PICK told \in {{j \in Instance : link[j] = "up"}, {}} :
            /\ notices' = [j \in Instance |->
                              IF j \in told THEN notices[j] + 1 ELSE notices[j]]
            /\ spoilt' = spoilt \cup {j \in Instance \ (told \cup {i}) : Settings!Stale(j)}
      BY <2>3 DEF Settings!Answer
    <3>2. /\ saving[i] = "dropped" /\ saving' = [saving EXCEPT ![i] = "no"]
          /\ UNCHANGED <<Settings!rowVars, Settings!cacheVars>>
      BY <2>3 DEF Settings!Answer
    <3>3. Settings!Stale(k) /\ notices[k] + 1 > 0
      BY <3>2
    <3>4. CASE k \in told \/ k # i
      BY <3>1, <3>3, <3>4
    <3>5. CASE k \notin told /\ k = i
      BY <3>1, <3>2, <3>3, <3>5 DEF Settings!TypeOK
    <3>6. QED
      BY <3>4, <3>5
  <2>4. QED
    BY <1>2, <2>1, <2>2, <2>3 DEF Settings!SaveStep
<1>3. ASSUME NEW i \in Instance, Settings!ListenStep(i) PROVE Reason(k)'
  <2>1. CASE Settings!Reset(i) \/ Settings!Apply(i)
    BY <2>1 DEF Settings!Reset, Settings!Apply, Settings!Invalidate, Settings!TypeOK
  <2>2. CASE Settings!Listen(i)
    BY <2>2 DEF Settings!Listen
  <2>3. CASE Settings!Disconnect(i)
    <3>1. PICK n \in 0..notices[i] :
            /\ notices' = [notices EXCEPT ![i] = n]
            /\ spoilt' = IF n < notices[i] /\ Settings!Stale(i) THEN spoilt \cup {i} ELSE spoilt
      BY <2>3 DEF Settings!Disconnect
    <3>2. UNCHANGED <<Settings!rowVars, Settings!cacheVars, saving>>
      BY <2>3 DEF Settings!Disconnect
    <3>3. notices[i] \in Nat
      BY DEF Settings!TypeOK
    <3>4. CASE k = i
      BY <3>1, <3>2, <3>3, <3>4 DEF Settings!TypeOK
    <3>5. CASE k # i
      BY <3>1, <3>2, <3>5 DEF Settings!TypeOK
    <3>6. QED
      BY <3>4, <3>5
  <2>4. QED
    BY <1>3, <2>1, <2>2, <2>3 DEF Settings!ListenStep
<1>4. CASE Settings!Tick
  BY <1>4 DEF Settings!Tick
<1>5. CASE UNCHANGED Settings!vars
  BY <1>5 DEF Settings!vars
<1>6. QED
  BY <1>1, <1>2, <1>3, <1>4, <1>5 DEF Settings!Next

(* No instance keeps answering an old copy once every save is over and     *)
(* every notification applied, unless the notification was lost or the     *)
(* copy was put in by a load that raced with the save.                     *)
THEOREM ReasonsForOldCopies == Settings!Spec => []OldForAReason
<1>1. Settings!Init => Reasons
  BY DEF Settings!Init, Reasons, Settings!Stale
<1>2. Reasons => OldForAReason
  BY DEF Reasons, Reason, OldForAReason, Settings!OldForAReason
<1>3. QED
  BY <1>1, <1>2, ReasonsStep, SettingsTypes, PTL DEF Settings!Spec

-----------------------------------------------------------------------------
(* The three components of a behaviour of MCOperations behave as their own *)
(* specifications say: what the theorems above state of Outbox, Authority  *)
(* and SettingCache holds of the composition that the run checks.          *)
THEOREM SidesKeepTheirSpecs == OperationsSpec => Spec /\ Rights!Spec /\ Settings!Spec
<1>1. OperationsInit => Init /\ Rights!Init /\ Settings!Init
  BY DEF OperationsInit
<1>2. [OperationsNext]_<<vars, rightsVars, settingsVars, side>> =>
          [Next]_vars /\ [Rights!Next]_(Rights!vars) /\ [Settings!Next]_(Settings!vars)
  <2> SUFFICES ASSUME [OperationsNext]_<<vars, rightsVars, settingsVars, side>>
      PROVE  [Next]_vars /\ [Rights!Next]_(Rights!vars) /\ [Settings!Next]_(Settings!vars)
    OBVIOUS
  <2>1. UNCHANGED rightsVars => UNCHANGED Rights!vars
    BY DEF rightsVars, Rights!vars, Rights!tableVars, Rights!requestVars
  <2>2. UNCHANGED settingsVars => UNCHANGED Settings!vars
    BY DEF settingsVars, Settings!vars, Settings!rowVars, Settings!cacheVars,
           Settings!listenVars, Settings!readVars
  <2>3. QED
    BY <2>1, <2>2 DEF OperationsNext
<1>3. QED
  BY <1>1, <1>2, PTL DEF OperationsSpec, Spec, Rights!Spec, Settings!Spec
=============================================================================

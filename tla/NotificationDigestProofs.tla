----------------------- MODULE NotificationDigestProofs -----------------------
(***************************************************************************)
(* The digest of a user counts every notification at most once, replays    *)
(* nothing and follows the preferences in force, for any number of         *)
(* notifications, requests and processes.                                  *)
(***************************************************************************)
EXTENDS NotificationDigest, TLAPS

(* The clock arithmetic of digestDue stays within its types.               *)
LEMMA WindowType ==
    ASSUME NEW s \in Schedule, NEW l \in Time, NEW c \in Time
    PROVE  WindowID(s, l, c) \in Window
<1>1. c \div Day \in Time
  <2>1. c \in Nat /\ Day \in Nat /\ Day >= 1 /\ c <= MaxTime /\ MaxTime \in Nat
    BY DigestAssumption DEF Time
  <2>2. c \div Day \in Nat /\ c \div Day <= c
    BY <2>1
  <2>3. QED
    BY <2>1, <2>2 DEF Time
<1>2. l + Hour \in 0..(MaxTime + Hour)
  BY DigestAssumption DEF Time
<1>3. QED
  BY <1>1, <1>2 DEF WindowID, DueAt, Window

(* A notification never becomes new again.                                 *)
LEMMA BecomeFacts ==
    ASSUME TypeOK, NEW notes \in SUBSET Note, NEW status \in NoteStatus
    PROVE  /\ Become(notes, status) \in [Note -> NoteStatus]
           /\ \A n \in notes : Become(notes, status)[n] = status
           /\ \A n \in Note \ notes : Become(notes, status)[n] = note[n]
  BY DEF Become, TypeOK

(* Requests keep the types.                                                *)
LEMMA PutType ==
    ASSUME TypeOK, NEW s \in Session,
           PutStep(s) \/ FailPut(s) \/ \E patch \in Patch : BeginPut(s, patch)
    PROVE  TypeOK'
<1> USE DEF prefVars, stateVars, noteVars, lockVars
<1>0. /\ IdlePut \in Put /\ put[s] \in Put /\ New \in SUBSET Note
      /\ Release(prefLock, s) \in Session \cup Worker \cup {Nobody}
  <2>1. IdlePut \in Put
    <3>1. [schedule |-> None, theme |-> TRUE] \in Patch
      BY DEF Patch
    <3>2. Off \in Schedule /\ 0 \in Time
      BY DigestAssumption DEF Schedule, Time
    <3>3. QED
      BY <3>1, <3>2 DEF IdlePut, Put
  <2>2. QED
    BY <2>1, DigestAssumption DEF TypeOK, New, Release
<1>1. ASSUME NEW patch \in Patch, BeginPut(s, patch) PROVE TypeOK'
  <2>1. [IdlePut EXCEPT !.step = "read", !.patch = patch, !.start = now] \in Put
    BY <1>0 DEF TypeOK, Put, IdlePut
  <2>2. QED
    BY <1>1, <2>1 DEF BeginPut, TypeOK
<1>2. ASSUME NEW old \in Schedule, NEW appearance \in {"default", "chosen"}
      PROVE  Patched(put[s], old, appearance) \in Put
  BY <1>0, <1>2 DEF Patched, Put, Patch
<1>3. CASE ReadRow(s)
  BY <1>2, <1>3 DEF ReadRow, TypeOK
<1>4. CASE ReadDefaults(s)
  BY <1>2, <1>4 DEF ReadDefaults, TypeOK, Schedule
<1>5. CASE PutRefused(s)
  BY <1>0, <1>5 DEF PutRefused, EndPut, TypeOK
<1>6. CASE WriteRow(s)
  BY <1>0, <1>6 DEF WriteRow, TypeOK, Put
<1>7. CASE MarkBacklog(s)
  BY <1>0, <1>7 DEF MarkBacklog, TypeOK, Put
<1>8. CASE CommitPut(s)
  <2>1. Become(put[s].marked, "boundary") \in [Note -> NoteStatus]
    BY <1>0, BecomeFacts DEF Put, NoteStatus
  <2>2. put[s].schedule \in Schedule /\ put[s].theme \in {"default", "chosen"}
        /\ put[s].start \in Time
    BY <1>0 DEF Put
  <2>3. QED
    BY <1>0, <1>8, <2>1, <2>2 DEF CommitPut, EndPut, TypeOK
<1>9. CASE FailPut(s)
  BY <1>0, <1>9, DigestAssumption DEF FailPut, EndPut, TypeOK
<1>10. QED
  BY <1>1, <1>3, <1>4, <1>5, <1>6, <1>7, <1>8, <1>9 DEF PutStep

(* The worker keeps the types.                                             *)
LEMMA BatchType ==
    ASSUME TypeOK, NEW w \in Worker, BatchStep(w) \/ FailBatch(w)
    PROVE  TypeOK'
<1> USE DEF prefVars, stateVars, noteVars, lockVars
<1>0. /\ IdleBatch \in Batch /\ batch[w] \in Batch /\ New \in SUBSET Note
      /\ Release(prefLock, w) \in Session \cup Worker \cup {Nobody}
      /\ Release(batchLock, w) \in Worker \cup {Nobody}
  BY DigestAssumption DEF TypeOK, IdleBatch, Batch, New, Release, Schedule, Off, Time
<1>1. CASE Wake(w)
  <2>1. [IdleBatch EXCEPT !.step = "lock", !.clock = now] \in Batch
    BY <1>0 DEF TypeOK, Batch, IdleBatch
  <2>2. QED
    BY <1>1, <2>1 DEF Wake, TypeOK
<1>2. CASE TakeBatchLock(w) \/ Find(w)
  BY <1>0, <1>2 DEF TakeBatchLock, Find, Goto, TypeOK, Batch
<1>3. CASE BatchLockTaken(w) \/ NoCandidate(w)
  BY <1>0, <1>3 DEF BatchLockTaken, NoCandidate, EndBatch, TypeOK
<1>4. CASE LockUser(w)
  <2>1. Decision(batch[w].clock) \in {"boundary", "select", "commit"}
    BY DEF Decision
  <2>2. QED
    BY <1>0, <1>4, <2>1 DEF LockUser, ReadUser, TypeOK, Batch
<1>5. CASE CloseBacklog(w) \/ Select(w)
  BY <1>0, <1>5 DEF CloseBacklog, Select, TypeOK, Batch
<1>6. CASE Record(w)
  BY <1>0, <1>6 DEF Record, TypeOK, Batch
<1>7. CASE CommitBatch(w)
  <2>1. /\ batch[w].clock \in Time /\ batch[w].schedule \in Schedule
        /\ batch[w].last \in Time /\ batch[w].picked \in SUBSET Note
        /\ batch[w].marked \in SUBSET Note
    BY <1>0 DEF Batch
  <2>2. /\ Become(batch[w].marked, "boundary") \in [Note -> NoteStatus]
        /\ Become(batch[w].marked, "digested") \in [Note -> NoteStatus]
    BY <2>1, BecomeFacts DEF NoteStatus
  <2>3. Recorded(w) \in SUBSET [window : Window, notes : SUBSET Note, since : Time]
    BY <2>1, WindowType DEF Recorded, TypeOK
  <2>4. QED
    BY <1>0, <1>7, <2>1, <2>2, <2>3 DEF CommitBatch, EndBatch, TypeOK
<1>8. CASE FailBatch(w)
  BY <1>0, <1>8, DigestAssumption DEF FailBatch, EndBatch, TypeOK
<1>9. QED
  BY <1>1, <1>2, <1>3, <1>4, <1>5, <1>6, <1>7, <1>8 DEF BatchStep

(* The initial states are within the types.                                *)
LEMMA TypeInit == Init => TypeOK
<1> SUFFICES ASSUME Init PROVE TypeOK
  OBVIOUS
<1>1. stored \in BOOLEAN /\ valid \in BOOLEAN /\ odd \in BOOLEAN
  <2>1. stored \in BOOLEAN /\ valid = ~stored
    BY DEF Init
  <2>2. odd \in BOOLEAN
    BY DEF Init
  <2>3. QED
    BY <2>1, <2>2
<1>2. IdlePut \in Put /\ IdleBatch \in Batch
  BY DigestAssumption
     DEF Time, Schedule, Off, Put, IdlePut, Patch, Batch, IdleBatch
<1>3. QED
  BY <1>1, <1>2, DigestAssumption DEF Init, TypeOK, Time, Schedule, Off, NoteStatus

(* Every step stays within them.                                           *)
LEMMA TypeStep == TypeOK /\ [Next]_vars => TypeOK'
<1> SUFFICES ASSUME TypeOK, [Next]_vars PROVE TypeOK'
  OBVIOUS
<1> USE DEF prefVars, stateVars, noteVars, lockVars
<1>1. ASSUME NEW n \in Note, Deliver(n) \/ Hide(n) PROVE TypeOK'
  BY <1>1 DEF Deliver, Hide, TypeOK, NoteStatus
<1>2. CASE Tick
  BY <1>2, DigestAssumption DEF Tick, TypeOK, Time
<1>3. CASE UNCHANGED vars
  BY <1>3 DEF vars, TypeOK
<1>4. QED
  BY <1>1, <1>2, <1>3, PutType, BatchType DEF Next

(* Rows, locks and transactions stay within their types.                   *)
THEOREM TypeCorrect == Spec => []TypeOK
  BY TypeInit, TypeStep, PTL DEF Spec

-----------------------------------------------------------------------------
(* The inductive invariant.                                                *)

Deciding == {"boundary", "select", "record", "commit"}

(* Who has written the preferences row holds it, and so does the worker    *)
(* from its decision on; the worker works on its batch under the lock.     *)
Locks ==
    /\ \A s \in Session : put[s].step \in {"mark", "commit"} => prefLock = s
    /\ \A w \in Worker : batch[w].step \in Deciding => prefLock = w
    /\ \A w \in Worker :
         batch[w].step \in Deciding \cup {"find", "user"} => batchLock = w

(* The worker counts or has counted the rows in hand.                      *)
Counting(w) ==
    \/ batch[w].step = "record"
    \/ batch[w].step = "commit" /\ batch[w].does = "digest"

(* What was read under the lock is still so.                               *)
Current ==
    /\ \A s \in Session :
         put[s].step \in {"write", "mark", "commit"} =>
           \/ put[s].old = Off
           \/ prefLock = s /\ put[s].old = schedule
    /\ \A w \in Worker :
         /\ batch[w].step \in Deciding => batch[w].schedule = schedule
         /\ batch[w].step # "commit" => batch[w].does = "nothing"
         /\ batch[w].does = "nothing" => batch[w].marked = {}
         /\ batch[w].step = "select" \/ Counting(w)
              => signature = schedule /\ schedule # Off

Settled(n) == note[n] \notin {"absent", "new"}

(* What has been counted is settled, or will be by the commit.             *)
Counted ==
    /\ \A d \in digests : \A n \in d.notes : Settled(n)
    /\ \A w \in Worker : Counting(w) =>
         /\ \A d \in digests : d.notes \cap batch[w].picked = {}
         /\ \A n \in batch[w].picked : note[n] # "absent"
         /\ batch[w].step = "commit" =>
              \A n \in batch[w].picked : n \in batch[w].marked \/ Settled(n)

(* While a subscription is in force the open rows came after its boundary, *)
(* and who is about to draw a boundary closes what came before it.         *)
Bounded ==
    /\ since <= now
    /\ \A s \in Session : put[s].start <= now
    /\ \A w \in Worker : batch[w].clock <= now
    /\ (signature = schedule /\ schedule # Off) => \A n \in New : arrived[n] >= since
    /\ \A s \in Session :
         (put[s].step = "commit" /\ put[s].schedule # put[s].old) =>
           \A n \in New : n \in put[s].marked \/ arrived[n] >= put[s].start
    /\ \A w \in Worker :
         (batch[w].step = "commit" /\ batch[w].does = "boundary") =>
           \A n \in New : n \in batch[w].marked \/ arrived[n] >= batch[w].clock
    /\ \A w \in Worker : Counting(w) =>
         \A n \in batch[w].picked : arrived[n] >= since

IInv == TypeOK /\ Locks /\ Current /\ Counted /\ CountedOnce /\ Bounded /\ NoReplay

(* A step of a request leaves the other requests and the workers alone.    *)
LEMMA PutFrame ==
    ASSUME TypeOK, NEW s \in Session,
           PutStep(s) \/ FailPut(s) \/ \E patch \in Patch : BeginPut(s, patch)
    PROVE  /\ \A t \in Session \ {s} : put'[t] = put[t]
           /\ UNCHANGED <<now, arrived, digests, batchLock, batch>>
  BY DEF TypeOK, PutStep, FailPut, BeginPut, ReadRow, ReadDefaults, PutRefused, WriteRow,
         MarkBacklog, CommitPut, EndPut, noteVars, lockVars

(* A step of a worker leaves the other workers and the requests alone.     *)
LEMMA BatchFrame ==
    ASSUME TypeOK, NEW w \in Worker, BatchStep(w) \/ FailBatch(w)
    PROVE  /\ \A v \in Worker \ {w} : batch'[v] = batch[v]
           /\ UNCHANGED <<now, prefVars, arrived, put>>
  BY DEF TypeOK, BatchStep, FailBatch, Wake, TakeBatchLock, BatchLockTaken, Find,
         NoCandidate, LockUser, ReadUser, CloseBacklog, Select, Record, CommitBatch,
         EndBatch, Goto, noteVars, lockVars, prefVars

(* What a request does to its own record and to the lock of the row.       *)
LEMMA PutEffect ==
    ASSUME TypeOK, NEW s \in Session,
           PutStep(s) \/ FailPut(s) \/ \E patch \in Patch : BeginPut(s, patch)
    PROVE  \/ /\ put'[s].step \in {"idle", "read"}
              /\ put'[s].start <= now
              /\ prefLock' = prefLock \/ (prefLock = s /\ prefLock' = Nobody)
              /\ (UNCHANGED <<prefVars, stateVars, note>>) \/ CommitPut(s)
           \/ /\ put'[s].step = "write" /\ put'[s].start = put[s].start
              /\ \/ put'[s].old = Off /\ prefLock' = prefLock
                 \/ put'[s].old = schedule /\ prefLock = Nobody /\ prefLock' = s
              /\ UNCHANGED <<prefVars, stateVars, note>>
           \/ /\ put[s].step = "write" /\ put'[s].step \in {"mark", "commit"}
              /\ put'[s].step = "commit" => put[s].schedule = put[s].old
              /\ put'[s].start = put[s].start /\ put'[s].old = put[s].old
              /\ put'[s].schedule = put[s].schedule
              /\ prefLock \in {Nobody, s} /\ prefLock' = s
              /\ UNCHANGED <<prefVars, stateVars, note>>
           \/ /\ put[s].step = "mark" /\ put'[s].step = "commit"
              /\ put'[s].start = put[s].start /\ put'[s].old = put[s].old
              /\ put'[s].schedule = put[s].schedule /\ put'[s].marked = New
              /\ prefLock' = prefLock
              /\ UNCHANGED <<prefVars, stateVars, note>>
<1> USE DEF prefVars, stateVars, noteVars, lockVars
<1>0. put[s] \in Put /\ now \in Int /\ 0 <= now
  BY DigestAssumption DEF TypeOK, Time
<1>1. ASSUME NEW patch \in Patch, BeginPut(s, patch)
      PROVE  put'[s].step = "read" /\ put'[s].start = now
  BY <1>1 DEF BeginPut, TypeOK, IdlePut
<1>2. ASSUME EndPut(s)
      PROVE  /\ put'[s].step = "idle" /\ put'[s].start = 0
             /\ prefLock' = prefLock \/ (prefLock = s /\ prefLock' = Nobody)
  <2>1. put'[s] = IdlePut /\ prefLock' = Release(prefLock, s)
    BY <1>2 DEF EndPut, TypeOK
  <2>2. IdlePut.step = "idle" /\ IdlePut.start = 0
    BY DEF IdlePut
  <2>3. QED
    BY <2>1, <2>2 DEF Release
<1>3. ASSUME NEW current, NEW appearance
      PROVE  LET q == Patched(put[s], current, appearance) IN
             q.step = "write" /\ q.start = put[s].start /\ q.old = current
  BY <1>0 DEF Patched, Put
<1>4. CASE ReadRow(s)
  BY <1>3, <1>4 DEF ReadRow, TypeOK
<1>5. CASE ReadDefaults(s)
  BY <1>3, <1>5 DEF ReadDefaults, TypeOK
<1>6. CASE WriteRow(s)
  BY <1>0, <1>6 DEF WriteRow, TypeOK, Put
<1>7. CASE MarkBacklog(s)
  BY <1>0, <1>7 DEF MarkBacklog, TypeOK, Put
<1>8. CASE PutRefused(s)
  BY <1>0, <1>2, <1>8 DEF PutRefused
<1>9. CASE FailPut(s)
  BY <1>0, <1>2, <1>9 DEF FailPut
<1>10. CASE CommitPut(s)
  BY <1>0, <1>2, <1>10 DEF CommitPut
<1>11. CASE \E patch \in Patch : BeginPut(s, patch)
  <2>1. PICK patch \in Patch : BeginPut(s, patch)
    BY <1>11
  <2>2. put'[s].step = "read" /\ put'[s].start = now
    BY <1>1, <2>1
  <2>3. UNCHANGED <<prefLock, prefVars, stateVars, note>>
    BY <2>1 DEF BeginPut
  <2>4. QED
    BY <1>0, <2>2, <2>3
<1>12. QED
  BY <1>4, <1>5, <1>6, <1>7, <1>8, <1>9, <1>10, <1>11 DEF PutStep

(* What a worker does to its own record and to the locks.                  *)
LEMMA BatchEffect ==
    ASSUME TypeOK, NEW w \in Worker, BatchStep(w) \/ FailBatch(w)
    PROVE  \/ /\ batch'[w] = IdleBatch
              /\ prefLock' = Release(prefLock, w) /\ batchLock' = Release(batchLock, w)
              /\ (UNCHANGED <<stateVars, note, digests>>) \/ CommitBatch(w)
           \/ /\ batch'[w].step = "lock" /\ batch'[w].clock = now
              /\ batch'[w].does = "nothing" /\ batch'[w].marked = {}
              /\ UNCHANGED <<stateVars, note, digests, prefLock, batchLock>>
           \/ /\ batch[w].step \in {"lock", "find"} /\ batch'[w].step \in {"find", "user"}
              /\ batch[w].step = "lock" => batchLock = Nobody /\ batchLock' = w
              /\ batch[w].step = "find" => batchLock' = batchLock
              /\ batch'[w] = [batch[w] EXCEPT !.step = batch'[w].step]
              /\ UNCHANGED <<stateVars, note, digests, prefLock>>
           \/ /\ batch[w].step = "user" /\ prefLock = Nobody /\ prefLock' = w
              /\ batch'[w] = [batch[w] EXCEPT !.step = Decision(batch[w].clock),
                                              !.schedule = schedule, !.last = last]
              /\ UNCHANGED <<stateVars, note, digests, batchLock>>
           \/ /\ CloseBacklog(w) \/ Select(w) \/ Record(w)
              /\ UNCHANGED <<stateVars, note, digests, prefLock, batchLock>>
<1> USE DEF prefVars, stateVars, noteVars, lockVars
<1>0. batch[w] \in Batch
  BY DEF TypeOK
<1>1. CASE Wake(w)
  BY <1>1 DEF Wake, TypeOK, IdleBatch
<1>2. CASE TakeBatchLock(w)
  BY <1>0, <1>2 DEF TakeBatchLock, Goto, TypeOK, Batch
<1>3. CASE Find(w)
  BY <1>0, <1>3 DEF Find, Goto, TypeOK, Batch
<1>4. CASE BatchLockTaken(w) \/ NoCandidate(w) \/ FailBatch(w) \/ CommitBatch(w)
  BY <1>4 DEF BatchLockTaken, NoCandidate, FailBatch, CommitBatch, EndBatch, TypeOK
<1>5. CASE LockUser(w)
  BY <1>5 DEF LockUser, ReadUser, TypeOK
<1>6. CASE CloseBacklog(w) \/ Select(w) \/ Record(w)
  BY <1>6 DEF CloseBacklog, Select, Record
<1>7. QED
  BY <1>1, <1>2, <1>3, <1>4, <1>5, <1>6 DEF BatchStep

(* The two locks of the worker and the lock of a request are never shared. *)
LEMMA LocksStep == TypeOK /\ Locks /\ [Next]_vars => Locks'
<1> SUFFICES ASSUME TypeOK, Locks, [Next]_vars PROVE Locks'
  OBVIOUS
<1>0. /\ \A s \in Session, w \in Worker : s # w
      /\ \A x \in Session \cup Worker : x # Nobody
  BY DigestAssumption
<1> USE DEF Deciding
<1>1. ASSUME NEW s \in Session,
             PutStep(s) \/ FailPut(s) \/ \E patch \in Patch : BeginPut(s, patch)
      PROVE  Locks'
  <2>1. UNCHANGED <<batch, batchLock>> /\ \A t \in Session \ {s} : put'[t] = put[t]
    BY <1>1, PutFrame
  <2>2. put'[s].step \in {"mark", "commit"} => prefLock' = s
    BY <1>1, PutEffect DEF Locks
  <2>3. \A x \in (Session \cup Worker) \ {s} : prefLock = x => prefLock' = x
    <3>1. \/ prefLock' = prefLock \/ prefLock = Nobody \/ prefLock = s
      BY <1>1, PutEffect
    <3>2. QED
      BY <1>0, <3>1
  <2>4. QED
    BY <1>0, <2>1, <2>2, <2>3 DEF Locks
<1>2. ASSUME NEW w \in Worker, BatchStep(w) \/ FailBatch(w)
      PROVE  Locks'
  <2>1. put' = put /\ \A v \in Worker \ {w} : batch'[v] = batch[v]
    BY <1>2, BatchFrame
  <2>2. batch[w] \in Batch /\ IdleBatch.step = "idle"
    BY DEF TypeOK, IdleBatch
  <2>3. /\ batch'[w].step \in Deciding => prefLock' = w
        /\ batch'[w].step \in Deciding \cup {"find", "user"} => batchLock' = w
    <3>1. CASE CloseBacklog(w) \/ Select(w) \/ Record(w)
      BY <3>1, <2>2 DEF CloseBacklog, Select, Record, Locks, lockVars
    <3>2. CASE batch[w].step = "user"
      BY <1>2, <2>2, <3>2, BatchEffect DEF Locks, Decision, Batch, CloseBacklog, Select,
                                           Record
    <3>3. QED
      BY <1>2, <2>2, <3>1, <3>2, BatchEffect DEF Locks, Batch
  <2>4. /\ \A x \in (Session \cup Worker) \ {w} : prefLock = x => prefLock' = x
        /\ \A x \in Worker \ {w} : batchLock = x => batchLock' = x
    BY <1>0, <1>2, BatchEffect DEF Release
  <2>5. QED
    BY <1>0, <2>1, <2>3, <2>4 DEF Locks
<1>3. ASSUME NEW n \in Note, Deliver(n) \/ Hide(n) PROVE Locks'
  BY <1>3 DEF Deliver, Hide, Locks, lockVars
<1>4. CASE Tick \/ UNCHANGED vars
  BY <1>4 DEF Tick, vars, Locks, lockVars
<1>5. QED
  BY <1>1, <1>2, <1>3, <1>4 DEF Next

(* Only the holder of the preferences row commits to it, to the state of   *)
(* the schedule or to the notifications, and a lock is kept by its holder. *)
LEMMA PutUnderLock ==
    ASSUME TypeOK, Locks, NEW s \in Session,
           PutStep(s) \/ FailPut(s) \/ \E patch \in Patch : BeginPut(s, patch)
    PROVE  /\ \A x \in (Session \cup Worker) \ {s} : prefLock = x => prefLock' = x
           /\ (UNCHANGED <<prefVars, stateVars, note>>) \/ (CommitPut(s) /\ prefLock = s)
<1>1. \A x \in Session \cup Worker : x # Nobody
  BY DigestAssumption
<1>2. prefLock' = prefLock \/ prefLock = Nobody \/ prefLock = s
  BY PutEffect
<1>3. (UNCHANGED <<prefVars, stateVars, note>>) \/ CommitPut(s)
  BY PutEffect
<1>4. CommitPut(s) => prefLock = s
  BY DEF CommitPut, Locks
<1>5. QED
  BY <1>1, <1>2, <1>3, <1>4

(* The same of the worker.                                                 *)
LEMMA BatchUnderLock ==
    ASSUME TypeOK, Locks, NEW w \in Worker, BatchStep(w) \/ FailBatch(w)
    PROVE  /\ \A x \in (Session \cup Worker) \ {w} : prefLock = x => prefLock' = x
           /\ \/ UNCHANGED <<stateVars, note, digests>>
              \/ CommitBatch(w) /\ prefLock = w
<1>1. \A x \in Session \cup Worker : x # Nobody
  BY DigestAssumption
<1>2. prefLock' = prefLock \/ prefLock = Nobody \/ prefLock = w
  <2>1. CloseBacklog(w) \/ Select(w) \/ Record(w) => prefLock' = prefLock
    BY DEF CloseBacklog, Select, Record, lockVars
  <2>2. QED
    BY <2>1, BatchEffect DEF Release
<1>3. (UNCHANGED <<stateVars, note, digests>>) \/ CommitBatch(w)
  BY BatchEffect
<1>4. CommitBatch(w) => prefLock = w
  BY DEF CommitBatch, Locks, Deciding
<1>5. QED
  BY <1>1, <1>2, <1>3, <1>4

(* What was read under the lock stays so until the lock is released.       *)
LEMMA CurrentStep == TypeOK /\ Locks /\ Current /\ [Next]_vars => Current'
<1> SUFFICES ASSUME TypeOK, Locks, Current, [Next]_vars PROVE Current'
  OBVIOUS
<1> USE DEF prefVars, stateVars
<1>0. \A s \in Session, w \in Worker : s # w
  BY DigestAssumption
<1>1. ASSUME NEW s \in Session,
             PutStep(s) \/ FailPut(s) \/ \E patch \in Patch : BeginPut(s, patch)
      PROVE  Current'
  <2>1. UNCHANGED batch /\ \A t \in Session \ {s} : put'[t] = put[t]
    BY <1>1, PutFrame
  <2>2. /\ \A x \in (Session \cup Worker) \ {s} : prefLock = x => prefLock' = x
        /\ (UNCHANGED <<schedule, signature>>) \/ prefLock = s
    BY <1>1, PutUnderLock
  <2>3. put'[s].step \in {"write", "mark", "commit"} =>
           \/ put'[s].old = Off
           \/ prefLock' = s /\ put'[s].old = schedule'
    <3>1. CASE put'[s].step = "write" \/ put[s].step = "write"
      BY <1>1, <3>1, PutEffect DEF Current
    <3>2. CASE put[s].step = "mark"
      BY <1>1, <3>2, PutEffect DEF Current
    <3>3. QED
      BY <1>1, <3>1, <3>2, PutEffect
  <2>4. ASSUME NEW t \in Session \ {s}, put'[t].step \in {"write", "mark", "commit"}
        PROVE  put'[t].old = Off \/ (prefLock' = t /\ put'[t].old = schedule')
    BY <2>1, <2>2, <2>4 DEF Current
  <2>5. ASSUME NEW w \in Worker, batch'[w].step \in Deciding
        PROVE  UNCHANGED <<schedule, signature>>
    BY <1>0, <2>1, <2>2, <2>5 DEF Locks
  <2>6. QED
    BY <2>1, <2>3, <2>4, <2>5 DEF Current, Counting, Deciding
<1>2. ASSUME NEW w \in Worker, BatchStep(w) \/ FailBatch(w)
      PROVE  Current'
  <2>1. UNCHANGED <<put, schedule>> /\ \A v \in Worker \ {w} : batch'[v] = batch[v]
    BY <1>2, BatchFrame
  <2>2. /\ \A x \in (Session \cup Worker) \ {w} : prefLock = x => prefLock' = x
        /\ (UNCHANGED signature) \/ prefLock = w
    BY <1>2, BatchUnderLock
  <2>3. ASSUME NEW s \in Session, put'[s].step \in {"write", "mark", "commit"}
        PROVE  put'[s].old = Off \/ (prefLock' = s /\ put'[s].old = schedule')
    BY <1>0, <2>1, <2>2, <2>3 DEF Current
  <2>4. ASSUME NEW v \in Worker \ {w}, batch'[v].step \in Deciding
        PROVE  UNCHANGED signature
    BY <2>1, <2>2, <2>4 DEF Locks
  <2>5. batch[w] \in Batch
    BY DEF TypeOK
  <2>6. /\ batch'[w].step \in Deciding => batch'[w].schedule = schedule
        /\ batch'[w].step # "commit" => batch'[w].does = "nothing"
        /\ batch'[w].does = "nothing" => batch'[w].marked = {}
        /\ batch'[w].step = "select" \/ Counting(w)'
              => signature' = schedule /\ schedule # Off
    <3>1. CASE batch'[w] = IdleBatch
      BY <3>1 DEF IdleBatch, Deciding, Counting
    <3>2. CASE batch'[w].step = "lock" /\ batch'[w].does = "nothing"
               /\ batch'[w].marked = {}
      BY <3>2 DEF Deciding, Counting
    <3>3. CASE /\ batch[w].step \in {"lock", "find"} /\ batch'[w].step \in {"find", "user"}
               /\ batch'[w] = [batch[w] EXCEPT !.step = batch'[w].step]
      BY <2>5, <3>3 DEF Batch, Deciding, Counting, Current
    <3>4. CASE /\ batch[w].step = "user" /\ UNCHANGED signature
               /\ batch'[w] = [batch[w] EXCEPT !.step = Decision(batch[w].clock),
                                               !.schedule = schedule, !.last = last]
      <4>1. /\ Decision(batch[w].clock) \in {"boundary", "select", "commit"}
            /\ Decision(batch[w].clock) = "select" =>
                 signature = schedule /\ schedule.mode \in {"hourly", "daily"}
        BY DEF Decision, Due
      <4>2. /\ batch'[w].step = Decision(batch[w].clock)
            /\ batch'[w].schedule = schedule
            /\ batch'[w].does = "nothing" /\ batch'[w].marked = {}
        BY <2>5, <3>4 DEF Batch, Current
      <4>3. Off.mode = "off"
        BY DEF Off
      <4>4. QED
        BY <3>4, <4>1, <4>2, <4>3 DEF Counting
    <3>5. CASE (CloseBacklog(w) \/ Select(w) \/ Record(w)) /\ UNCHANGED signature
      <4>1. CASE CloseBacklog(w)
        BY <2>5, <3>5, <4>1 DEF CloseBacklog, TypeOK, Batch, Current, Counting, Deciding
      <4>2. CASE Select(w)
        BY <2>5, <3>5, <4>2 DEF Select, TypeOK, Batch, Current, Counting, Deciding
      <4>3. CASE Record(w)
        BY <2>5, <3>5, <4>3 DEF Record, TypeOK, Batch, Current, Counting, Deciding
      <4>4. QED
        BY <3>5, <4>1, <4>2, <4>3
    <3>6. QED
      BY <1>2, <3>1, <3>2, <3>3, <3>4, <3>5, BatchEffect
  <2>7. QED
    BY <2>1, <2>3, <2>4, <2>6 DEF Current, Counting, Deciding
<1>3. ASSUME NEW n \in Note, Deliver(n) \/ Hide(n) PROVE Current'
  BY <1>3 DEF Deliver, Hide, Current, Counting, lockVars
<1>4. CASE Tick \/ UNCHANGED vars
  BY <1>4 DEF Tick, vars, Current, Counting, lockVars
<1>5. QED
  BY <1>1, <1>2, <1>3, <1>4 DEF Next

(* A row that is there stays, and a settled row stays settled; only a      *)
(* delivery makes a row new.                                               *)
LEMMA NotesSettle ==
    ASSUME TypeOK, [Next]_vars
    PROVE  /\ \A n \in Note : Settled(n) => Settled(n)'
           /\ \A n \in Note : note[n] # "absent" => note'[n] # "absent"
           /\ \A n \in Note : (n \in New' /\ n \notin New) => arrived'[n] = now
           /\ \A n \in Note : note[n] # "absent" => arrived'[n] = arrived[n]
<1> USE DEF noteVars, prefVars, stateVars, Settled, New
<1>1. ASSUME note' = note, arrived' = arrived
      PROVE  /\ \A n \in Note : Settled(n) => Settled(n)'
             /\ \A n \in Note : note[n] # "absent" => note'[n] # "absent"
             /\ New' = New
  BY <1>1
<1>2. ASSUME NEW notes \in SUBSET Note, NEW status \in {"boundary", "digested"},
             note' = Become(notes, status), arrived' = arrived
      PROVE  /\ \A n \in Note : Settled(n) => Settled(n)'
             /\ \A n \in Note : note[n] # "absent" => note'[n] # "absent"
             /\ New' \subseteq New
  BY <1>2, BecomeFacts DEF NoteStatus
<1>3. ASSUME NEW s \in Session,
             PutStep(s) \/ FailPut(s) \/ \E patch \in Patch : BeginPut(s, patch)
      PROVE  arrived' = arrived
             /\ (note' = note \/ note' = Become(put[s].marked, "boundary"))
             /\ put[s].marked \in SUBSET Note
  <2>1. put[s].marked \in SUBSET Note
    BY DEF TypeOK, Put
  <2>2. CommitPut(s) => note' = Become(put[s].marked, "boundary")
    BY DEF CommitPut
  <2>3. QED
    BY <1>3, <2>1, <2>2, PutFrame, PutEffect
<1>4. ASSUME NEW w \in Worker, BatchStep(w) \/ FailBatch(w)
      PROVE  arrived' = arrived
             /\ \/ note' = note
                \/ note' = Become(batch[w].marked, "boundary")
                \/ note' = Become(batch[w].marked, "digested")
             /\ batch[w].marked \in SUBSET Note
  <2>1. batch[w].marked \in SUBSET Note
    BY DEF TypeOK, Batch
  <2>2. CommitBatch(w) => \/ note' = Become(batch[w].marked, "boundary")
                          \/ note' = Become(batch[w].marked, "digested")
    BY DEF CommitBatch
  <2>3. CloseBacklog(w) \/ Select(w) \/ Record(w) => note' = note
    BY DEF CloseBacklog, Select, Record
  <2>4. QED
    BY <1>4, <2>1, <2>2, <2>3, BatchFrame, BatchEffect
<1>5. ASSUME NEW n \in Note, Deliver(n)
      PROVE  /\ note[n] = "absent" /\ note' = [note EXCEPT ![n] = "new"]
             /\ arrived' = [arrived EXCEPT ![n] = now]
  BY <1>5 DEF Deliver
<1>6. ASSUME NEW n \in Note, Hide(n)
      PROVE  note' = [note EXCEPT ![n] = "hidden"] /\ arrived' = arrived
  BY <1>6 DEF Hide
<1>7. CASE Tick \/ UNCHANGED vars
  BY <1>7 DEF Tick, vars
<1>8. CASE \E n \in Note : Deliver(n) \/ Hide(n)
  BY <1>5, <1>6, <1>8 DEF TypeOK
<1>9. CASE \E s \in Session : PutStep(s) \/ FailPut(s)
                             \/ \E patch \in Patch : BeginPut(s, patch)
  <2>1. PICK s \in Session : PutStep(s) \/ FailPut(s)
                             \/ \E patch \in Patch : BeginPut(s, patch)
    BY <1>9
  <2>2. QED
    BY <1>1, <1>2, <1>3, <2>1
<1>10. CASE \E w \in Worker : BatchStep(w) \/ FailBatch(w)
  <2>1. PICK w \in Worker : BatchStep(w) \/ FailBatch(w)
    BY <1>10
  <2>2. QED
    BY <1>1, <1>2, <1>4, <2>1
<1>11. QED
  BY <1>7, <1>8, <1>9, <1>10 DEF Next

(* What a commit adds to the digests.                                      *)
LEMMA CommitRecords ==
    ASSUME NEW w \in Worker, CommitBatch(w)
    PROVE  /\ \A d \in digests' : \/ d \in digests
                                  \/ /\ Counting(w)
                                     /\ d.notes = batch[w].picked /\ d.since = since
           /\ \A d, e \in digests' \ digests : d = e
<1>1. CASE batch[w].does = "digest"
  <2>1. digests' = Recorded(w) /\ Counting(w)
    BY <1>1 DEF CommitBatch, Counting
  <2>2. QED
    BY <2>1 DEF Recorded
<1>2. CASE batch[w].does # "digest"
  BY <1>2 DEF CommitBatch
<1>3. QED
  BY <1>1, <1>2

(* A row that has been counted is settled by the commit that records it.   *)
LEMMA CountedStep ==
    TypeOK /\ Locks /\ Current /\ Counted /\ CountedOnce /\ [Next]_vars
      => Counted' /\ CountedOnce'
<1> SUFFICES ASSUME TypeOK, Locks, Current, Counted, CountedOnce, [Next]_vars
             PROVE  Counted' /\ CountedOnce'
  OBVIOUS
<1>1. /\ \A n \in Note : Settled(n) => Settled(n)'
      /\ \A n \in Note : note[n] # "absent" => note'[n] # "absent"
  BY NotesSettle
<1>2. /\ \A d \in digests : d.notes \in SUBSET Note
      /\ \A w \in Worker : batch[w] \in Batch /\ batch[w].picked \in SUBSET Note
  BY DEF TypeOK, Batch
<1>3. ASSUME digests' = digests, batch' = batch PROVE Counted' /\ CountedOnce'
  BY <1>1, <1>2, <1>3 DEF Counted, CountedOnce, Counting
<1>4. ASSUME NEW w \in Worker, BatchStep(w) \/ FailBatch(w)
      PROVE  Counted' /\ CountedOnce'
  <2>1. \A v \in Worker \ {w} : batch'[v] = batch[v]
    BY <1>4, BatchFrame
  <2>2. digests' = digests \/ (CommitBatch(w) /\ prefLock = w)
    BY <1>4, BatchUnderLock
  <2>3. ASSUME NEW v \in Worker \ {w}, Counting(v)' PROVE digests' = digests
    BY <2>1, <2>2, <2>3 DEF Locks, Counting, Deciding
  <2>4. \A d \in digests' : d \in digests \/ (/\ Counting(w) /\ CommitBatch(w)
                                              /\ d.notes = batch[w].picked)
    BY <2>2, CommitRecords
  <2>5. ASSUME CommitBatch(w), Counting(w), NEW n \in batch[w].picked PROVE Settled(n)'
    <3>1. n \in batch[w].marked \/ Settled(n)
      BY <2>5 DEF Counted, CommitBatch
    <3>2. n \in Note /\ batch[w].marked \in SUBSET Note
      BY <1>2, <2>5 DEF Batch
    <3>3. note' = Become(batch[w].marked, "digested")
      BY <2>5 DEF CommitBatch, Counting
    <3>4. n \in batch[w].marked => note'[n] = "digested"
      BY <3>2, <3>3 DEF Become
    <3>5. QED
      BY <1>1, <3>1, <3>2, <3>4 DEF Settled
  <2>6. \A d \in digests' : \A n \in d.notes : Settled(n)'
    <3>1. SUFFICES ASSUME NEW d \in digests', NEW n \in d.notes PROVE Settled(n)'
      OBVIOUS
    <3>2. CASE d \in digests
      BY <1>1, <1>2, <3>2 DEF Counted
    <3>3. CASE Counting(w) /\ CommitBatch(w) /\ d.notes = batch[w].picked
      BY <2>5, <3>3
    <3>4. QED
      BY <2>4, <3>2, <3>3
  <2>7. CountedOnce'
    <3>1. SUFFICES ASSUME NEW d \in digests', NEW e \in digests', d # e
                   PROVE  d.notes \cap e.notes = {}
      BY DEF CountedOnce
    <3>2. CASE d \in digests /\ e \in digests
      BY <3>1, <3>2 DEF CountedOnce
    <3>3. d \in digests \/ e \in digests
      BY <2>2, <3>1, CommitRecords
    <3>4. QED
      BY <2>4, <3>2, <3>3 DEF Counted
  <2>8. ASSUME Counting(w)'
        PROVE  /\ \A d \in digests' : d.notes \cap batch'[w].picked = {}
               /\ \A n \in batch'[w].picked : note'[n] # "absent"
               /\ batch'[w].step = "commit" =>
                    \A n \in batch'[w].picked : n \in batch'[w].marked \/ Settled(n)'
    <3>1. CASE Select(w)
      <4>1. /\ batch'[w].step = "record" /\ batch'[w].picked = New
            /\ digests' = digests /\ note' = note
        BY <1>2, <3>1 DEF Select, TypeOK, Batch, noteVars
      <4>2. QED
        BY <1>2, <4>1 DEF Counted, Settled, New
    <3>2. CASE Record(w)
      <4>1. /\ batch[w].step = "record" /\ batch'[w].picked = batch[w].picked
            /\ batch'[w].marked = batch[w].picked \cap New
            /\ digests' = digests /\ note' = note
        BY <1>2, <3>2 DEF Record, TypeOK, Batch, noteVars
      <4>2. Counting(w)
        BY <4>1 DEF Counting
      <4>3. QED
        BY <1>2, <4>1, <4>2 DEF Counted, Settled, New
    <3>3. CASE ~(Select(w) \/ Record(w))
      <4>1. CASE CloseBacklog(w)
        BY <1>2, <2>8, <4>1 DEF CloseBacklog, TypeOK, Batch, Counting
      <4>2. CASE batch'[w] = IdleBatch
        BY <2>8, <4>2 DEF Counting, IdleBatch
      <4>3. CASE batch'[w].step \in {"lock", "find", "user"}
        BY <2>8, <4>3 DEF Counting
      <4>4. CASE /\ batch[w].step = "user"
                 /\ batch'[w] = [batch[w] EXCEPT !.step = Decision(batch[w].clock),
                                                 !.schedule = schedule, !.last = last]
        <5>1. batch'[w].does = "nothing" /\ batch'[w].step # "record"
          BY <1>2, <4>4 DEF Batch, Current, Decision
        <5>2. QED
          BY <2>8, <5>1 DEF Counting
      <4>5. QED
        BY <1>4, <3>3, <4>1, <4>2, <4>3, <4>4, BatchEffect
    <3>4. QED
      BY <3>1, <3>2, <3>3
  <2>9. ASSUME NEW v \in Worker \ {w}, Counting(v)'
        PROVE  /\ \A d \in digests' : d.notes \cap batch'[v].picked = {}
               /\ \A n \in batch'[v].picked : note'[n] # "absent"
               /\ batch'[v].step = "commit" =>
                    \A n \in batch'[v].picked : n \in batch'[v].marked \/ Settled(n)'
    <3>1. batch'[v] = batch[v] /\ digests' = digests /\ Counting(v)
      BY <2>1, <2>3, <2>9 DEF Counting
    <3>2. QED
      BY <1>1, <1>2, <3>1 DEF Counted
  <2>10. QED
    BY <2>6, <2>7, <2>8, <2>9 DEF Counted
<1>5. ASSUME NEW s \in Session,
             PutStep(s) \/ FailPut(s) \/ \E patch \in Patch : BeginPut(s, patch)
      PROVE  Counted' /\ CountedOnce'
  BY <1>3, <1>5, PutFrame
<1>6. ASSUME NEW n \in Note, Deliver(n) \/ Hide(n) PROVE Counted' /\ CountedOnce'
  BY <1>3, <1>6 DEF Deliver, Hide
<1>7. CASE Tick \/ UNCHANGED vars
  BY <1>3, <1>7 DEF Tick, vars
<1>8. QED
  BY <1>4, <1>5, <1>6, <1>7 DEF Next

(* The boundaries between subscriptions hold back what came before them.   *)
LEMMA BoundedStep ==
    TypeOK /\ Locks /\ Current /\ Counted /\ Bounded /\ NoReplay /\ [Next]_vars
      => Bounded' /\ NoReplay'
<1> SUFFICES ASSUME TypeOK, Locks, Current, Counted, Bounded, NoReplay, [Next]_vars
             PROVE  Bounded' /\ NoReplay'
  OBVIOUS
<1> USE DEF prefVars, stateVars
<1>0. /\ now \in Int /\ since \in Int /\ \A n \in Note : arrived[n] \in Int
      /\ \A s \in Session : put[s] \in Put /\ put[s].start \in Int
      /\ \A w \in Worker : /\ batch[w] \in Batch /\ batch[w].clock \in Int
                           /\ batch[w].picked \in SUBSET Note
      /\ \A d \in digests : d.notes \in SUBSET Note /\ d.since \in Int
      /\ New \in SUBSET Note
  BY DigestAssumption DEF TypeOK, Time, Put, Batch, New
<1>1. /\ New' \subseteq Note
      /\ \A n \in New' : (n \in New /\ arrived'[n] = arrived[n]) \/ arrived'[n] = now
  <2>1. \A n \in New : note[n] # "absent"
    BY DEF New
  <2>2. New' \subseteq Note
    BY DEF New
  <2>3. QED
    BY <2>1, <2>2, NotesSettle
<1>2. /\ \A d \in digests : \A n \in d.notes : arrived'[n] = arrived[n]
      /\ \A w \in Worker : Counting(w) =>
           \A n \in batch[w].picked : arrived'[n] = arrived[n]
  BY <1>0, NotesSettle DEF Counted, Settled
<1>3. ASSUME UNCHANGED <<since, schedule, signature, digests, put, batch>>,
             now' \in Int, now' >= now
      PROVE  Bounded' /\ NoReplay'
  <2>1. since' <= now' /\ (\A s \in Session : put'[s].start <= now')
        /\ (\A w \in Worker : batch'[w].clock <= now')
    BY <1>0, <1>3 DEF Bounded
  <2>2. (signature' = schedule' /\ schedule' # Off) => \A n \in New' : arrived'[n] >= since'
    BY <1>0, <1>1, <1>3 DEF Bounded
  <2>3. \A s \in Session :
          (put'[s].step = "commit" /\ put'[s].schedule # put'[s].old) =>
            \A n \in New' : n \in put'[s].marked \/ arrived'[n] >= put'[s].start
    BY <1>0, <1>1, <1>3 DEF Bounded
  <2>4. \A w \in Worker :
          (batch'[w].step = "commit" /\ batch'[w].does = "boundary") =>
            \A n \in New' : n \in batch'[w].marked \/ arrived'[n] >= batch'[w].clock
    BY <1>0, <1>1, <1>3 DEF Bounded
  <2>5. \A w \in Worker : Counting(w)' => \A n \in batch'[w].picked : arrived'[n] >= since'
    BY <1>0, <1>2, <1>3 DEF Bounded, Counting
  <2>6. NoReplay'
    BY <1>0, <1>2, <1>3 DEF NoReplay
  <2>7. QED
    BY <2>1, <2>2, <2>3, <2>4, <2>5, <2>6 DEF Bounded
<1>4. ASSUME NEW s \in Session,
             PutStep(s) \/ FailPut(s) \/ \E patch \in Patch : BeginPut(s, patch)
      PROVE  Bounded' /\ NoReplay'
  <2>0. /\ UNCHANGED <<now, arrived, digests, batch>>
        /\ \A t \in Session \ {s} : put'[t] = put[t]
    BY <1>4, PutFrame
  <2>1. (UNCHANGED <<since, schedule, signature, note>>) \/ (CommitPut(s) /\ prefLock = s)
    BY <1>4, PutUnderLock
  <2>2. since' <= now' /\ (\A t \in Session : put'[t].start <= now')
        /\ (\A w \in Worker : batch'[w].clock <= now')
    <3>1. CommitPut(s) => since' \in {since, put[s].start}
      BY DEF CommitPut
    <3>2. put'[s].start <= now
      BY <1>4, PutEffect DEF Bounded
    <3>3. QED
      BY <2>0, <2>1, <3>1, <3>2 DEF Bounded
  <2>3. (signature' = schedule' /\ schedule' # Off) => \A n \in New' : arrived'[n] >= since'
    <3>1. CASE UNCHANGED <<since, schedule, signature, note>>
      BY <1>0, <1>1, <3>1 DEF Bounded
    <3>2. CASE CommitPut(s) /\ put[s].schedule # put[s].old
      <4>1. since' = put[s].start /\ put[s].step = "commit"
            /\ note' = Become(put[s].marked, "boundary")
        BY <3>2 DEF CommitPut
      <4>2. \A n \in New' : n \in New /\ n \notin put[s].marked
        BY <4>1 DEF New, Become
      <4>3. QED
        BY <1>0, <2>0, <3>2, <4>1, <4>2 DEF Bounded
    <3>3. CASE CommitPut(s) /\ put[s].schedule = put[s].old
      <4>1. /\ put[s].step = "commit" /\ schedule' = put[s].old
            /\ UNCHANGED <<since, signature>>
        BY <3>3 DEF CommitPut
      <4>2. put[s].old = Off \/ put[s].old = schedule
        BY <4>1 DEF Current
      <4>3. QED
        BY <1>0, <1>1, <4>1, <4>2 DEF Bounded
    <3>4. QED
      BY <2>1, <3>1, <3>2, <3>3
  <2>4. \A t \in Session :
          (put'[t].step = "commit" /\ put'[t].schedule # put'[t].old) =>
            \A n \in New' : n \in put'[t].marked \/ arrived'[n] >= put'[t].start
    <3>1. ASSUME NEW t \in Session \ {s}, put'[t].step = "commit",
                 put'[t].schedule # put'[t].old
          PROVE  \A n \in New' : n \in put'[t].marked \/ arrived'[n] >= put'[t].start
      BY <1>0, <1>1, <2>0, <3>1 DEF Bounded
    <3>2. ASSUME put'[s].step = "commit", put'[s].schedule # put'[s].old
          PROVE  \A n \in New' : n \in put'[s].marked \/ arrived'[n] >= put'[s].start
      <4>1. note' = note /\ put'[s].marked = New
        BY <1>4, <3>2, PutEffect
      <4>2. QED
        BY <4>1 DEF New
    <3>3. QED
      BY <3>1, <3>2
  <2>5. \A w \in Worker :
          (batch'[w].step = "commit" /\ batch'[w].does = "boundary") =>
            \A n \in New' : n \in batch'[w].marked \/ arrived'[n] >= batch'[w].clock
    BY <1>0, <1>1, <2>0 DEF Bounded
  <2>6. ASSUME NEW w \in Worker, Counting(w)', NEW n \in batch'[w].picked
        PROVE  arrived'[n] >= since'
    <3>1. Counting(w)
      BY <2>0, <2>6 DEF Counting
    <3>2. prefLock = w /\ w # s
      BY <3>1, DigestAssumption DEF Locks, Counting, Deciding
    <3>3. since' = since
      BY <2>1, <3>2
    <3>4. QED
      BY <2>0, <2>6, <3>1, <3>3 DEF Bounded
  <2>7. NoReplay'
    BY <2>0 DEF NoReplay
  <2>8. QED
    BY <2>2, <2>3, <2>4, <2>5, <2>6, <2>7 DEF Bounded
<1>5. ASSUME NEW w \in Worker, BatchStep(w) \/ FailBatch(w)
      PROVE  Bounded' /\ NoReplay'
  <2>0. /\ UNCHANGED <<now, arrived, put, schedule>>
        /\ \A v \in Worker \ {w} : batch'[v] = batch[v]
    BY <1>5, BatchFrame
  <2>1. \/ UNCHANGED <<since, signature, note, digests>>
        \/ CommitBatch(w) /\ prefLock = w
    BY <1>5, BatchUnderLock
  <2>2. batch'[w].clock <= now
    <3>1. IdleBatch.clock <= now /\ now <= now
      BY DigestAssumption DEF IdleBatch, TypeOK, Time
    <3>2. CASE CloseBacklog(w) \/ Select(w) \/ Record(w)
      BY <1>0, <3>2 DEF CloseBacklog, Select, Record, TypeOK, Batch, Bounded
    <3>3. CASE batch'[w] = [batch[w] EXCEPT !.step = batch'[w].step]
      <4>1. batch'[w].clock = batch[w].clock
        BY <1>0, <3>3 DEF Batch
      <4>2. QED
        BY <4>1 DEF Bounded
    <3>4. CASE batch'[w] = [batch[w] EXCEPT !.step = Decision(batch[w].clock),
                                            !.schedule = schedule, !.last = last]
      <4>1. batch'[w].clock = batch[w].clock
        BY <1>0, <3>4 DEF Batch
      <4>2. QED
        BY <4>1 DEF Bounded
    <3>5. CASE batch'[w] = IdleBatch \/ batch'[w].clock = now
      BY <3>1, <3>5
    <3>6. QED
      BY <1>5, <3>2, <3>3, <3>4, <3>5, BatchEffect, Zenon
  <2>3. since' <= now' /\ (\A t \in Session : put'[t].start <= now')
        /\ (\A v \in Worker : batch'[v].clock <= now')
    <3>1. CommitBatch(w) => since' \in {since, batch[w].clock}
      BY DEF CommitBatch
    <3>2. QED
      BY <2>0, <2>1, <2>2, <3>1 DEF Bounded
  <2>4. (signature' = schedule' /\ schedule' # Off) => \A n \in New' : arrived'[n] >= since'
    <3>1. CASE UNCHANGED <<since, signature, note, digests>>
      BY <1>0, <1>1, <2>0, <3>1 DEF Bounded
    <3>2. CASE CommitBatch(w) /\ batch[w].does = "boundary"
      <4>1. since' = batch[w].clock /\ batch[w].step = "commit"
            /\ note' = Become(batch[w].marked, "boundary")
        BY <3>2 DEF CommitBatch
      <4>2. \A n \in New' : n \in New /\ n \notin batch[w].marked
        BY <4>1 DEF New, Become
      <4>3. QED
        BY <1>0, <2>0, <3>2, <4>1, <4>2 DEF Bounded
    <3>3. CASE CommitBatch(w) /\ batch[w].does # "boundary"
      <4>1. since' = since
        BY <3>3 DEF CommitBatch
      <4>2. signature' # signature => signature = schedule /\ schedule # Off
        BY <1>0, <3>3 DEF CommitBatch, Current, Counting, Deciding, Batch
      <4>3. QED
        BY <1>0, <1>1, <2>0, <4>1, <4>2 DEF Bounded
    <3>4. QED
      BY <2>1, <3>1, <3>2, <3>3
  <2>5. \A t \in Session :
          (put'[t].step = "commit" /\ put'[t].schedule # put'[t].old) =>
            \A n \in New' : n \in put'[t].marked \/ arrived'[n] >= put'[t].start
    BY <1>0, <1>1, <2>0 DEF Bounded
  <2>6. \A v \in Worker :
          (batch'[v].step = "commit" /\ batch'[v].does = "boundary") =>
            \A n \in New' : n \in batch'[v].marked \/ arrived'[n] >= batch'[v].clock
    <3>1. ASSUME NEW v \in Worker \ {w}, batch'[v].step = "commit",
                 batch'[v].does = "boundary"
          PROVE  \A n \in New' : n \in batch'[v].marked \/ arrived'[n] >= batch'[v].clock
      BY <1>0, <1>1, <2>0, <3>1 DEF Bounded
    <3>2. ASSUME batch'[w].step = "commit", batch'[w].does = "boundary"
          PROVE  \A n \in New' : n \in batch'[w].marked \/ arrived'[n] >= batch'[w].clock
      <4>1. CASE CloseBacklog(w)
        <5>1. batch'[w].marked = New
          BY <1>0, <4>1 DEF CloseBacklog, TypeOK, Batch
        <5>2. New' = New
          BY <4>1 DEF CloseBacklog, noteVars, New
        <5>3. QED
          BY <5>1, <5>2
      <4>2. CASE Select(w) \/ Record(w)
        <5>1. Select(w) => batch'[w].step = "record"
          BY <1>0 DEF Select, TypeOK, Batch
        <5>2. Record(w) => batch'[w].does = "digest"
          BY <1>0 DEF Record, TypeOK, Batch
        <5>3. QED
          BY <3>2, <4>2, <5>1, <5>2
      <4>3. CASE ~(CloseBacklog(w) \/ Select(w) \/ Record(w))
        <5>1. IdleBatch.step = "idle"
          BY DEF IdleBatch
        <5>2. batch'[w] = [batch[w] EXCEPT !.step = Decision(batch[w].clock),
                                          !.schedule = schedule, !.last = last]
              /\ batch[w].step = "user"
          BY <1>5, <3>2, <4>3, <5>1, BatchEffect
        <5>3. batch'[w].does = "nothing"
          BY <1>0, <5>2 DEF Batch, Current
        <5>4. QED
          BY <3>2, <5>3
      <4>4. QED
        BY <4>1, <4>2, <4>3
    <3>3. QED
      BY <3>1, <3>2
  <2>7. \A v \in Worker : Counting(v)' => \A n \in batch'[v].picked : arrived'[n] >= since'
    <3>1. ASSUME NEW v \in Worker \ {w}, Counting(v)'
          PROVE  \A n \in batch'[v].picked : arrived'[n] >= since'
      <4>1. Counting(v) /\ prefLock = v
        BY <2>0, <3>1 DEF Counting, Locks, Deciding
      <4>2. since' = since
        BY <2>1, <4>1
      <4>3. QED
        BY <2>0, <4>1, <4>2 DEF Bounded
    <3>2. ASSUME Counting(w)'
          PROVE  \A n \in batch'[w].picked : arrived'[n] >= since'
      <4>1. CASE Select(w)
        <5>1. batch[w].step = "select" /\ batch'[w].picked = New /\ since' = since
          BY <4>1 DEF Select, TypeOK
        <5>2. QED
          BY <2>0, <5>1 DEF Bounded, Current
      <4>2. CASE Record(w)
        <5>1. Counting(w) /\ batch'[w].picked = batch[w].picked /\ since' = since
          BY <1>0, <4>2 DEF Record, TypeOK, Counting, Batch
        <5>2. QED
          BY <2>0, <5>1 DEF Bounded
      <4>3. CASE CloseBacklog(w)
        BY <1>0, <3>2, <4>3 DEF CloseBacklog, TypeOK, Counting, Batch
      <4>4. CASE ~(CloseBacklog(w) \/ Select(w) \/ Record(w))
        <5>1. IdleBatch.step = "idle"
          BY DEF IdleBatch
        <5>2. batch'[w] = [batch[w] EXCEPT !.step = Decision(batch[w].clock),
                                          !.schedule = schedule, !.last = last]
              /\ batch[w].step = "user"
          BY <1>5, <3>2, <4>4, <5>1, BatchEffect DEF Counting
        <5>3. batch'[w].does = "nothing" /\ batch'[w].step # "record"
          BY <1>0, <5>2 DEF Batch, Current, Decision
        <5>4. QED
          BY <3>2, <5>3 DEF Counting
      <4>5. QED
        BY <4>1, <4>2, <4>3, <4>4
    <3>3. QED
      BY <3>1, <3>2
  <2>8. NoReplay'
    <3>1. SUFFICES ASSUME NEW d \in digests', NEW n \in d.notes
                   PROVE  arrived'[n] >= d.since
      BY DEF NoReplay
    <3>2. CASE d \in digests
      BY <2>0, <3>2 DEF NoReplay
    <3>3. CASE d \notin digests
      <4>1. Counting(w) /\ d.notes = batch[w].picked /\ d.since = since
        BY <2>1, <3>3, CommitRecords
      <4>2. QED
        BY <2>0, <4>1 DEF Bounded
    <3>4. QED
      BY <3>2, <3>3
  <2>9. QED
    BY <2>0, <2>3, <2>4, <2>5, <2>6, <2>7, <2>8 DEF Bounded
<1>6. ASSUME NEW n \in Note, Deliver(n) \/ Hide(n) PROVE Bounded' /\ NoReplay'
  BY <1>0, <1>3, <1>6 DEF Deliver, Hide
<1>7. CASE Tick \/ UNCHANGED vars
  BY <1>0, <1>3, <1>7 DEF Tick, vars
<1>8. QED
  BY <1>4, <1>5, <1>6, <1>7 DEF Next

-----------------------------------------------------------------------------
(* The conjuncts that need each other, together.                           *)
LEMMA Inductive == Spec => []IInv
<1>1. Init => IInv
  <2>2. ASSUME Init PROVE Locks /\ Current /\ Counted /\ CountedOnce /\ NoReplay
    BY <2>2 DEF Init, IdlePut, IdleBatch, Locks, Current, Counting, Deciding, Counted,
                CountedOnce, NoReplay
  <2>3. ASSUME Init PROVE Bounded
    BY <2>3 DEF Init, IdlePut, IdleBatch, Bounded, Counting, New
  <2>4. QED
    BY <2>2, <2>3, TypeInit DEF IInv
<1>2. IInv /\ [Next]_vars => IInv'
  BY TypeStep, LocksStep, CurrentStep, CountedStep, BoundedStep DEF IInv
<1>3. QED
  BY <1>1, <1>2, PTL DEF Spec

(* A notification is counted in at most one digest.                        *)
THEOREM CountsOnce == Spec => []CountedOnce
<1>1. IInv => CountedOnce
  BY DEF IInv
<1>2. QED
  BY <1>1, Inductive, PTL

(* A digest reports nothing from before its subscription.                  *)
THEOREM NothingIsReplayed == Spec => []NoReplay
<1>1. IInv => NoReplay
  BY DEF IInv
<1>2. QED
  BY <1>1, Inductive, PTL

(* Who marks a row as digested has counted it: the UPDATE is limited to    *)
(* the rows of the digest.                                                 *)
Limited ==
    \A w \in Worker :
        batch[w].step = "commit" /\ batch[w].does = "digest" =>
            batch[w].marked \subseteq batch[w].picked

(* Every step keeps to it.                                                 *)
LEMMA LimitedStep == TypeOK /\ Current /\ Limited /\ [Next]_vars => Limited'
<1> SUFFICES ASSUME TypeOK, Current, Limited, [Next]_vars PROVE Limited'
  OBVIOUS
<1>1. CASE batch' = batch
  BY <1>1 DEF Limited
<1>2. ASSUME NEW s \in Session,
             PutStep(s) \/ FailPut(s) \/ \E patch \in Patch : BeginPut(s, patch)
      PROVE  batch' = batch
  BY <1>2, PutFrame
<1>3. ASSUME NEW w \in Worker, BatchStep(w) \/ FailBatch(w) PROVE Limited'
  <2>1. \A v \in Worker \ {w} : batch'[v] = batch[v]
    BY <1>3, BatchFrame
  <2>2. batch'[w].step = "commit" /\ batch'[w].does = "digest" =>
            batch'[w].marked \subseteq batch'[w].picked
    <3>1. batch[w] \in Batch
      BY DEF TypeOK
    <3>2. CASE CloseBacklog(w) \/ Select(w)
      BY <3>1, <3>2 DEF CloseBacklog, Select, TypeOK, Batch
    <3>3. CASE Record(w)
      BY <3>1, <3>3 DEF Record, TypeOK, Batch
    <3>4. CASE /\ batch[w].step = "user"
               /\ batch'[w] = [batch[w] EXCEPT !.step = Decision(batch[w].clock),
                                               !.schedule = schedule, !.last = last]
      <4>1. batch'[w].does = batch[w].does
        BY <3>1, <3>4 DEF Batch
      <4>2. QED
        BY <3>4, <4>1 DEF Current
    <3>5. CASE batch'[w] = IdleBatch \/ batch'[w].step \in {"lock", "find", "user"}
      BY <3>5 DEF IdleBatch
    <3>6. QED
      BY <1>3, <3>2, <3>3, <3>4, <3>5, BatchEffect
  <2>3. QED
    BY <2>1, <2>2 DEF Limited
<1>4. QED
  BY <1>1, <1>2, <1>3 DEF Next, Deliver, Hide, Tick, vars

(* A row is marked by the transaction that records the digest with it, or  *)
(* by one that has counted it and finds a digest of its window.            *)
THEOREM NothingGetsLost == Spec => NothingLost
<1> DEFINE A == \A n \in Note : note[n] # "digested" /\ note'[n] = "digested" =>
         \/ \E d \in digests' \ digests : n \in d.notes
         \/ \E w \in Worker, d \in digests :
                /\ batch[w].step = "commit" /\ n \in batch[w].picked
                /\ d.window = WindowID(batch[w].schedule, batch[w].last, batch[w].clock)
<1>1. Init => Limited
  BY DEF Init, IdleBatch, Limited
<1>2. ASSUME TypeOK, Limited, [Next]_vars,
             NEW n \in Note, note[n] # "digested", note'[n] = "digested"
      PROVE  \/ \E d \in digests' \ digests : n \in d.notes
             \/ \E w \in Worker, d \in digests :
                    /\ batch[w].step = "commit" /\ n \in batch[w].picked
                    /\ d.window = WindowID(batch[w].schedule, batch[w].last, batch[w].clock)
  <2>1. PICK w \in Worker : CommitBatch(w) /\ batch[w].does = "digest" /\ n \in batch[w].marked
    <3>1. ASSUME NEW s \in Session,
                 PutStep(s) \/ FailPut(s) \/ \E patch \in Patch : BeginPut(s, patch)
          PROVE  FALSE
      <4>1. put[s].marked \in SUBSET Note
        BY <1>2 DEF TypeOK, Put
      <4>2. note' = note \/ note' = Become(put[s].marked, "boundary")
        BY <1>2, <3>1, PutEffect DEF CommitPut
      <4>3. QED
        BY <1>2, <4>1, <4>2, BecomeFacts DEF NoteStatus
    <3>2. ASSUME NEW w \in Worker, BatchStep(w) \/ FailBatch(w)
          PROVE  CommitBatch(w) /\ batch[w].does = "digest" /\ n \in batch[w].marked
      <4>1. batch[w].marked \in SUBSET Note
        BY <1>2 DEF TypeOK, Batch
      <4>2. CommitBatch(w)
        BY <1>2, <3>2, BatchEffect DEF CloseBacklog, Select, Record, noteVars
      <4>3. note' = Become(batch[w].marked, IF batch[w].does = "digest" THEN "digested"
                                            ELSE "boundary")
        BY <4>2 DEF CommitBatch
      <4>4. QED
        BY <1>2, <4>1, <4>2, <4>3, BecomeFacts DEF NoteStatus
    <3>3. QED
      BY <1>2, <3>1, <3>2 DEF Next, Deliver, Hide, Tick, vars, noteVars, TypeOK
  <2>2. batch[w].step = "commit" /\ n \in batch[w].picked /\ digests' = Recorded(w)
    BY <1>2, <2>1 DEF CommitBatch, Limited
  <2> DEFINE window == WindowID(batch[w].schedule, batch[w].last, batch[w].clock)
             new == [window |-> window, notes |-> batch[w].picked, since |-> since]
  <2>3. CASE \E d \in digests : d.window = window
    BY <2>2, <2>3
  <2>4. CASE ~\E d \in digests : d.window = window
    <3>1. digests' = digests \cup {new}
      BY <2>2, <2>4 DEF Recorded
    <3>2. new.window = window /\ new.notes = batch[w].picked
      OBVIOUS
    <3> HIDE DEF new
    <3>3. new \in digests' \ digests /\ n \in new.notes
      BY <2>2, <2>4, <3>1, <3>2
    <3>4. QED
      BY <3>3
  <2>5. QED
    BY <2>3, <2>4
<1>3. TypeOK /\ Limited /\ [Next]_vars => [A]_vars
  BY <1>2
<1>4. IInv => TypeOK /\ Current
  BY DEF IInv
<1>5. QED
  BY <1>1, <1>3, <1>4, LimitedStep, Inductive, PTL DEF Spec, NothingLost

(* A signature is written only for the preferences in force.               *)
THEOREM SignaturesAreCurrent == Spec => SignatureIsCurrent
<1>1. IInv /\ [Next]_vars => (signature' # signature => signature' = schedule')
  <2> SUFFICES ASSUME TypeOK, Locks, Current, [Next]_vars, signature' # signature
               PROVE  signature' = schedule'
    BY DEF IInv
  <2> USE DEF prefVars, stateVars
  <2>1. ASSUME NEW s \in Session,
               PutStep(s) \/ FailPut(s) \/ \E patch \in Patch : BeginPut(s, patch)
        PROVE  signature' = schedule'
    <3>1. CommitPut(s)
      BY <2>1, PutUnderLock
    <3>2. QED
      BY <3>1 DEF CommitPut
  <2>2. ASSUME NEW w \in Worker, BatchStep(w) \/ FailBatch(w)
        PROVE  signature' = schedule'
    <3>1. CommitBatch(w)
      BY <2>2, BatchUnderLock
    <3>2. signature' = batch[w].schedule /\ batch[w].step = "commit"
      BY <3>1 DEF CommitBatch
    <3>3. schedule' = schedule
      BY <2>2, BatchFrame
    <3>4. QED
      BY <3>2, <3>3 DEF Current, Deciding
  <2>3. QED
    BY <2>1, <2>2 DEF Next, Deliver, Hide, Tick, vars
<1>2. QED
  BY <1>1, Inductive, PTL DEF Spec, SignatureIsCurrent
=============================================================================

-------------------------- MODULE NotificationDigest --------------------------
(***************************************************************************)
(* The digest schedule of one user: the worker that every instance runs    *)
(* (httpapi/notification_digest.go) against the requests that change the   *)
(* user's preferences (putPreferences in httpapi/preferences.go) and       *)
(* against the rows that the outbox handler adds to notifications.         *)
(*                                                                         *)
(* Both sides are transactions at READ COMMITTED and both lock the         *)
(* preferences row before they touch the schedule state or the             *)
(* notifications, except that a user's first PUT finds no row to lock.     *)
(* What a transaction writes is kept in it and published by its commit.    *)
(* Users meet only in the worker's transaction, whose failure undoes them  *)
(* all; one active user stands for each of them.                           *)
(*                                                                         *)
(* A schedule is its own signature.  The candidates' query and the worker  *)
(* compute it apart, in SQL and in Go; they agree on every payload that    *)
(* decodes, and disagree on some that do not (odd).  Notifications of type *)
(* digest, which no statement here looks at, are left out.                 *)
(***************************************************************************)
EXTENDS Integers, FiniteSets

CONSTANTS
    Note,         \* ids of notifications
    Session,      \* PUT requests in progress at the same time
    Worker,       \* server processes
    Nobody,       \* holder of a free lock
    DailyTime,    \* times of day that a daily digest may be set to
    Hour, Day,    \* ticks
    MaxTime,      \* bound: ticks of a behaviour
    MaxFaults     \* bound: transactions that fail, processes that die

ASSUME DigestAssumption ==
    /\ Hour \in Nat \ {0} /\ Day \in Nat \ {0}
    /\ MaxTime \in Nat /\ MaxFaults \in Nat
    /\ DailyTime \subseteq 0..(Day - 1)
    /\ Nobody \notin Session \cup Worker
    /\ Session \cap Worker = {}

VARIABLES
    now,
    (* user_preferences: the two sections of the document that matter here *)
    stored,      \* whether the user has a row
    valid,       \* whether its payload decodes
    odd,         \* whether SQL and Go read different signatures from it
    schedule,    \* notifications.digest
    theme,       \* appearance
    (* notification_digest_state *)
    signature,   \* config_signature
    last,        \* last_sent_at
    (* notifications *)
    note,        \* digested_at, and what set it
    arrived,     \* when the row was committed
    (* outbox_events *)
    digests,     \* recorded digest events
    since,       \* the latest boundary between two subscriptions
    (* locks *)
    prefLock,    \* the preferences row
    batchLock,   \* notificationDigestLock
    (* transactions *)
    put,
    batch,
    faults

prefVars == <<stored, valid, odd, schedule, theme>>
stateVars == <<signature, last, since>>
noteVars == <<note, arrived>>
lockVars == <<prefLock, batchLock>>
vars == <<now, prefVars, stateVars, noteVars, digests, lockVars, put, batch, faults>>

Time == 0..MaxTime
Off == [mode |-> "off", at |-> 0]
Hourly == [mode |-> "hourly", at |-> 0]
Daily == [mode : {"daily"}, at : DailyTime]
Schedule == {Off, Hourly} \cup Daily
None == [mode |-> "none", at |-> 0]   \* no such row, no such section

Window == [kind : {"hour"}, of : 0..(MaxTime + Hour)] \cup [kind : {"day"}, of : Time]
NoteStatus == {"absent", "new", "boundary", "hidden", "digested"}

(* The section that a request carries.                                     *)
Patch == [schedule : Schedule, theme : {FALSE}] \cup [schedule : {None}, theme : {TRUE}]

(* old: the schedule of the document that was read; schedule, theme: what  *)
(* the request is going to store; marked: the rows that it has updated.    *)
Put == [step : {"idle", "read", "write", "mark", "commit"}, start : Time,
        patch : Patch, old : Schedule, schedule : Schedule,
        theme : {"default", "chosen"}, marked : SUBSET Note]

IdlePut == [step |-> "idle", start |-> 0, patch |-> [schedule |-> None, theme |-> TRUE],
            old |-> Off, schedule |-> Off, theme |-> "default", marked |-> {}]

(* clock: the time that the process read; schedule, last: the rows under   *)
(* the lock; picked: the rows counted; marked: the rows updated; does: what *)
(* the transaction has done.                                               *)
Batch == [step : {"idle", "lock", "find", "user", "boundary", "select", "record", "commit"},
          clock : Time, schedule : Schedule, last : Time,
          picked : SUBSET Note, marked : SUBSET Note,
          does : {"nothing", "boundary", "digest"}]

IdleBatch == [step |-> "idle", clock |-> 0, schedule |-> Off, last |-> 0,
              picked |-> {}, marked |-> {}, does |-> "nothing"]

Init ==
    /\ now = 0
    /\ stored \in BOOLEAN
    /\ valid = ~stored     \* a row that is there already is a damaged one
    /\ odd \in IF valid THEN {FALSE} ELSE BOOLEAN
    /\ schedule \in IF stored THEN Schedule ELSE {Off}
    /\ theme = "default"
    /\ signature = None
    /\ last = 0
    /\ since = 0
    /\ note = [n \in Note |-> "absent"]
    /\ arrived = [n \in Note |-> 0]
    /\ digests = {}
    /\ prefLock = Nobody
    /\ batchLock = Nobody
    /\ put = [s \in Session |-> IdlePut]
    /\ batch = [w \in Worker |-> IdleBatch]
    /\ faults = 0

New == {n \in Note : note[n] = "new"}
Become(notes, status) == [n \in Note |-> IF n \in notes THEN status ELSE note[n]]

-----------------------------------------------------------------------------
(* digestDue *)

DueAt(s, l, c) == IF s.mode = "hourly" THEN l + Hour ELSE (c \div Day) * Day + s.at

Due(s, l, c) ==
    \/ s.mode = "hourly" /\ c >= DueAt(s, l, c)
    \/ s.mode = "daily" /\ c >= DueAt(s, l, c) /\ l < DueAt(s, l, c)

WindowID(s, l, c) ==
    IF s.mode = "hourly" THEN [kind |-> "hour", of |-> DueAt(s, l, c)]
    ELSE [kind |-> "day", of |-> c \div Day]

-----------------------------------------------------------------------------
(* notifications *)

(* handleOutboxEvent commits a new row.                                    *)
Deliver(n) ==
    /\ note[n] = "absent"
    /\ note' = [note EXCEPT ![n] = "new"]
    /\ arrived' = [arrived EXCEPT ![n] = now]
    /\ UNCHANGED <<now, prefVars, stateVars, digests, lockVars, put, batch, faults>>

(* Rows that a transaction has updated and not committed.                  *)
Marked(n) ==
    \/ \E s \in Session : put[s].step = "commit" /\ n \in put[s].marked
    \/ \E w \in Worker : batch[w].step = "commit" /\ n \in batch[w].marked

(* publishNotificationSignals withdraws an approval request from a user    *)
(* who may not review it any more.                                         *)
Hide(n) ==
    /\ note[n] = "new"
    /\ ~Marked(n)
    /\ note' = [note EXCEPT ![n] = "hidden"]
    /\ UNCHANGED <<now, prefVars, stateVars, arrived, digests, lockVars, put, batch, faults>>

-----------------------------------------------------------------------------
(* putPreferences *)

Release(lock, x) == IF lock = x THEN Nobody ELSE lock

EndPut(s) ==
    /\ put' = [put EXCEPT ![s] = IdlePut]
    /\ prefLock' = Release(prefLock, s)
    /\ UNCHANGED <<now, arrived, digests, batchLock, batch>>

(* now() is the time of the transaction's beginning.                       *)
BeginPut(s, patch) ==
    /\ put[s].step = "idle"
    /\ put' = [put EXCEPT ![s] = [IdlePut EXCEPT !.step = "read", !.patch = patch,
                                                 !.start = now]]
    /\ UNCHANGED <<now, prefVars, stateVars, noteVars, digests, lockVars, batch, faults>>

(* applyPreferencesPatch on the document that was read.                    *)
Patched(p, current, appearance) ==
    [p EXCEPT !.step = "write", !.old = current,
              !.schedule = IF p.patch.schedule = None THEN current ELSE p.patch.schedule,
              !.theme = IF p.patch.theme THEN "chosen" ELSE appearance]

(* SELECT ... FOR UPDATE locks the row if there is one.                    *)
ReadRow(s) ==
    /\ put[s].step = "read"
    /\ stored /\ valid
    /\ prefLock = Nobody
    /\ prefLock' = s
    /\ put' = [put EXCEPT ![s] = Patched(@, schedule, theme)]
    /\ UNCHANGED <<now, prefVars, stateVars, noteVars, digests, batchLock, batch, faults>>

ReadDefaults(s) ==
    /\ put[s].step = "read"
    /\ ~stored
    /\ put' = [put EXCEPT ![s] = Patched(@, Off, "default")]
    /\ UNCHANGED <<now, prefVars, stateVars, noteVars, digests, lockVars, batch, faults>>

(* A payload that does not decode is answered with an error.               *)
PutRefused(s) ==
    /\ put[s].step = "read"
    /\ stored /\ ~valid
    /\ prefLock = Nobody
    /\ EndPut(s)
    /\ UNCHANGED <<prefVars, stateVars, note, faults>>

(* INSERT ... ON CONFLICT DO UPDATE waits for another writer of the row.   *)
WriteRow(s) ==
    /\ put[s].step = "write"
    /\ prefLock \in {Nobody, s}
    /\ prefLock' = s
    /\ put' = [put EXCEPT ![s].step =
                 IF put[s].schedule # put[s].old THEN "mark" ELSE "commit"]
    /\ UNCHANGED <<now, prefVars, stateVars, noteVars, digests, batchLock, batch, faults>>

(* Mutant: the backlog stays open.                                         *)
MarkNothing(s) ==
    /\ put[s].step = "mark"
    /\ put' = [put EXCEPT ![s].step = "commit"]
    /\ UNCHANGED <<now, prefVars, stateVars, noteVars, digests, lockVars, batch, faults>>

(* A changed schedule is a boundary: the backlog is closed.                *)
MarkBacklog(s) ==
    /\ put[s].step = "mark"
    /\ put' = [put EXCEPT ![s].step = "commit", ![s].marked = New]
    /\ UNCHANGED <<now, prefVars, stateVars, noteVars, digests, lockVars, batch, faults>>

CommitPut(s) ==
    LET p == put[s] IN
    /\ p.step = "commit"
    /\ stored' = TRUE
    /\ schedule' = p.schedule
    /\ theme' = p.theme
    /\ IF p.schedule # p.old
         THEN /\ signature' = p.schedule
              /\ last' = p.start
              /\ since' = p.start
         ELSE UNCHANGED stateVars
    /\ note' = Become(p.marked, "boundary")
    /\ EndPut(s)
    /\ UNCHANGED <<valid, odd, faults>>

FailPut(s) ==
    /\ put[s].step # "idle"
    /\ faults < MaxFaults
    /\ faults' = faults + 1
    /\ EndPut(s)
    /\ UNCHANGED <<prefVars, stateVars, note>>

-----------------------------------------------------------------------------
(* generateNotificationDigests and generateNotificationDigestForUser       *)

Goto(w, step) == batch' = [batch EXCEPT ![w].step = step]

EndBatch(w) ==
    /\ batch' = [batch EXCEPT ![w] = IdleBatch]
    /\ prefLock' = Release(prefLock, w)
    /\ batchLock' = Release(batchLock, w)
    /\ UNCHANGED <<now, prefVars, arrived, put>>

Wake(w) ==
    /\ batch[w].step = "idle"
    /\ batch' = [batch EXCEPT ![w] = [IdleBatch EXCEPT !.step = "lock", !.clock = now]]
    /\ UNCHANGED <<now, prefVars, stateVars, noteVars, digests, lockVars, put, faults>>

(* pg_try_advisory_xact_lock does not wait.                                *)
TakeBatchLock(w) ==
    /\ batch[w].step = "lock"
    /\ batchLock = Nobody
    /\ batchLock' = w
    /\ Goto(w, "find")
    /\ UNCHANGED <<now, prefVars, stateVars, noteVars, digests, prefLock, put, faults>>

BatchLockTaken(w) ==
    /\ batch[w].step = "lock"
    /\ batchLock # Nobody
    /\ EndBatch(w)
    /\ UNCHANGED <<stateVars, note, digests, faults>>

(* notificationDigestCandidatesSQL at the clock c.  The signature that the *)
(* worker writes for an odd payload is never the one that the query has.   *)
Candidate(c) == stored /\ (odd \/ signature # schedule \/ Due(schedule, last, c))

Find(w) ==
    /\ batch[w].step = "find"
    /\ Candidate(batch[w].clock)
    /\ Goto(w, "user")
    /\ UNCHANGED <<now, prefVars, stateVars, noteVars, digests, lockVars, put, faults>>

NoCandidate(w) ==
    /\ batch[w].step = "find"
    /\ ~Candidate(batch[w].clock)
    /\ EndBatch(w)
    /\ UNCHANGED <<stateVars, note, digests, faults>>

(* What is done for a candidate, from the rows as they are under the lock. *)
Decision(c) ==
    CASE ~valid \/ signature # schedule -> "boundary"
      [] valid /\ signature = schedule /\ Due(schedule, last, c) -> "select"
      [] OTHER -> "commit"

ReadUser(w) ==
    batch' = [batch EXCEPT ![w].step = Decision(batch[w].clock),
                           ![w].schedule = schedule, ![w].last = last]

(* Mutant: the preferences row is read without a lock.                     *)
LockUserUnlocked(w) ==
    /\ batch[w].step = "user"
    /\ ReadUser(w)
    /\ UNCHANGED <<now, prefVars, stateVars, noteVars, digests, lockVars, put, faults>>

(* Both SELECT ... FOR UPDATE: nobody changes the state row without the    *)
(* preferences row.                                                        *)
LockUser(w) ==
    /\ batch[w].step = "user"
    /\ prefLock = Nobody
    /\ prefLock' = w
    /\ ReadUser(w)
    /\ UNCHANGED <<now, prefVars, stateVars, noteVars, digests, batchLock, put, faults>>

(* A first, a changed or a damaged subscription closes the backlog         *)
(* (quarantineNotificationDigestUser does the same).                       *)
CloseBacklog(w) ==
    /\ batch[w].step = "boundary"
    /\ batch' = [batch EXCEPT ![w].step = "commit", ![w].marked = New,
                              ![w].does = "boundary"]
    /\ UNCHANGED <<now, prefVars, stateVars, noteVars, digests, lockVars, put, faults>>

Select(w) ==
    /\ batch[w].step = "select"
    /\ batch' = [batch EXCEPT ![w].step = "record", ![w].picked = New]
    /\ UNCHANGED <<now, prefVars, stateVars, noteVars, digests, lockVars, put, faults>>

(* Mutant: the backlog is marked, not the rows that were counted.          *)
RecordAll(w) ==
    /\ batch[w].step = "record"
    /\ batch' = [batch EXCEPT ![w].step = "commit", ![w].does = "digest",
                              ![w].marked = IF batch[w].picked = {} THEN {} ELSE New]
    /\ UNCHANGED <<now, prefVars, stateVars, noteVars, digests, lockVars, put, faults>>

(* Mutant: the rows that were counted are not marked.                      *)
RecordUnmarked(w) ==
    /\ batch[w].step = "record"
    /\ batch' = [batch EXCEPT ![w].step = "commit", ![w].does = "digest"]
    /\ UNCHANGED <<now, prefVars, stateVars, noteVars, digests, lockVars, put, faults>>

(* The digest event, if there is anything to report, and the UPDATE of the *)
(* rows that it counts and that nobody has marked since.                   *)
Record(w) ==
    /\ batch[w].step = "record"
    /\ batch' = [batch EXCEPT ![w].step = "commit", ![w].does = "digest",
                              ![w].marked = batch[w].picked \cap New]
    /\ UNCHANGED <<now, prefVars, stateVars, noteVars, digests, lockVars, put, faults>>

(* Enqueue: nothing happens when the idempotency key is there already.     *)
Recorded(w) ==
    LET b == batch[w]
        window == WindowID(b.schedule, b.last, b.clock)
    IN IF b.picked = {} \/ \E d \in digests : d.window = window THEN digests
       ELSE digests \cup {[window |-> window, notes |-> b.picked, since |-> since]}

(* Mutant: a run that finds nothing to report does not move last_sent_at.  *)
CommitBatchReported(w) ==
    LET b == batch[w] IN
    /\ b.step = "commit"
    /\ IF b.does = "nothing" \/ (b.does = "digest" /\ b.picked = {})
         THEN UNCHANGED <<signature, last>>
         ELSE signature' = b.schedule /\ last' = b.clock
    /\ since' = IF b.does = "boundary" THEN b.clock ELSE since
    /\ digests' = IF b.does = "digest" THEN Recorded(w) ELSE digests
    /\ note' = Become(b.marked, IF b.does = "digest" THEN "digested" ELSE "boundary")
    /\ EndBatch(w)
    /\ UNCHANGED faults

CommitBatch(w) ==
    LET b == batch[w] IN
    /\ b.step = "commit"
    /\ IF b.does = "nothing" THEN UNCHANGED <<signature, last>>
       ELSE signature' = b.schedule /\ last' = b.clock
    /\ since' = IF b.does = "boundary" THEN b.clock ELSE since
    /\ digests' = IF b.does = "digest" THEN Recorded(w) ELSE digests
    /\ note' = Become(b.marked, IF b.does = "digest" THEN "digested" ELSE "boundary")
    /\ EndBatch(w)
    /\ UNCHANGED faults

(* An error for any user of the batch, or the death of the process.        *)
FailBatch(w) ==
    /\ batch[w].step # "idle"
    /\ faults < MaxFaults
    /\ faults' = faults + 1
    /\ EndBatch(w)
    /\ UNCHANGED <<stateVars, note, digests>>

-----------------------------------------------------------------------------
Tick ==
    /\ now < MaxTime
    /\ now' = now + 1
    /\ UNCHANGED <<prefVars, stateVars, noteVars, digests, lockVars, put, batch, faults>>

PutStep(s) ==
    \/ ReadRow(s) \/ ReadDefaults(s) \/ PutRefused(s)
    \/ WriteRow(s) \/ MarkBacklog(s) \/ CommitPut(s)

BatchStep(w) ==
    \/ Wake(w) \/ TakeBatchLock(w) \/ BatchLockTaken(w) \/ Find(w) \/ NoCandidate(w)
    \/ LockUser(w) \/ CloseBacklog(w) \/ Select(w) \/ Record(w) \/ CommitBatch(w)

Next ==
    \/ \E n \in Note : Deliver(n) \/ Hide(n)
    \/ \E s \in Session : \/ \E patch \in Patch : BeginPut(s, patch)
                          \/ PutStep(s) \/ FailPut(s)
    \/ \E w \in Worker : BatchStep(w) \/ FailBatch(w)
    \/ Tick

Spec == Init /\ [][Next]_vars

(* Transactions run on, and every process wakes again and again.           *)
FairSpec ==
    /\ Spec
    /\ \A s \in Session : SF_vars(PutStep(s))
    /\ \A w \in Worker : SF_vars(BatchStep(w))

-----------------------------------------------------------------------------
(* Rows, locks and transactions stay within their types.                   *)
TypeOK ==
    /\ now \in Time
    /\ stored \in BOOLEAN /\ valid \in BOOLEAN /\ odd \in BOOLEAN
    /\ schedule \in Schedule /\ theme \in {"default", "chosen"}
    /\ signature \in Schedule \cup {None}
    /\ last \in Time /\ since \in Time
    /\ note \in [Note -> NoteStatus]
    /\ arrived \in [Note -> Time]
    /\ digests \in SUBSET [window : Window, notes : SUBSET Note, since : Time]
    /\ prefLock \in Session \cup Worker \cup {Nobody}
    /\ batchLock \in Worker \cup {Nobody}
    /\ put \in [Session -> Put]
    /\ batch \in [Worker -> Batch]
    /\ faults \in 0..MaxFaults

(* A notification is counted in at most one digest, whatever instances run *)
(* the worker and whatever arrives or fails in between.                    *)
CountedOnce ==
    \A d, e \in digests : d # e => d.notes \cap e.notes = {}

(* A digest reports nothing from before the subscription that it belongs   *)
(* to: neither what arrived while it was off nor what an earlier schedule  *)
(* left over (docs/operations.md: a changed schedule takes the current     *)
(* time as its base line and does not replay the backlog).                 *)
NoReplay ==
    \A d \in digests : \A n \in d.notes : arrived[n] >= d.since

(* The worker never puts back a schedule that the user has replaced: a     *)
(* signature is only ever written for the preferences that are in force.   *)
SignatureIsCurrent ==
    [][signature' # signature => signature' = schedule']_vars

(* "처리한 row를 같은 transaction에서 표시합니다 ... 다음 실행에서 누락되지    *)
(* 않습니다" (docs/operations.md): a row is marked as digested only by the  *)
(* transaction that records the digest which counts it.  The one exception *)
(* is that of the idempotency key: a worker that has counted the row finds *)
(* a digest of its window, and adds none.                                  *)
NothingLost ==
    [][\A n \in Note : note[n] # "digested" /\ note'[n] = "digested" =>
         \/ \E d \in digests' \ digests : n \in d.notes
         \/ \E w \in Worker, d \in digests :
                /\ batch[w].step = "commit" /\ n \in batch[w].picked
                /\ d.window = WindowID(batch[w].schedule, batch[w].last, batch[w].clock)]_vars

(* A digest that is due, a subscription that was never seen or a damaged   *)
(* one is dealt with, whatever failed before.  An odd one is dealt with at *)
(* every run and is a candidate for ever.                                  *)
DueIsHandled == Candidate(now) /\ ~odd ~> ~Candidate(now)
=============================================================================

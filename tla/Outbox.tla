------------------------------- MODULE Outbox -------------------------------
(***************************************************************************)
(* The transactional outbox: backend/internal/event (repository.go, the    *)
(* SQL statements over outbox_events, and dispatcher.go, the worker loop)  *)
(* as httpapi/outbox.go configures it.                                     *)
(*                                                                         *)
(* Every SQL statement is one atomic step.  Workers of every server        *)
(* process share the table; a worker handles one claimed row at a time     *)
(* (DefaultDispatcherConfig has ClaimBatch 1 and nothing overrides it).    *)
(*                                                                         *)
(* Time is relative, so that the state space is finite without a bound on  *)
(* the clock: wait[e] is available_at - now (0 once it has passed) and     *)
(* lockAge[e] is now - locked_at, which saturates at the lease.            *)
(*                                                                         *)
(* An Event is a row, named by its id.  Enqueue of an idempotency key that *)
(* is already in the table changes nothing and has no action.              *)
(***************************************************************************)
EXTENDS Integers

CONSTANTS
    Event, Worker,
    NoEvent, NoWorker,
    MaxAttempts,     \* outbox_events.max_attempts
    Lease,           \* DispatcherConfig.Lease
    HandlerTimeout,  \* DispatcherConfig.HandlerTimeout
    Overhead,        \* a prompt worker's time outside the handler, per claim
    BaseBackoff, MaxBackoff,
    MaxFaults,       \* bound: crashes and failed statements
    MaxClaims        \* bound: claims of one event in one round

ASSUME NamesAssumption == NoEvent \notin Event /\ NoWorker \notin Worker

ASSUME LimitsAssumption ==
    /\ MaxAttempts \in Nat \ {0}
    /\ BaseBackoff \in Nat \ {0} /\ MaxBackoff \in Nat
    /\ BaseBackoff <= MaxBackoff
    /\ MaxFaults \in Nat /\ MaxClaims \in Nat

(* validateDispatcherConfig asks for Lease >= HandlerTimeout * ClaimBatch; *)
(* the default (2 minutes against 90 seconds) leaves 30 seconds more, and  *)
(* some margin is needed for the time the loop spends outside the handler. *)
ASSUME LeaseAssumption ==
    /\ HandlerTimeout \in Nat \ {0} /\ Overhead \in Nat /\ Lease \in Nat
    /\ Lease > HandlerTimeout + Overhead

VARIABLES
    (* outbox_events *)
    status,    \* delivered_at / dead_lettered_at / presence of the row
    attempts,
    wait,      \* ticks until available_at
    lockedBy,
    lockAge,   \* ticks since locked_at, at most Lease
    (* business tables *)
    applied,   \* whether a handler run for the event did its work
    (* one Dispatcher.work goroutine *)
    pc,        \* where the worker is in its loop
    item,      \* the claimed row in hand
    seen,      \* item.Attempts as the claim returned it
    slack,     \* time since the claim spent outside the handler, at most Late
    elapsed,   \* time spent in the handler
    faults     \* crashes and failed statements so far

rowVars == <<status, attempts, wait, lockedBy, lockAge>>
workVars == <<pc, item, seen, slack, elapsed>>
vars == <<rowVars, applied, workVars, faults>>

Status == {"absent", "pending", "delivered", "dead", "purged"}
InHandler == {"handling", "applied"}
Outside == {"claimed", "succeeded", "failed"}
Busy == InHandler \cup Outside

Late == Overhead + 1   \* the slack of a worker that overslept

Init ==
    /\ status = [e \in Event |-> "absent"]
    /\ attempts = [e \in Event |-> 0]
    /\ wait = [e \in Event |-> 0]
    /\ lockedBy = [e \in Event |-> NoWorker]
    /\ lockAge = [e \in Event |-> 0]
    /\ applied = [e \in Event |-> FALSE]
    /\ pc = [w \in Worker |-> "idle"]
    /\ item = [w \in Worker |-> NoEvent]
    /\ seen = [w \in Worker |-> 0]
    /\ slack = [w \in Worker |-> 0]
    /\ elapsed = [w \in Worker |-> 0]
    /\ faults = 0

-----------------------------------------------------------------------------
(* Statements on outbox_events                                             *)

(* Backoff: the delay doubles from BaseBackoff with every attempt after    *)
(* the first and stops at MaxBackoff.                                      *)
Doubled(n) == BaseBackoff * (IF n < 1 THEN 1 ELSE 2^(n - 1))
Backoff(n) == IF Doubled(n) \in 0..MaxBackoff THEN Doubled(n) ELSE MaxBackoff

Enqueue(e) ==
    /\ status[e] = "absent"
    /\ status' = [status EXCEPT ![e] = "pending"]
    /\ UNCHANGED <<attempts, wait, lockedBy, lockAge, applied, workVars, faults>>

(* Mutant: a row locked by somebody else is claimed whatever its lease.    *)
ClaimableLocked(e) == status[e] = "pending" /\ wait[e] = 0

(* Mutant: an expired lease is never taken over.                           *)
ClaimableUnlocked(e) ==
    status[e] = "pending" /\ wait[e] = 0 /\ lockedBy[e] = NoWorker

(* The candidates of claimSQL; SKIP LOCKED lets concurrent claims take any *)
(* of them.                                                                *)
Claimable(e) ==
    /\ status[e] = "pending"
    /\ wait[e] = 0
    /\ lockedBy[e] = NoWorker \/ lockAge[e] >= Lease

(* Mutant: the attempts that the candidates had before the UPDATE.         *)
ReturnedBefore(e) == attempts[e]

(* RETURNING event.attempts: the count with this attempt.                  *)
Returned(e) == attempts[e] + 1

(* The UPDATE of claimSQL.  locked_at is the clock that Claim read before  *)
(* it sent the statement, lag ticks ago.                                   *)
LockRow(w, e, lag) ==
    /\ Claimable(e)
    /\ attempts[e] < MaxClaims
    /\ attempts' = [attempts EXCEPT ![e] = @ + 1]
    /\ lockedBy' = [lockedBy EXCEPT ![e] = w]
    /\ lockAge' = [lockAge EXCEPT ![e] = lag]
    /\ UNCHANGED <<status, wait, applied>>

Claim(w, e) ==
    /\ pc[w] = "idle"
    /\ \E lag \in 0..Lease :
         /\ LockRow(w, e, lag)
         /\ slack' = [slack EXCEPT ![w] = IF lag < Late THEN lag ELSE Late]
    /\ pc' = [pc EXCEPT ![w] = "claimed"]
    /\ item' = [item EXCEPT ![w] = e]
    /\ seen' = [seen EXCEPT ![w] = Returned(e)]
    /\ elapsed' = [elapsed EXCEPT ![w] = 0]
    /\ UNCHANGED faults

(* The claim commits and its answer is lost: the worker sees an error and  *)
(* waits, the row stays locked in its name.                                *)
ClaimLost(w, e) ==
    /\ pc[w] = "idle"
    /\ faults < MaxFaults
    /\ LockRow(w, e, 0)
    /\ faults' = faults + 1
    /\ UNCHANGED workVars

RetryDeadLetter(e) ==
    /\ status[e] = "dead"
    /\ status' = [status EXCEPT ![e] = "pending"]
    /\ attempts' = [attempts EXCEPT ![e] = 0]
    /\ wait' = [wait EXCEPT ![e] = 0]
    /\ lockedBy' = [lockedBy EXCEPT ![e] = NoWorker]
    /\ lockAge' = [lockAge EXCEPT ![e] = 0]
    /\ UNCHANGED <<applied, workVars, faults>>

(* Mutant: the retention rule takes dead letters too.                      *)
PurgeSettled(e) ==
    /\ status[e] \in {"delivered", "dead"}
    /\ status' = [status EXCEPT ![e] = "purged"]
    /\ UNCHANGED <<attempts, wait, lockedBy, lockAge, applied, workVars, faults>>

(* The retention rule for outbox_events.                                   *)
Purge(e) ==
    /\ status[e] = "delivered"
    /\ status' = [status EXCEPT ![e] = "purged"]
    /\ UNCHANGED <<attempts, wait, lockedBy, lockAge, applied, workVars, faults>>

-----------------------------------------------------------------------------
(* The worker loop after a claim                                           *)

Start(w) ==
    /\ pc[w] = "claimed"
    /\ pc' = [pc EXCEPT ![w] = "handling"]
    /\ UNCHANGED <<rowVars, applied, item, seen, slack, elapsed, faults>>

(* The handler commits its own transaction, or finds nothing to do: the    *)
(* recipient does not want it any more, or a first run of the same event   *)
(* (its row is keyed by the event id) was there before.                    *)
Apply(w) ==
    /\ pc[w] = "handling"
    /\ pc' = [pc EXCEPT ![w] = "applied"]
    /\ applied' = [applied EXCEPT ![item[w]] = TRUE]
    /\ UNCHANGED <<rowVars, item, seen, slack, elapsed, faults>>

Succeed(w) ==
    /\ pc[w] = "applied"
    /\ pc' = [pc EXCEPT ![w] = "succeeded"]
    /\ UNCHANGED <<rowVars, applied, item, seen, slack, elapsed, faults>>

(* An error, the deadline included; the effect may be committed already    *)
(* when the answer to the COMMIT is what got lost.                         *)
Fail(w) ==
    /\ pc[w] \in InHandler
    /\ pc' = [pc EXCEPT ![w] = "failed"]
    /\ UNCHANGED <<rowVars, applied, item, seen, slack, elapsed, faults>>

ToIdle(w) ==
    /\ pc' = [pc EXCEPT ![w] = "idle"]
    /\ item' = [item EXCEPT ![w] = NoEvent]
    /\ seen' = [seen EXCEPT ![w] = 0]
    /\ slack' = [slack EXCEPT ![w] = 0]
    /\ elapsed' = [elapsed EXCEPT ![w] = 0]

(* Either UPDATE's WHERE clause: the row is still locked in our name.      *)
HoldsLease(w) == lockedBy[item[w]] = w /\ status[item[w]] = "pending"

Unlock(e) ==
    /\ lockedBy' = [lockedBy EXCEPT ![e] = NoWorker]
    /\ lockAge' = [lockAge EXCEPT ![e] = 0]

MarkDelivered(w) ==
    /\ pc[w] = "succeeded"
    /\ HoldsLease(w)
    /\ status' = [status EXCEPT ![item[w]] = "delivered"]
    /\ Unlock(item[w])
    /\ ToIdle(w)
    /\ UNCHANGED <<attempts, wait, applied, faults>>

(* dead is computed from the attempts the claim returned.                  *)
MarkFailed(w) ==
    /\ pc[w] = "failed"
    /\ HoldsLease(w)
    /\ IF seen[w] >= MaxAttempts
         THEN /\ status' = [status EXCEPT ![item[w]] = "dead"]
              /\ wait' = [wait EXCEPT ![item[w]] = 0]
         ELSE /\ wait' = [wait EXCEPT ![item[w]] = Backoff(seen[w])]
              /\ UNCHANGED status
    /\ Unlock(item[w])
    /\ ToIdle(w)
    /\ UNCHANGED <<attempts, applied, faults>>

(* No row matches: ErrLeaseLost, which is only logged.                     *)
LeaseLost(w) ==
    /\ pc[w] \in {"succeeded", "failed"}
    /\ ~HoldsLease(w)
    /\ ToIdle(w)
    /\ UNCHANGED <<rowVars, applied, faults>>

(* The statement fails: only logged too, and the lock stays.               *)
MarkError(w) ==
    /\ pc[w] \in {"succeeded", "failed"}
    /\ faults < MaxFaults
    /\ faults' = faults + 1
    /\ ToIdle(w)
    /\ UNCHANGED <<rowVars, applied>>

(* The process dies or shuts down (a cancelled context returns from the    *)
(* loop with nothing marked) and is started again.                         *)
Crash(w) ==
    /\ pc[w] # "down"
    /\ faults < MaxFaults
    /\ faults' = faults + 1
    /\ pc' = [pc EXCEPT ![w] = "down"]
    /\ item' = [item EXCEPT ![w] = NoEvent]
    /\ seen' = [seen EXCEPT ![w] = 0]
    /\ slack' = [slack EXCEPT ![w] = 0]
    /\ elapsed' = [elapsed EXCEPT ![w] = 0]
    /\ UNCHANGED <<rowVars, applied>>

Restart(w) ==
    /\ pc[w] = "down"
    /\ ToIdle(w)
    /\ UNCHANGED <<rowVars, applied, faults>>

-----------------------------------------------------------------------------
(* Time.  The context deadline ends a handler run at HandlerTimeout.       *)
Tick ==
    /\ \A w \in Worker : pc[w] \in InHandler => elapsed[w] < HandlerTimeout
    /\ wait' = [e \in Event |-> IF wait[e] > 0 THEN wait[e] - 1 ELSE 0]
    /\ lockAge' = [e \in Event |->
                     IF lockedBy[e] # NoWorker /\ lockAge[e] < Lease
                     THEN lockAge[e] + 1 ELSE lockAge[e]]
    /\ slack' = [w \in Worker |->
                   IF pc[w] \in Outside /\ slack[w] < Late
                   THEN slack[w] + 1 ELSE slack[w]]
    /\ elapsed' = [w \in Worker |->
                     IF pc[w] \in InHandler THEN elapsed[w] + 1 ELSE elapsed[w]]
    /\ UNCHANGED <<status, attempts, lockedBy, applied, pc, item, seen, faults>>

-----------------------------------------------------------------------------
RowStep == \E e \in Event : Enqueue(e) \/ RetryDeadLetter(e) \/ Purge(e)

WorkStep(w) ==
    \/ \E e \in Event : Claim(w, e) \/ ClaimLost(w, e)
    \/ Start(w) \/ Apply(w) \/ Succeed(w) \/ Fail(w)
    \/ MarkDelivered(w) \/ MarkFailed(w) \/ LeaseLost(w) \/ MarkError(w)
    \/ Crash(w) \/ Restart(w)

Step == RowStep \/ \E w \in Worker : WorkStep(w)

(* Workers of any speed: a worker may sleep past its lease.                *)
Next == Step \/ Tick
Spec == Init /\ [][Next]_vars

(* No worker spends more than Overhead outside its handler.               *)
Prompt == \A w \in Worker : slack[w] < Late
PromptSpec == Init /\ [][Next /\ Prompt']_vars

(* Time advances, workers run and processes are restarted.  A claim needs  *)
(* strong fairness: a row stays claimable while workers come and go, and   *)
(* ORDER BY available_at puts every other row behind it in the end.        *)
Fairness ==
    /\ WF_vars(Tick /\ Prompt')
    /\ \A w \in Worker :
         /\ WF_vars(Start(w)) /\ WF_vars(Apply(w) \/ Succeed(w) \/ Fail(w))
         /\ WF_vars(MarkDelivered(w) \/ MarkFailed(w) \/ LeaseLost(w))
         /\ WF_vars(Restart(w))
    /\ \A e \in Event : SF_vars(\E w \in Worker : Claim(w, e))

FairSpec == PromptSpec /\ Fairness

-----------------------------------------------------------------------------
(* Properties                                                              *)

(* The rows and the workers' loops stay within their types; a backoff      *)
(* never exceeds its cap.                                                  *)
TypeOK ==
    /\ status \in [Event -> Status]
    /\ attempts \in [Event -> Nat]
    /\ wait \in [Event -> 0..MaxBackoff]
    /\ lockedBy \in [Event -> Worker \cup {NoWorker}]
    /\ lockAge \in [Event -> 0..Lease]
    /\ applied \in [Event -> BOOLEAN]
    /\ pc \in [Worker -> Busy \cup {"idle", "down"}]
    /\ item \in [Worker -> Event \cup {NoEvent}]
    /\ seen \in [Worker -> Nat]
    /\ slack \in [Worker -> 0..Late]
    /\ elapsed \in [Worker -> 0..HandlerTimeout]
    /\ faults \in 0..MaxFaults
    /\ \A w \in Worker : (pc[w] \in Busy) <=> (item[w] # NoEvent)

(* A dead letter really used up its attempts, although MarkFailed decides  *)
(* from a copy taken at the claim and an operator may have restarted the   *)
(* count (RetryDeadLetter) while a slow worker still held an old copy.     *)
DeadIsExhausted ==
    \A e \in Event : status[e] = "dead" => attempts[e] >= MaxAttempts

(* A delivered event had its work done by some run of the handler          *)
(* (docs/architecture.md, the outbox is the durable path of every          *)
(* notification).                                                          *)
DeliveredWasApplied ==
    \A e \in Event : status[e] \in {"delivered", "purged"} => applied[e]

(* What becomes of a row agrees with the row's own count of attempts when  *)
(* its lease is given up: parked with MaxAttempts or more of them, put off  *)
(* by the backoff of exactly that many otherwise.  MarkFailed computes both *)
(* from the copy that its claim returned, however long ago that was, and    *)
(* other workers and operators count on the row itself in the meantime.     *)
VerdictMatchesCount ==
    [][\A e \in Event :
         status[e] = "pending" /\ lockedBy[e] # NoWorker /\ lockedBy'[e] = NoWorker =>
             \/ status'[e] = "delivered"
             \/ attempts[e] >= MaxAttempts /\ status'[e] = "dead"
             \/ /\ attempts[e] < MaxAttempts
                /\ status'[e] = "pending" /\ wait'[e] = Backoff(attempts[e])]_vars

(* A lease outlives the work done under it, so two handler runs of one     *)
(* event overlap only if one of the workers overslept (the configuration   *)
(* check in validateDispatcherConfig is there for this).                   *)
ExclusiveHandling ==
    \A v, w \in Worker :
        (v # w /\ pc[v] \in Busy /\ pc[w] \in Busy /\ item[v] = item[w])
          => slack[v] = Late \/ slack[w] = Late

(* At-least-once: a recorded event is eventually delivered or parked as a  *)
(* dead letter, whatever worker crashed with it in hand.                   *)
Settles ==
    \A e \in Event :
        status[e] = "pending" ~> status[e] \in {"delivered", "dead", "purged"}

(* The rows as the promise sees them, without locks, leases and workers.   *)
Delivery ==
    INSTANCE EventDelivery
        WITH Event <- Event, MaxAttempts <- MaxAttempts,
             status <- status, attempts <- attempts, applied <- applied

(* The table and its workers implement the abstract delivery promise.      *)
ImplementsDelivery == Delivery!Spec
=============================================================================

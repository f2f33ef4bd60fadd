---------------------------- MODULE EventDelivery ----------------------------
(***************************************************************************)
(* What the transactional outbox promises about one domain event, whatever *)
(* the workers, leases, clocks and crashes do underneath.                  *)
(*                                                                         *)
(* A recorded event is attempted again and again until it is settled: it   *)
(* is delivered, which needs its effect to have been applied at least once *)
(* (package comment of event.go: "Delivery is at-least-once"), or it is    *)
(* parked as a dead letter, which needs the attempts of the current round  *)
(* to have reached the limit.  An operator may send a dead letter back     *)
(* with a fresh round.  Only a delivered event is ever forgotten.          *)
(***************************************************************************)
EXTENDS Naturals

CONSTANTS Event,        \* outbox rows
          MaxAttempts   \* outbox_events.max_attempts

VARIABLES status,    \* [Event -> where the event is in its life]
          attempts,  \* [Event -> attempts begun in the current round]
          applied    \* [Event -> whether a handler run committed its effect]

edVars == <<status, attempts, applied>>

Status == {"absent", "pending", "delivered", "dead", "purged"}

Init == /\ status = [e \in Event |-> "absent"]
        /\ attempts = [e \in Event |-> 0]
        /\ applied = [e \in Event |-> FALSE]

Record(e) == /\ status[e] = "absent"
             /\ status' = [status EXCEPT ![e] = "pending"]
             /\ UNCHANGED <<attempts, applied>>

Attempt(e) == /\ status[e] = "pending"
              /\ attempts' = [attempts EXCEPT ![e] = @ + 1]
              /\ UNCHANGED <<status, applied>>

(* A handler run that lost its lease may still commit after the event was  *)
(* settled by another run, hence no condition on pending.                  *)
Apply(e) == /\ status[e] # "absent"
            /\ applied' = [applied EXCEPT ![e] = TRUE]
            /\ UNCHANGED <<status, attempts>>

Deliver(e) == /\ status[e] = "pending"
              /\ attempts[e] > 0
              /\ applied[e]
              /\ status' = [status EXCEPT ![e] = "delivered"]
              /\ UNCHANGED <<attempts, applied>>

Park(e) == /\ status[e] = "pending"
           /\ attempts[e] >= MaxAttempts
           /\ status' = [status EXCEPT ![e] = "dead"]
           /\ UNCHANGED <<attempts, applied>>

Retry(e) == /\ status[e] = "dead"
            /\ status' = [status EXCEPT ![e] = "pending"]
            /\ attempts' = [attempts EXCEPT ![e] = 0]
            /\ UNCHANGED applied

Forget(e) == /\ status[e] = "delivered"
             /\ status' = [status EXCEPT ![e] = "purged"]
             /\ UNCHANGED <<attempts, applied>>

Next == \E e \in Event : \/ Record(e) \/ Attempt(e) \/ Apply(e) \/ Deliver(e)
                         \/ Park(e) \/ Retry(e) \/ Forget(e)

Spec == Init /\ [][Next]_edVars
=============================================================================

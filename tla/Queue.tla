------------------------------- MODULE Queue -------------------------------
(***************************************************************************)
(* The asynq task queue in Redis, as the handler and the worker use it: a  *)
(* task holds the marshalled message; it is pending (also while asynq      *)
(* waits out a retry delay), active in an attempt, completed when a        *)
(* handler returned nil, or archived when its retries are used up.         *)
(*                                                                         *)
(* There is at most one task per request.  The operators are the parts of  *)
(* steps that touch the queue; each says what all queue variables become.  *)
(***************************************************************************)
EXTENDS Store

CONSTANTS Requests,   \* the HTTP requests, each the origin of at most one task
          MaxRetry    \* asynq.MaxRetry(5)

ASSUME QueueAssumption == MaxRetry \in Nat /\ Null \notin Requests

VARIABLES state,     \* where the task is
          payload,   \* the message it carries
          retried,   \* how often asynq has handed it back for another attempt
          attempts,  \* history: attempts begun
          requeued   \* history: attempts put back without counting as a retry

queueVars == <<state, payload, retried, attempts, requeued>>

States == {"none", "pending", "active", "completed", "archived"}

\* The fields of message.Message that steer the worker.
Message  == [user: Users \cup {Null}, token: Apps, via: BOOLEAN]

QueueTypeOK ==
    /\ state \in [Requests -> States]
    /\ payload \in [Requests -> Message \cup {Null}]
    /\ retried \in [Requests -> 0..MaxRetry]
    /\ attempts \in [Requests -> Nat]
    /\ requeued \in [Requests -> Nat]

QueueInit ==
    /\ state    = [r \in Requests |-> "none"]
    /\ payload  = [r \in Requests |-> Null]
    /\ retried  = [r \in Requests |-> 0]
    /\ attempts = [r \in Requests |-> 0]
    /\ requeued = [r \in Requests |-> 0]

-----------------------------------------------------------------------------

Put(r, m) ==
    /\ state' = [state EXCEPT ![r] = "pending"]
    /\ payload' = [payload EXCEPT ![r] = m]
    /\ UNCHANGED <<retried, attempts, requeued>>

Take(r) ==
    /\ state[r] = "pending"
    /\ state' = [state EXCEPT ![r] = "active"]
    /\ attempts' = [attempts EXCEPT ![r] = @ + 1]
    /\ UNCHANGED <<payload, retried, requeued>>

\* The handler returned nil.
Ack(r) ==
    /\ state' = [state EXCEPT ![r] = "completed"]
    /\ UNCHANGED <<payload, retried, attempts, requeued>>

\* Mutant: gives up one attempt too early.
NackEarly(r) ==
    /\ IF retried[r] + 1 < MaxRetry
       THEN /\ state' = [state EXCEPT ![r] = "pending"]
            /\ retried' = [retried EXCEPT ![r] = @ + 1]
       ELSE state' = [state EXCEPT ![r] = "archived"] /\ UNCHANGED retried
    /\ UNCHANGED <<payload, attempts, requeued>>

\* Mutant: gives up one attempt too late.
NackLate(r) ==
    /\ IF retried[r] <= MaxRetry
       THEN /\ state' = [state EXCEPT ![r] = "pending"]
            /\ retried' = [retried EXCEPT ![r] = @ + 1]
       ELSE state' = [state EXCEPT ![r] = "archived"] /\ UNCHANGED retried
    /\ UNCHANGED <<payload, attempts, requeued>>

\* The attempt failed, ran out of time or lost its lease.
Nack(r) ==
    /\ IF retried[r] < MaxRetry
       THEN /\ state' = [state EXCEPT ![r] = "pending"]
            /\ retried' = [retried EXCEPT ![r] = @ + 1]
       ELSE state' = [state EXCEPT ![r] = "archived"] /\ UNCHANGED retried
    /\ UNCHANGED <<payload, attempts, requeued>>

\* A server that shuts down puts unfinished tasks back as they were.
Requeue(r) ==
    /\ state' = [state EXCEPT ![r] = "pending"]
    /\ requeued' = [requeued EXCEPT ![r] = @ + 1]
    /\ UNCHANGED <<payload, retried, attempts>>

=============================================================================

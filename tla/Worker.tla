------------------------------- MODULE Worker -------------------------------
(***************************************************************************)
(* The worker process: an asynq server that runs HandleMessage for each    *)
(* task it takes from the queue.  An attempt looks up the application and  *)
(* its target, hands the message to the target, and counts it; an error    *)
(* makes asynq schedule another attempt.                                   *)
(*                                                                         *)
(* HandleMessage ignores its context.  When asynq gives an attempt up (its *)
(* thirty minutes are over, its lease was not extended, the server shuts   *)
(* down) the handler is "detached" and goes on: it no longer holds one of  *)
(* the server's Concurrency slots and its result is dropped, but it may    *)
(* still deliver.                                                          *)
(*                                                                         *)
(* Encryption (age) sits between the lookups and the delivery; it touches  *)
(* no shared state, and its failure is a delivery that fails unwritten.    *)
(***************************************************************************)
EXTENDS Queue, FiniteSets

CONSTANTS Handlers,     \* goroutines; bound: attempts running at one time
          Concurrency,  \* asynq.Config.Concurrency
          MaxOutages    \* bound: shutdowns and crashes of the process

ASSUME WorkerAssumption == Concurrency \in Nat \ {0} /\ MaxOutages \in Nat

VARIABLES server,     \* "down", "up" or "stopping"
          outages,    \* history: shutdowns and crashes so far
          registry,   \* the targets loaded when the server started
          at,         \* the call each handler makes next, or "idle"
          job,        \* the task it works on
          attached,   \* its result still counts
          try,        \* the number of its attempt
          dest,       \* the target it has read from the application's row
          written,    \* the attempts of each task that reached a target
          unsure,     \* history: attempts whose outcome the queue or the
                      \* handler did not learn
          dismissed   \* history: tasks dropped because a row was disabled

handlerVars == <<at, job, attached, try, dest>>
outcomeVars == <<written, unsure, dismissed>>
workerVars  == <<server, outages, registry, handlerVars, outcomeVars>>

Calls == {"app", "target", "execute", "stat", "return"}

WorkerTypeOK ==
    /\ server \in {"down", "up", "stopping"}
    /\ outages \in 0..MaxOutages
    /\ registry \in SUBSET Targets
    /\ at \in [Handlers -> Calls \cup {"idle"}]
    /\ job \in [Handlers -> Requests \cup {Null}]
    /\ attached \in [Handlers -> BOOLEAN]
    /\ try \in [Handlers -> Nat]
    /\ dest \in [Handlers -> Targets \cup {Null}]
    /\ written \in [Requests -> SUBSET Nat]
    /\ unsure \in [Requests -> SUBSET Nat]
    /\ dismissed \in SUBSET Requests

AllIdle ==
    /\ at = [h \in Handlers |-> "idle"]
    /\ job = [h \in Handlers |-> Null]
    /\ attached = [h \in Handlers |-> FALSE]
    /\ try = [h \in Handlers |-> 0]
    /\ dest = [h \in Handlers |-> Null]

WorkerInit ==
    /\ server = "down"
    /\ outages = 0
    /\ registry = {}
    /\ AllIdle
    /\ written = [r \in Requests |-> {}]
    /\ unsure = [r \in Requests |-> {}]
    /\ dismissed = {}

-----------------------------------------------------------------------------
(* What a step does to its handler and to the task.                          *)

processVars == <<server, outages, registry>>

Busy == {h \in Handlers : attached[h]}
Holds(r) == \E h \in Busy : job[h] = r

IsViaSubmit(h) == payload[job[h]].via

Begin(h, r) ==
    /\ at' = [at EXCEPT ![h] = "app"]
    /\ job' = [job EXCEPT ![h] = r]
    /\ attached' = [attached EXCEPT ![h] = TRUE]
    /\ try' = [try EXCEPT ![h] = attempts[r] + 1]
    /\ UNCHANGED dest

GoOn(h, call) ==
    /\ at' = [at EXCEPT ![h] = call]
    /\ UNCHANGED <<job, attached, try, dest>>

\* Mutant: the goroutine ends, its slot is never given back.
EndKeepsSlot(h) ==
    /\ at' = [at EXCEPT ![h] = "idle"]
    /\ UNCHANGED <<job, attached, try, dest>>

End(h) ==
    /\ at' = [at EXCEPT ![h] = "idle"]
    /\ job' = [job EXCEPT ![h] = Null]
    /\ attached' = [attached EXCEPT ![h] = FALSE]
    /\ try' = [try EXCEPT ![h] = 0]
    /\ dest' = [dest EXCEPT ![h] = Null]

\* Mutant: the error is logged and nil returned, so that asynq sees a success.
Swallow(h) ==
    /\ IF attached[h] THEN Ack(job[h]) ELSE UNCHANGED queueVars
    /\ End(h)
    /\ UNCHANGED processVars

\* Mutant: the result of a detached handler still counts.
FailAnyhow(h) ==
    /\ Nack(job[h])
    /\ End(h)
    /\ UNCHANGED processVars

\* HandleMessage returns an error.
Fail(h) ==
    /\ IF attached[h] THEN Nack(job[h]) ELSE UNCHANGED queueVars
    /\ End(h)
    /\ UNCHANGED processVars

\* HandleMessage returns nil because a row is disabled.
Disregard(h) ==
    /\ IF attached[h]
       THEN Ack(job[h]) /\ dismissed' = dismissed \cup {job[h]}
       ELSE UNCHANGED <<queueVars, dismissed>>
    /\ End(h)
    /\ UNCHANGED <<processVars, written, unsure>>

Wrote(h) == written' = [written EXCEPT ![job[h]] = @ \cup {try[h]}]
Doubt(h) == unsure' = [unsure EXCEPT ![job[h]] = @ \cup {try[h]}]

-----------------------------------------------------------------------------
(* HandleMessage.                                                            *)

Dequeue(h, r) ==
    /\ server = "up"
    /\ at[h] = "idle"
    /\ Cardinality(Busy) < Concurrency
    /\ Take(r)
    /\ Begin(h, r)
    /\ UNCHANGED <<storeVars, processVars, outcomeVars>>

\* A missing row is retried like a failed query.
WorkerGetApplication(h) ==
    /\ at[h] = "app"
    /\ LET m == payload[job[h]]  a == app[m.token] IN
       \E ok \in Outcomes :
         /\ Read(ok)
         /\ \/ /\ ~(ok /\ GetApplication(m.user, m.token))
               /\ Fail(h) /\ UNCHANGED outcomeVars
            \/ /\ ok /\ GetApplication(m.user, m.token)
               /\ ~(m.via \/ a.enable)
               /\ Disregard(h)
            \/ /\ ok /\ GetApplication(m.user, m.token)
               /\ m.via \/ a.enable
               /\ at' = [at EXCEPT ![h] = "target"]
               /\ dest' = [dest EXCEPT ![h] = a.target]
               /\ UNCHANGED <<queueVars, processVars, outcomeVars,
                              job, attached, try>>

\* Mutant: forgets to look at target.Enable.
WorkerGetTargetUnchecked(h) ==
    /\ at[h] = "target"
    /\ \E ok \in Outcomes :
         /\ Read(ok)
         /\ UNCHANGED outcomeVars
         /\ IF ok /\ GetTargetByID(dest[h])
            THEN GoOn(h, "execute") /\ UNCHANGED <<queueVars, processVars>>
            ELSE Fail(h)

WorkerGetTarget(h) ==
    /\ at[h] = "target"
    /\ \E ok \in Outcomes :
         /\ Read(ok)
         /\ \/ /\ ~(ok /\ GetTargetByID(dest[h]))
               /\ Fail(h) /\ UNCHANGED outcomeVars
            \/ /\ ok /\ GetTargetByID(dest[h])
               /\ ~(IsViaSubmit(h) \/ target[dest[h]].enable)
               /\ Disregard(h)
            \/ /\ ok /\ GetTargetByID(dest[h])
               /\ IsViaSubmit(h) \/ target[dest[h]].enable
               /\ GoOn(h, "execute")
               /\ UNCHANGED <<queueVars, processVars, outcomeVars>>

\* Mutant: a delivery that failed is logged and counted as one that worked.
ExecuteOrLog(h) ==
    /\ at[h] = "execute"
    /\ \E ok \in BOOLEAN : Read(ok) /\ IF ok THEN Wrote(h) ELSE UNCHANGED written
    /\ GoOn(h, IF IsViaSubmit(h) THEN "return" ELSE "stat")
    /\ UNCHANGED <<queueVars, processVars, unsure, dismissed>>

\* A target that was not loaded when the server started is a nil interface:
\* the call panics, and asynq turns the panic into an error.  A target that
\* answers with an error may have delivered all the same.
Execute(h) ==
    /\ at[h] = "execute"
    /\ \/ /\ dest[h] \in registry
          /\ Wrote(h)
          /\ GoOn(h, IF IsViaSubmit(h) THEN "return" ELSE "stat")
          /\ Read(TRUE)
          /\ UNCHANGED <<queueVars, processVars, unsure, dismissed>>
       \/ /\ dest[h] \in registry
          /\ Wrote(h) /\ Doubt(h)
          /\ Fail(h)
          /\ Read(FALSE)
          /\ UNCHANGED dismissed
       \/ /\ Fail(h)
          /\ Read(dest[h] \notin registry)
          /\ UNCHANGED outcomeVars

\* Mutant: a failed count fails the attempt.
IncrementSentOrFail(h) ==
    /\ at[h] = "stat"
    /\ \E ok \in Outcomes :
         /\ Count(payload[job[h]].token, "sent", ok)
         /\ IF ok THEN GoOn(h, "return") /\ UNCHANGED <<queueVars, processVars>>
                  ELSE Fail(h)
    /\ UNCHANGED outcomeVars

\* A failed IncrementStat is only logged.
IncrementSent(h) ==
    /\ at[h] = "stat"
    /\ \E ok \in Outcomes : Count(payload[job[h]].token, "sent", ok)
    /\ GoOn(h, "return")
    /\ UNCHANGED <<queueVars, processVars, outcomeVars>>

\* HandleMessage returns nil; asynq marks the task done, or fails to.
Return(h) ==
    /\ at[h] = "return"
    /\ End(h)
    /\ \/ /\ IF attached[h] THEN Ack(job[h]) ELSE UNCHANGED queueVars
          /\ Read(TRUE)
          /\ UNCHANGED unsure
       \/ /\ attached[h]
          /\ Doubt(h)
          /\ Read(FALSE)
          /\ UNCHANGED queueVars
    /\ UNCHANGED <<processVars, written, dismissed>>

HandleMessage(h) ==
    \/ WorkerGetApplication(h)
    \/ WorkerGetTarget(h)
    \/ Execute(h)
    \/ IncrementSent(h)
    \/ Return(h)

-----------------------------------------------------------------------------
(* The asynq server around the handlers.                                     *)

\* asynq stops waiting for a handler: its time is up, its lease was not
\* extended in time, or the server is stopping.
Detach(h) ==
    /\ attached[h]
    /\ attached' = [attached EXCEPT ![h] = FALSE]
    /\ Doubt(h)
    /\ \/ Nack(job[h])
       \/ UNCHANGED queueVars
       \/ server = "stopping" /\ Requeue(job[h])
    /\ Read(FALSE)
    /\ UNCHANGED <<processVars, at, job, try, dest, written, dismissed>>

\* The recoverer takes back tasks that are active under an expired lease.
Recover(r) ==
    /\ server = "up"
    /\ state[r] = "active"
    /\ ~Holds(r)
    /\ Nack(r)
    /\ UNCHANGED <<storeVars, workerVars>>

\* Run loads every target there is, and never again.
Start ==
    /\ server = "down"
    /\ server' = "up"
    /\ registry' = {t \in Targets : target[t].live}
    /\ UNCHANGED <<storeVars, queueVars, outages, handlerVars, outcomeVars>>

Stop ==
    /\ server = "up"
    /\ outages < MaxOutages
    /\ server' = "stopping"
    /\ outages' = outages + 1
    /\ UNCHANGED <<storeVars, queueVars, registry, handlerVars, outcomeVars>>

AllGone ==
    /\ server' = "down"
    /\ registry' = {}
    /\ at' = [h \in Handlers |-> "idle"]
    /\ job' = [h \in Handlers |-> Null]
    /\ attached' = [h \in Handlers |-> FALSE]
    /\ try' = [h \in Handlers |-> 0]
    /\ dest' = [h \in Handlers |-> Null]

\* The process ends when no attempt counts any more; detached ones die with it.
Exit ==
    /\ server = "stopping"
    /\ Busy = {}
    /\ AllGone
    /\ UNCHANGED <<storeVars, queueVars, outages, outcomeVars>>

CrashWorker ==
    /\ server # "down"
    /\ outages < MaxOutages
    /\ outages' = outages + 1
    /\ AllGone
    /\ unsure' = [r \in Requests |->
                    unsure[r] \cup {try[h] : h \in {g \in Busy : job[g] = r}}]
    /\ Read(FALSE)
    /\ UNCHANGED <<queueVars, written, dismissed>>

=============================================================================

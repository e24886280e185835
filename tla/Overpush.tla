------------------------------ MODULE Overpush ------------------------------
(***************************************************************************)
(* The whole of Overpush at run time: the API server and the worker, which *)
(* share the queue and the rows, and the outside world that edits rows.    *)
(***************************************************************************)
EXTENDS Api, Worker

VARIABLES litApps,    \* history: the applications ...
          litTargets  \* ... and targets that were enabled at some moment
                      \* since the handler's attempt began

litVars == <<litApps, litTargets>>
vars == <<storeVars, queueVars, apiVars, workerVars, litVars>>

EnabledApps    == {a \in Apps : app[a].live /\ app[a].enable}
EnabledTargets == {t \in Targets : target[t].live /\ target[t].enable}

TypeOK ==
    /\ StoreTypeOK
    /\ QueueTypeOK
    /\ ApiTypeOK
    /\ WorkerTypeOK
    /\ litApps \in [Handlers -> SUBSET Apps]
    /\ litTargets \in [Handlers -> SUBSET Targets]

Init ==
    /\ StoreInit
    /\ QueueInit
    /\ ApiInit
    /\ WorkerInit
    /\ litApps = [h \in Handlers |-> {}]
    /\ litTargets = [h \in Handlers |-> {}]

\* An idle handler has seen nothing; a busy one what was and what now is lit.
Illuminate ==
    /\ litApps' = [h \in Handlers |->
          IF at'[h] = "idle" THEN {} ELSE litApps[h] \cup EnabledApps']
    /\ litTargets' = [h \in Handlers |->
          IF at'[h] = "idle" THEN {} ELSE litTargets[h] \cup EnabledTargets']

ApiStep == (\E r \in Requests : Handle(r)) \/ CrashApi

HandlerStep(h) == HandleMessage(h) /\ UNCHANGED apiVars /\ Illuminate
DequeueStep(r) == (\E h \in Handlers : Dequeue(h, r)) /\ UNCHANGED apiVars /\ Illuminate
RecoverStep(r) == Recover(r) /\ UNCHANGED apiVars /\ Illuminate
StartStep      == Start /\ UNCHANGED apiVars /\ Illuminate
ExitStep       == Exit /\ UNCHANGED apiVars /\ Illuminate
OutageStep     == /\ Stop \/ CrashWorker \/ \E h \in Handlers : Detach(h)
                  /\ UNCHANGED apiVars
                  /\ Illuminate

Next ==
    \/ ApiStep /\ UNCHANGED workerVars /\ Illuminate
    \/ Edit /\ UNCHANGED <<queueVars, apiVars, workerVars>> /\ Illuminate
    \/ \E h \in Handlers : HandlerStep(h)
    \/ \E r \in Requests : DequeueStep(r) \/ RecoverStep(r)
    \/ StartStep \/ ExitStep \/ OutageStep

Spec == Init /\ [][Next]_vars

(* The worker runs on: handlers take their next step (a target's call      *)
(* returns, well or not), the server polls and recovers, a server that is  *)
(* told to stop ends, and one that ended is started again.  Nothing is     *)
(* assumed of the API, of edits or of faults.                              *)
Fairness ==
    /\ \A h \in Handlers : WF_vars(HandlerStep(h))
    /\ \A r \in Requests : WF_vars(DequeueStep(r)) /\ WF_vars(RecoverStep(r))
    /\ WF_vars(StartStep) /\ WF_vars(ExitStep)

FairSpec == Spec /\ Fairness

-----------------------------------------------------------------------------
(* Safety.                                                                   *)

\* A request answered 200 has its task in the queue, and one answered 400 or
\* 404 has none.  500 is the answer to a failed enqueue only: nothing is queued,
\* or Redis has stored the task and its answer got lost.  So no other call that
\* fails, the counts and the saved input above all, shows in an answer (routes.go
\* 263-270, 290-306).
AnswersAreHonest ==
    \A r \in Requests :
        /\ reply[r] = 200 => state[r] # "none" /\ r \notin doubted
        /\ reply[r] \in {400, 404} => state[r] = "none"
        /\ reply[r] = 500 => (state[r] # "none" <=> r \in doubted)

\* asynq counts a task as done only if some attempt handed the message to a
\* target, or found the application or the target disabled: no error path of
\* HandleMessage returns nil.
DoneMeansDelivered ==
    \A r \in Requests :
        state[r] = "completed" => written[r] # {} \/ r \in dismissed

\* Every attempt is paid for: by a retry, by a shutdown that put the task
\* back, or by being the last; and a task is given up only after 1 + MaxRetry
\* attempts besides the ones a shutdown cut short.
AttemptsAddUp ==
    \A r \in Requests :
        /\ attempts[r] = retried[r] + requeued[r]
              + (IF state[r] \in {"active", "completed", "archived"} THEN 1 ELSE 0)
        /\ state[r] = "archived" => retried[r] = MaxRetry

\* A message goes out twice only for a reason the worker cannot see: an
\* attempt that delivered is followed by another one only if its outcome got
\* lost (target's answer, timeout, lease, shutdown, crash, acknowledgement).
\* In particular, no error after the delivery repeats it.
DuplicatesExcused ==
    \A r \in Requests : \A i \in written[r] :
        i = attempts[r] \/ i \in unsure[r]

\* Two handlers that both still count never work on the same task, and what
\* they work on is active in the queue and is its newest attempt.
OneOwner ==
    \A g, h \in Busy :
        /\ state[job[h]] = "active"
        /\ try[h] = attempts[job[h]]
        /\ job[g] = job[h] => g = h

\* Without faults and edits a message is given up only in a setup without a
\* database, and only if the user key in its body is not the application
\* owner's: GetApplication then finds nothing, though the API, which looked
\* the owner up by the token, has accepted the message.
GivenUpWithCause ==
    ~disturbed =>
        \A r \in Requests : state[r] = "archived" =>
            ~DatabaseEnable /\ ~Custom(r) /\ input[r].user # Owner[Token(r)]

\* The application is there, and neither it nor its owner is disabled; the submit
\* route does not ask about the latter.
Admissible(r) ==
    /\ app[Token(r)].live
    /\ Admits(r, app[Token(r)].enable /\ userEnable[Owner[Token(r)]])

Deliverable(r) == Admits(r, target[app[Token(r)].target].enable)

\* Without faults and edits the status code tells what the rows and the body
\* are like: 200, 404 and 400 mean what they say, and there is no 500.
AnswersFitRows ==
    ~disturbed =>
        \A r \in Requests :
            /\ reply[r] = 200 => Admissible(r) /\ input[r].parses
            /\ reply[r] = 404 => ~Admissible(r)
            /\ reply[r] = 400 => ~input[r].parses
            /\ reply[r] # 500

\* Without faults and edits a message goes out at most once, in the attempt that
\* settles it, and it is dismissed exactly if its target is disabled: a message
\* that was dismissed or given up never went out.
OnceUnlessDisturbed ==
    ~disturbed =>
        \A r \in Requests :
            /\ \A i, j \in written[r] : i = j
            /\ written[r] # {} => Deliverable(r) /\ state[r] \in {"active", "completed"}
            /\ r \in dismissed => ~Deliverable(r)

\* A target gets a message at most once per attempt asynq pays for: the first
\* one, MaxRetry retries, and one for each shutdown that put the task back,
\* though detached handlers deliver beside their successors.
DeliveriesBounded ==
    \A r \in Requests : Cardinality(written[r]) <= 1 + MaxRetry + requeued[r]

Quiet == /\ \A r \in Requests : pc[r] \in {"new", "done"}
         /\ \A h \in Handlers : at[h] = "idle"

Queued(a) == {r \in Requests : state[r] # "none" /\ Token(r) = a /\ ~ViaSubmit(r)}

\* Each attempt that reached a target, of a request that is counted.
Deliveries(a) == UNION {{r} \X written[r] : r \in Queued(a)}

\* The counters count what they say: "processed" never exceeds the tasks the
\* handler queued and "sent" never the deliveries made, also when queries fail
\* and attempts repeat; messages of the submit route are not counted.
StatsBacked ==
    \A a \in Apps :
        /\ stats[a].processed <= Cardinality(Queued(a))
        /\ stats[a].sent <= Cardinality(Deliveries(a))

\* Without faults and edits, and with nothing in flight, they are exact.
StatsExact ==
    DatabaseEnable /\ ~disturbed /\ Quiet =>
        \A a \in Apps :
            /\ stats[a].received = Cardinality(Queued(a))
            /\ stats[a].processed = Cardinality(Queued(a))
            /\ stats[a].sent = Cardinality(Deliveries(a))

-----------------------------------------------------------------------------
(* What a step may never do.                                                 *)

\* A message that did not come in on the submit route goes out only if its
\* application and the target it goes to were enabled at some moment of that
\* attempt, whatever the client claims in "_internal" and however the rows
\* change meanwhile.
WritesOnlyWhileEnabled ==
    [][\A h \in Handlers :
          LET r == job[h] IN
          at[h] = "execute" /\ try[h] \in written'[r] \ written[r]
              => \/ ViaSubmit(r)
                 \/ Token(r) \in litApps[h] /\ dest[h] \in litTargets[h]]_vars

-----------------------------------------------------------------------------
(* Progress.                                                                 *)

\* Every message the API accepted is delivered, dismissed or given up; so is
\* every message that is queued though its client was told 500, or was told
\* nothing because the API died before it could answer.
AcceptedIsSettled ==
    \A r \in Requests :
        reply[r] = 200 \/ state[r] # "none" ~> state[r] \in {"completed", "archived"}

(* The queue and the targets, seen as the promise of module Delivery.        *)
Fate(r) ==
    IF state[r] = "none" THEN "unknown"
    ELSE IF state[r] = "archived" THEN "givenup"
    ELSE IF state[r] # "completed" THEN "promised"
    ELSE IF r \in dismissed THEN "dismissed" ELSE "kept"

Abstract == INSTANCE Delivery WITH
    Messages <- Requests,
    fate     <- [r \in Requests |-> Fate(r)],
    copied   <- {r \in Requests : written[r] # {}}

Promised == Abstract!Spec
PromisedSafely == Abstract!Safe

=============================================================================

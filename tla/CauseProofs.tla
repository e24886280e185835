----------------------------- MODULE CauseProofs -----------------------------
(***************************************************************************)
(* Why a message is given up when nothing disturbs the system: as long as  *)
(* no fault and no edit has happened, rows stay as they were, the registry *)
(* has every target, every attempt counts, and the one call of an attempt  *)
(* that can fail is the lookup of the application in a setup without a     *)
(* database.                                                               *)
(***************************************************************************)
EXTENDS OverpushProofs

\* The user key in the body is not the application owner's, and the worker
\* looks it up by that key.
Mismatch(r) ==
    ~DatabaseEnable /\ ~Custom(r) /\ input[r].user # Owner[Token(r)]

\* A live application has a live target.
RowsStand == \A a \in Apps : app[a].live => target[app[a].target].live

\* A handler or a task that has got past the lookup of the user has a live
\* application.
RowsKnown ==
    \A r \in Requests :
        pc[r] \in {"app", "save", "enqueue", "stat"} \/ state[r] # "none"
            => app[Token(r)].live

Loaded == server # "down" => registry = {t \in Targets : target[t].live}

\* No attempt is detached, and one past the first lookup goes to a live target.
AllCount ==
    \A h \in Handlers : at[h] # "idle" =>
        /\ attached[h]
        /\ server # "down"
        /\ at[h] \in {"target", "execute"} => target[dest[h]].live

ActiveHeld == \A r \in Requests : state[r] = "active" => Holds(r)

Caused == \A r \in Requests : state[r] = "archived" => Mismatch(r)

Calm == RowsStand /\ RowsKnown /\ Loaded /\ AllCount /\ ActiveHeld /\ Caused

CalmInv == ~disturbed => Calm

-----------------------------------------------------------------------------

LEMMA CalmInit == Init => CalmInv
BY DEF Init, StoreInit, QueueInit, ApiInit, WorkerInit, AllIdle, CalmInv, Calm,
       RowsStand, RowsKnown, Loaded, AllCount, ActiveHeld, Caused

\* A step that leaves the system undisturbed found it so and edits no row.
LEMMA Undisturbed ==
    ASSUME Base, Next, ~disturbed'
    PROVE  ~disturbed /\ UNCHANGED <<userEnable, app, target>>
<1> DEFINE Rest == ~disturbed /\ UNCHANGED <<userEnable, app, target>>
<1>1. /\ \A ok : Read(ok) => Rest
      /\ \A a, stat, ok : Count(a, stat, ok) => Rest
      /\ UNCHANGED storeVars => Rest
  BY DEF Read, Count, Noted, storeVars, Base, TypeOK, StoreTypeOK
<1> HIDE DEF Rest
<1>2. ASSUME NEW r \in Requests, Handle(r) PROVE Rest
  <2>1. CASE Receive(r) BY <1>1, <2>1 DEF Receive
  <2>2. CASE ApiGetUser(r) BY <1>1, <2>2 DEF ApiGetUser
  <2>3. CASE ApiGetApplication(r) BY <1>1, <2>3 DEF ApiGetApplication
  <2>4. CASE SaveInput(r) BY <1>1, <2>4 DEF SaveInput
  <2>5. CASE Enqueue(r) BY <1>1, <2>5 DEF Enqueue
  <2>6. CASE IncrementProcessed(r) BY <1>1, <2>6 DEF IncrementProcessed
  <2> QED BY <1>2, <2>1, <2>2, <2>3, <2>4, <2>5, <2>6 DEF Handle
<1>3. ASSUME NEW h \in Handlers, HandleMessage(h) PROVE Rest
  <2>1. CASE WorkerGetApplication(h) BY <1>1, <2>1 DEF WorkerGetApplication
  <2>2. CASE WorkerGetTarget(h) BY <1>1, <2>2 DEF WorkerGetTarget
  <2>3. CASE Execute(h) BY <1>1, <2>3 DEF Execute
  <2>4. CASE IncrementSent(h) BY <1>1, <2>4 DEF IncrementSent
  <2>5. CASE Return(h) BY <1>1, <2>5 DEF Return
  <2> QED BY <1>3, <2>1, <2>2, <2>3, <2>4, <2>5 DEF HandleMessage
<1>4. ~Edit BY DEF Edit, EditUser, EditApp, EditTarget, Edited
<1>5. CrashApi \/ CrashWorker \/ (\E h \in Handlers : Detach(h)) => Rest
  BY <1>1 DEF CrashApi, CrashWorker, Detach
<1>6. \A r \in Requests : DequeueStep(r) \/ RecoverStep(r) => Rest
  BY <1>1 DEF DequeueStep, Dequeue, RecoverStep, Recover
<1>7. Start \/ Stop \/ Exit => Rest BY <1>1 DEF Start, Stop, Exit
<1>8. Rest
  BY <1>2, <1>3, <1>4, <1>5, <1>6, <1>7
  DEF Next, ApiStep, HandlerStep, StartStep, ExitStep, OutageStep
<1> QED BY <1>8 DEF Rest

\* The rows are as they were, requests send what they sent.
LEMMA RowsKept ==
    ASSUME RowsStand, UNCHANGED <<app, target>>
    PROVE  RowsStand'
BY DEF RowsStand

-----------------------------------------------------------------------------
(* The API server.                                                           *)

LEMMA CalmApi ==
    ASSUME Base, Calm, ~disturbed, ~disturbed', UNCHANGED <<app, target>>,
           ApiStep, UNCHANGED workerVars
    PROVE  Calm'
<1> USE DEF Base, TypeOK
<1>1. ~CrashApi BY DEF CrashApi, Read, Noted
<1>2. PICK r \in Requests : Handle(r) BY <1>1 DEF ApiStep
<1>3. input' = input
  BY <1>2 DEF Handle, Receive, ApiGetUser, ApiGetApplication, SaveInput,
              Enqueue, IncrementProcessed, Goto, Answer
<1>4. \/ UNCHANGED queueVars
      \/ state[r] = "none" /\ pc[r] = "enqueue" /\ Put(r, Payload(r))
  BY <1>2 DEF Handle, Receive, ApiGetUser, ApiGetApplication, SaveInput,
              Enqueue, IncrementProcessed, ApiInv
<1>5. \A q \in Requests : /\ q # r => state'[q] = state[q]
                          /\ state'[r] \in {state[r], "pending"}
                          /\ state'[r] # state[r] => pc[r] = "enqueue"
  BY <1>4 DEF Put, QueueTypeOK, queueVars
<1>6. /\ \A q \in Requests : q # r => pc'[q] = pc[q]
      /\ pc'[r] \in {"app", "save", "enqueue", "stat"} => app[Token(r)].live
  <2>1. \E call \in Waits \cup {"done"} : pc' = [pc EXCEPT ![r] = call]
    BY <1>2 DEF Handle, Receive, ApiGetUser, ApiGetApplication, SaveInput,
                Enqueue, IncrementProcessed, Goto, Answer, Waits
  <2>2. \A q \in Requests : q # r => pc'[q] = pc[q]
    BY <2>1 DEF ApiTypeOK
  <2> DEFINE Fine == pc'[r] \in {"app", "save", "enqueue", "stat"} => app[Token(r)].live
  <2>3. CASE Receive(r)
    <3>1. pc'[r] \in {"user", "done"} BY <2>3 DEF Receive, Goto, Answer, ApiTypeOK
    <3>2. Fine BY <3>1
    <3> QED BY <2>2, <3>2
  <2>4. CASE ApiGetUser(r)
    <3>1. PICK ok \in Outcomes :
             IF ok /\ GetUserFromToken(Token(r)) /\ Admits(r, userEnable[Owner[Token(r)]])
             THEN Goto(r, "app") ELSE Answer(r, 404)
      BY <2>4 DEF ApiGetUser
    <3>2. GetUserFromToken(Token(r)) \/ pc'[r] = "done"
      BY <3>1 DEF Answer, ApiTypeOK
    <3>3. Fine BY <3>2 DEF GetUserFromToken
    <3> QED BY <2>2, <3>3
  <2>5. CASE ApiGetApplication(r) \/ SaveInput(r) \/ Enqueue(r) \/ IncrementProcessed(r)
    <3>1. pc[r] \in {"app", "save", "enqueue", "stat"}
      BY <2>5 DEF ApiGetApplication, SaveInput, Enqueue, IncrementProcessed
    <3>2. Fine BY <3>1 DEF Calm, RowsKnown
    <3> QED BY <2>2, <3>2
  <2>6. Fine BY <1>2, <2>3, <2>4, <2>5 DEF Handle
  <2> QED BY <2>2, <2>6
<1>7. RowsKnown'
  BY <1>3, <1>5, <1>6 DEF Calm, RowsKnown, Token
<1>8. Loaded' /\ AllCount'
  BY DEF Calm, Loaded, AllCount, workerVars, handlerVars
<1>9. ActiveHeld'
  BY <1>5 DEF Calm, ActiveHeld, Holds, Busy, workerVars, handlerVars
<1>10. Caused'
  BY <1>3, <1>5 DEF Calm, Caused, Mismatch, Custom, Token
<1> QED BY <1>7, <1>8, <1>9, <1>10, RowsKept DEF Calm

-----------------------------------------------------------------------------
(* The attempts.                                                             *)

\* The lookup of the application fails for one reason only.
LEMMA LookupFails ==
    ASSUME Base, Calm, NEW r \in Requests, state[r] # "none",
           ~GetApplication(payload[r].user, payload[r].token)
    PROVE  Mismatch(r)
<1> USE DEF Base, TypeOK
<1>1. payload[r] = Payload(r) /\ app[Token(r)].live
  BY DEF TaskInv, Calm, RowsKnown
<1>2. payload[r].token = Token(r)
  BY <1>1 DEF Payload, SetViaSubmit, ClearInternal, Bound
<1>3. payload[r].user = IF Custom(r) THEN Owner[Token(r)] ELSE input[r].user
  BY <1>1 DEF Payload, SetViaSubmit, ClearInternal, Bound
<1>4. ~DatabaseEnable /\ payload[r].user # Owner[Token(r)]
  BY <1>1, <1>2
  DEF GetApplication, DatabaseGetApplication, ConfigGetApplication
<1> QED BY <1>3, <1>4 DEF Mismatch

\* A handler goes on to a live target, succeeds, or fails with a cause.
LEMMA CalmForms ==
    ASSUME Base, Calm, ~disturbed, ~disturbed', NEW h \in Handlers,
           HandleMessage(h)
    PROVE  \/ /\ Advances(h)
              /\ at'[h] \in {"target", "execute"} => target[dest'[h]].live
           \/ End(h) /\ Ack(job[h])
           \/ End(h) /\ Nack(job[h]) /\ Mismatch(job[h])
<1> USE DEF Base, TypeOK
<1>0. \A ok : Read(ok) => ok BY DEF Read, Noted
<1>1. at[h] # "idle" /\ (Advances(h) \/ Ends(h)) BY HandlerForms
<1>2. /\ job[h] \in Requests /\ state[job[h]] # "none"
      /\ attached[h] /\ server # "down"
  BY <1>1 DEF HandlerInv, Calm, AllCount
<1>3. CASE WorkerGetApplication(h)
  <2>1. \/ ~GetApplication(payload[job[h]].user, payload[job[h]].token) /\ Fail(h)
        \/ Disregard(h)
        \/ /\ GetApplication(payload[job[h]].user, payload[job[h]].token)
           /\ at' = [at EXCEPT ![h] = "target"]
           /\ dest' = [dest EXCEPT ![h] = app[payload[job[h]].token].target]
           /\ UNCHANGED <<queueVars, job, attached, try>>
    BY <1>0, <1>3 DEF WorkerGetApplication
  <2>2. CASE ~GetApplication(payload[job[h]].user, payload[job[h]].token) /\ Fail(h)
    BY <1>2, <2>2, LookupFails DEF Fail
  <2>3. CASE Disregard(h) BY <1>2, <2>3 DEF Disregard
  <2>4. CASE /\ GetApplication(payload[job[h]].user, payload[job[h]].token)
             /\ at' = [at EXCEPT ![h] = "target"]
             /\ dest' = [dest EXCEPT ![h] = app[payload[job[h]].token].target]
             /\ UNCHANGED <<queueVars, job, attached, try>>
    <3>1. payload[job[h]].token \in Apps
      <4>1. payload[job[h]] = Payload(job[h]) BY <1>2 DEF TaskInv
      <4> QED BY <1>2, <4>1, PayloadType DEF Message
    <3>2. app[payload[job[h]].token].live
      BY <2>4 DEF GetApplication, DatabaseGetApplication, ConfigGetApplication
    <3>3. dest'[h] = app[payload[job[h]].token].target
      BY <2>4 DEF WorkerTypeOK
    <3>4. target[dest'[h]].live BY <3>1, <3>2, <3>3 DEF Calm, RowsStand
    <3>5. dest'[h] \in Targets BY <3>1, <3>3 DEF StoreTypeOK, AppRow
    <3>6. Advances(h) BY <2>4, <3>3, <3>5 DEF Advances, Calls, WorkerTypeOK
    <3> QED BY <3>4, <3>6
  <2> QED BY <2>1, <2>2, <2>3, <2>4
<1>4. CASE WorkerGetTarget(h)
  <2>1. at[h] = "target" /\ target[dest[h]].live
    BY <1>2, <1>4 DEF WorkerGetTarget, Calm, AllCount
  <2>2. \/ Disregard(h)
        \/ GoOn(h, "execute") /\ UNCHANGED queueVars
    BY <1>0, <1>4, <2>1 DEF WorkerGetTarget, GetTargetByID
  <2>3. CASE Disregard(h) BY <1>2, <2>3 DEF Disregard
  <2>4. CASE GoOn(h, "execute") /\ UNCHANGED queueVars
    <3>1. dest' = dest /\ dest[h] \in Targets
      BY <2>1, <2>4 DEF GoOn, HandlerInv
    <3>2. Advances(h) BY <2>4, <3>1 DEF GoOn, Advances, Calls, WorkerTypeOK
    <3> QED BY <2>1, <3>1, <3>2
  <2> QED BY <2>2, <2>3, <2>4
<1>5. CASE Execute(h)
  <2>1. at[h] = "execute" /\ dest[h] \in Targets /\ target[dest[h]].live
    BY <1>2, <1>5 DEF Execute, HandlerInv, Calm, AllCount
  <2>2. dest[h] \in registry BY <1>2, <2>1 DEF Calm, Loaded
  <2>3. GoOn(h, IF IsViaSubmit(h) THEN "return" ELSE "stat") /\ UNCHANGED queueVars
    BY <1>0, <1>5, <2>2 DEF Execute
  <2>4. Advances(h) /\ at'[h] \in {"return", "stat"}
    BY <2>3 DEF GoOn, Advances, Calls, WorkerTypeOK
  <2> QED BY <2>4
<1>6. CASE IncrementSent(h)
  <2>1. GoOn(h, "return") /\ UNCHANGED queueVars BY <1>6 DEF IncrementSent
  <2>2. Advances(h) /\ at'[h] = "return"
    BY <2>1 DEF GoOn, Advances, Calls, WorkerTypeOK
  <2> QED BY <2>2
<1>7. CASE Return(h) BY <1>0, <1>2, <1>7 DEF Return
<1> QED BY <1>3, <1>4, <1>5, <1>6, <1>7 DEF HandleMessage

LEMMA CalmHandler ==
    ASSUME Base, Calm, ~disturbed, ~disturbed', UNCHANGED <<app, target>>,
           NEW h \in Handlers, HandlerStep(h)
    PROVE  Calm'
<1> USE DEF Base, TypeOK
<1>1. HandleMessage(h) /\ UNCHANGED apiVars /\ UNCHANGED processVars /\ at[h] # "idle"
  BY HandlerForms DEF HandlerStep
<1>2. UNCHANGED <<input, pc, server, registry>> BY <1>1 DEF apiVars, processVars
<1>3. job[h] \in Requests /\ state[job[h]] # "none" /\ attached[h] /\ server # "down"
  BY <1>1 DEF HandlerInv, Calm, AllCount
<1>4. CASE /\ Advances(h)
           /\ at'[h] \in {"target", "execute"} => target[dest'[h]].live
  <2>1. UNCHANGED <<job, attached, state>> BY <1>4 DEF Advances, queueVars
  <2>2. \A g \in Handlers : g # h => at'[g] = at[g] /\ dest'[g] = dest[g]
    BY <1>4 DEF Advances, WorkerTypeOK
  <2>3. AllCount' BY <1>2, <1>3, <1>4, <2>1, <2>2 DEF Calm, AllCount
  <2>4. RowsKnown' /\ Caused'
    BY <1>2, <2>1 DEF Calm, RowsKnown, Caused, Mismatch, Custom, Token
  <2>5. ActiveHeld' BY <2>1 DEF Calm, ActiveHeld, Holds, Busy
  <2>6. Loaded' BY <1>2 DEF Calm, Loaded
  <2> QED BY <2>3, <2>4, <2>5, <2>6, RowsKept DEF Calm
<1>5. CASE End(h) /\ (Ack(job[h]) \/ (Nack(job[h]) /\ Mismatch(job[h])))
  <2>1. \A g \in Handlers : g # h =>
            /\ at'[g] = at[g] /\ dest'[g] = dest[g]
            /\ job'[g] = job[g] /\ attached'[g] = attached[g]
    BY <1>5 DEF End, WorkerTypeOK
  <2>2. at'[h] = "idle" BY <1>5 DEF End, WorkerTypeOK
  <2>3. /\ \A q \in Requests : q # job[h] => state'[q] = state[q]
        /\ state'[job[h]] \notin {"none", "active"}
        /\ state'[job[h]] = "archived" => Mismatch(job[h])
    BY <1>3, <1>5 DEF Ack, Nack, QueueTypeOK
  <2>4. AllCount' BY <1>2, <2>1, <2>2 DEF Calm, AllCount
  <2>5. RowsKnown' BY <1>2, <1>3, <2>3 DEF Calm, RowsKnown, Token
  <2>6. Caused' BY <1>2, <2>3 DEF Calm, Caused, Mismatch, Custom, Token
  <2>7. ASSUME NEW q \in Requests, state'[q] = "active"
        PROVE  Holds(q)'
    <3>1. q # job[h] /\ state[q] = "active" BY <2>3, <2>7
    <3>2. PICK g \in Handlers : attached[g] /\ job[g] = q
      BY <3>1 DEF Calm, ActiveHeld, Holds, Busy
    <3>3. g # h BY <3>1, <3>2
    <3> QED BY <2>1, <3>2, <3>3 DEF Holds, Busy
  <2>8. ActiveHeld' BY <2>7 DEF ActiveHeld
  <2>9. Loaded' BY <1>2 DEF Calm, Loaded
  <2> QED BY <2>4, <2>5, <2>6, <2>8, <2>9, RowsKept DEF Calm
<1> QED BY <1>1, <1>4, <1>5, CalmForms

LEMMA CalmDequeue ==
    ASSUME Base, Calm, UNCHANGED <<app, target>>, NEW r \in Requests, DequeueStep(r)
    PROVE  Calm'
<1> USE DEF Base, TypeOK
<1>1. PICK h \in Handlers : Dequeue(h, r) BY DEF DequeueStep
<1>2. /\ Take(r) /\ Begin(h, r) /\ at[h] = "idle" /\ server = "up"
      /\ UNCHANGED <<input, pc, server, registry>>
  BY <1>1 DEF Dequeue, DequeueStep, processVars, apiVars
<1>3. ~attached[h] BY <1>2 DEF HandlerInv
<1>4. /\ at'[h] = "app" /\ attached'[h] /\ job'[h] = r
      /\ \A g \in Handlers : g # h =>
            /\ at'[g] = at[g] /\ dest'[g] = dest[g]
            /\ job'[g] = job[g] /\ attached'[g] = attached[g]
  BY <1>2 DEF Begin, WorkerTypeOK
<1>5. /\ state[r] = "pending" /\ state'[r] = "active"
      /\ \A q \in Requests : q # r => state'[q] = state[q]
  BY <1>2 DEF Take, QueueTypeOK
<1>6. AllCount' BY <1>2, <1>4 DEF Calm, AllCount
<1>7. RowsKnown' BY <1>2, <1>5 DEF Calm, RowsKnown, Token
<1>8. Caused' BY <1>2, <1>5 DEF Calm, Caused, Mismatch, Custom, Token
<1>9. ASSUME NEW q \in Requests, state'[q] = "active"
      PROVE  Holds(q)'
  <2>1. CASE q = r BY <1>4, <2>1 DEF Holds, Busy
  <2>2. CASE q # r
    <3>1. PICK g \in Handlers : attached[g] /\ job[g] = q
      BY <1>5, <1>9, <2>2 DEF Calm, ActiveHeld, Holds, Busy
    <3> QED BY <1>3, <1>4, <3>1 DEF Holds, Busy
  <2> QED BY <2>1, <2>2
<1>10. ActiveHeld' BY <1>9 DEF ActiveHeld
<1>11. Loaded' BY <1>2 DEF Calm, Loaded
<1> QED BY <1>6, <1>7, <1>8, <1>10, <1>11, RowsKept DEF Calm

-----------------------------------------------------------------------------
(* The server around them.                                                   *)

\* Nothing is left to recover, and a restart finds no attempt under way.
LEMMA CalmServer ==
    ASSUME Base, Calm, ~disturbed, ~disturbed', UNCHANGED <<app, target>>,
           \/ \E r \in Requests : RecoverStep(r)
           \/ StartStep \/ ExitStep \/ OutageStep
    PROVE  Calm'
<1> USE DEF Base, TypeOK
<1>1. ~\E r \in Requests : RecoverStep(r)
  BY DEF RecoverStep, Recover, Calm, ActiveHeld
<1>2. UNCHANGED <<input, pc>> BY <1>1 DEF StartStep, ExitStep, OutageStep, apiVars
<1>3. ~CrashWorker /\ \A h \in Handlers : ~Detach(h)
  BY DEF CrashWorker, Detach, Read, Noted
<1>4. UNCHANGED state
  BY <1>1, <1>3 DEF StartStep, Start, ExitStep, Exit, OutageStep, Stop, queueVars
<1>5. RowsKnown' /\ Caused'
  BY <1>2, <1>4 DEF Calm, RowsKnown, Caused, Mismatch, Custom, Token
<1>6. CASE Start
  <2>1. UNCHANGED handlerVars /\ server' = "up" BY <1>6 DEF Start
  <2>2. Loaded' BY <1>6 DEF Start, Loaded
  <2>3. AllCount' BY <2>1 DEF Calm, AllCount, handlerVars
  <2>4. ActiveHeld' BY <1>4, <2>1 DEF Calm, ActiveHeld, Holds, Busy, handlerVars
  <2> QED BY <1>5, <2>2, <2>3, <2>4, RowsKept DEF Calm
<1>7. CASE Stop
  <2>1. UNCHANGED <<registry, handlerVars>> /\ server = "up" /\ server' = "stopping"
    BY <1>7 DEF Stop
  <2>2. Loaded' /\ AllCount' BY <2>1 DEF Calm, Loaded, AllCount, handlerVars
  <2>3. ActiveHeld' BY <1>4, <2>1 DEF Calm, ActiveHeld, Holds, Busy, handlerVars
  <2> QED BY <1>5, <2>2, <2>3, RowsKept DEF Calm
<1>8. CASE Exit
  <2>1. Busy = {} /\ server' = "down" /\ \A h \in Handlers : at'[h] = "idle"
    BY <1>8 DEF Exit, AllGone
  <2>2. Loaded' /\ AllCount' BY <2>1 DEF Loaded, AllCount
  <2>3. ActiveHeld' BY <1>4, <2>1 DEF Calm, ActiveHeld, Holds
  <2> QED BY <1>5, <2>2, <2>3, RowsKept DEF Calm
<1> QED BY <1>1, <1>3, <1>6, <1>7, <1>8 DEF StartStep, ExitStep, OutageStep

LEMMA CalmNext == Base /\ CalmInv /\ [Next]_vars => CalmInv'
<1> SUFFICES ASSUME Base, CalmInv, [Next]_vars, ~disturbed'
             PROVE  Calm'
  BY DEF CalmInv
<1>1. CASE UNCHANGED vars
  BY <1>1
  DEF vars, storeVars, queueVars, apiVars, workerVars, handlerVars, CalmInv, Calm,
      RowsStand, RowsKnown, Loaded, AllCount, ActiveHeld, Holds, Busy, Caused,
      Mismatch, Custom, Token
<1>2. CASE Next
  <2>1. ~disturbed /\ UNCHANGED <<app, target>> BY <1>2, Undisturbed
  <2>2. Calm BY <2>1 DEF CalmInv
  <2>3. ~Edit BY DEF Edit, EditUser, EditApp, EditTarget, Edited
  <2> QED BY <1>2, <2>1, <2>2, <2>3, CalmApi, CalmHandler, CalmDequeue, CalmServer
         DEF Next
<1> QED BY <1>1, <1>2

\* While no fault and no edit has happened, a message is given up for one reason
\* only: a setup without a database, and a user key in the body that is not the
\* application owner's (config.go 133-150, worker.go 178-187).
THEOREM CauseKnown == Spec => []GivenUpWithCause
<1>1. CalmInv => GivenUpWithCause
  BY DEF CalmInv, Calm, Caused, Mismatch, GivenUpWithCause
<1> QED BY <1>1, CalmInit, CalmNext, BaseAlways, PTL DEF Spec

=============================================================================

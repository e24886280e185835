--------------------------- MODULE OverpushProofs ---------------------------
(***************************************************************************)
(* Proofs that Overpush keeps its safety properties for any rows, requests *)
(* and handlers, any number of retries, outages and edits.                 *)
(***************************************************************************)
EXTENDS Overpush, TLAPS

-----------------------------------------------------------------------------
(* Type correctness.                                                         *)

LEMMA StoreInitType == StoreInit => StoreTypeOK
<1> SUFFICES ASSUME StoreInit PROVE StoreTypeOK OBVIOUS
<1>1. stats \in [Apps -> [received: Nat, processed: Nat, sent: Nat]]
  BY DEF StoreInit, Zero
<1>2. edits \in 0..MaxEdits BY StoreAssumption DEF StoreInit, StoreAssumption
<1> QED BY <1>1, <1>2 DEF StoreInit, StoreTypeOK

\* A lookup or a count leaves the store well typed.
LEMMA CountType ==
    ASSUME StoreTypeOK, NEW a \in Apps,
           NEW s \in {"received", "processed", "sent"}, NEW ok \in BOOLEAN,
           Count(a, s, ok)
    PROVE  StoreTypeOK'
<1>1. stats' \in [Apps -> [received: Nat, processed: Nat, sent: Nat]]
  <2>1. \A x \in [received: Nat, processed: Nat, sent: Nat] :
           [x EXCEPT ![s] = @ + 1] \in [received: Nat, processed: Nat, sent: Nat]
    OBVIOUS
  <2> QED BY <2>1 DEF Count, StoreTypeOK
<1>2. disturbed' \in BOOLEAN BY DEF Count, Noted, StoreTypeOK
<1> QED BY <1>1, <1>2 DEF Count, StoreTypeOK

LEMMA ReadType ==
    ASSUME StoreTypeOK, NEW ok \in BOOLEAN, Read(ok)
    PROVE  StoreTypeOK'
BY DEF Read, Noted, StoreTypeOK

LEMMA EditType ==
    ASSUME StoreTypeOK, Edit
    PROVE  StoreTypeOK'
<1>1. Edited BY DEF Edit, EditUser, EditApp, EditTarget
<1>2. edits' \in 0..MaxEdits /\ disturbed' \in BOOLEAN
  BY <1>1, StoreAssumption DEF StoreTypeOK, StoreAssumption, Edited
<1>3. CASE \E u \in Users : EditUser(u)
  BY <1>2, <1>3 DEF StoreTypeOK, EditUser
<1>4. CASE \E a \in Apps : EditApp(a)
  <2>1. PICK a \in Apps : EditApp(a) BY <1>4
  <2>2. Zero \in [received: Nat, processed: Nat, sent: Nat] BY DEF Zero
  <2>3. PICK row \in AppRow : /\ app' = [app EXCEPT ![a] = row]
                              /\ stats' \in {stats, [stats EXCEPT ![a] = Zero]}
    BY <2>1 DEF EditApp
  <2> QED BY <1>2, <2>1, <2>2, <2>3 DEF StoreTypeOK, EditApp
<1>5. CASE \E t \in Targets : EditTarget(t)
  BY <1>2, <1>5 DEF StoreTypeOK, EditTarget
<1> QED BY <1>3, <1>4, <1>5 DEF Edit

LEMMA PutType ==
    ASSUME QueueTypeOK, NEW r \in Requests, NEW m \in Message, Put(r, m)
    PROVE  QueueTypeOK'
BY DEF QueueTypeOK, Put, States

LEMMA TakeType ==
    ASSUME QueueTypeOK, NEW r \in Requests, Take(r)
    PROVE  QueueTypeOK'
BY DEF QueueTypeOK, Take, States

LEMMA AckType ==
    ASSUME QueueTypeOK, NEW r \in Requests, Ack(r)
    PROVE  QueueTypeOK'
BY DEF QueueTypeOK, Ack, States

LEMMA NackType ==
    ASSUME QueueTypeOK, NEW r \in Requests, Nack(r)
    PROVE  QueueTypeOK'
BY QueueAssumption DEF QueueTypeOK, Nack, States, QueueAssumption

LEMMA RequeueType ==
    ASSUME QueueTypeOK, NEW r \in Requests, Requeue(r)
    PROVE  QueueTypeOK'
BY DEF QueueTypeOK, Requeue, States

LEMMA PayloadType ==
    ASSUME ApiTypeOK, NEW r \in Requests
    PROVE  Payload(r) \in Message /\ Token(r) \in Apps
<1>1. input[r] \in Input BY ApiAssumption DEF ApiTypeOK, ApiAssumption
<1>2. Owner[Token(r)] \in Users /\ input[r].token \in Apps
  BY <1>1, StoreAssumption DEF StoreAssumption, Input, Token
<1>3. Bound(r) \in Message
  BY <1>1, <1>2 DEF Bound, Message, Input, Token
<1> QED BY <1>2, <1>3 DEF Payload, ClearInternal, SetViaSubmit, Message,
           ViaSubmit, Token

-----------------------------------------------------------------------------
(* What ties the parts together at every moment.                             *)

\* Nothing is queued before the handler's Enqueue, and everything after it; a
\* handler that goes on has not been told of an error.
ApiInv ==
    \A r \in Requests :
        /\ pc[r] \in {"new", "user", "app", "save", "enqueue"}
              => state[r] = "none" /\ reply[r] = 0
        /\ pc[r] = "stat" => state[r] # "none" /\ reply[r] = 0
        /\ pc[r] = "lost" => reply[r] = 0
        /\ pc[r] \in Waits \cup {"new"} => r \notin doubted

\* A task carries what its request sent, from the first moment to the last.
TaskInv ==
    \A r \in Requests :
        /\ state[r] # "none" => payload[r] = Payload(r)
        /\ state[r] = "none" =>
              attempts[r] = 0 /\ retried[r] = 0 /\ requeued[r] = 0 /\ written[r] = {}

\* What a handler remembers while it works.
HandlerInv ==
    \A h \in Handlers :
        /\ attached[h] => at[h] # "idle"
        /\ at[h] # "idle" =>
              /\ job[h] \in Requests
              /\ state[job[h]] # "none"
              /\ try[h] <= attempts[job[h]]
        /\ at[h] \in {"target", "execute"} => dest[h] \in Targets

Base == TypeOK /\ ApiInv /\ TaskInv /\ HandlerInv /\ AnswersAreHonest

LEMMA BaseInit == Init => Base
<1> SUFFICES ASSUME Init PROVE Base OBVIOUS
<1>1. TypeOK
  <2>1. StoreTypeOK BY StoreInitType DEF Init
  <2>2. QueueTypeOK BY QueueAssumption DEF Init, QueueInit, QueueTypeOK, States, QueueAssumption
  <2>3. ApiTypeOK BY DEF Init, ApiInit, ApiTypeOK
  <2>4. WorkerTypeOK
    BY WorkerAssumption DEF Init, WorkerInit, WorkerTypeOK, AllIdle, WorkerAssumption
  <2> QED BY <2>1, <2>2, <2>3, <2>4 DEF TypeOK, Init
<1>2. ApiInv BY DEF Init, ApiInit, QueueInit, ApiInv
<1>3. TaskInv BY DEF Init, QueueInit, WorkerInit, TaskInv
<1>4. HandlerInv BY DEF Init, WorkerInit, AllIdle, HandlerInv
<1>5. AnswersAreHonest BY DEF Init, ApiInit, QueueInit, AnswersAreHonest
<1> QED BY <1>1, <1>2, <1>3, <1>4, <1>5 DEF Base

\* What any step of the worker leaves of the queue: tasks neither appear nor
\* vanish nor change what they carry.
Kept ==
    /\ payload' = payload
    /\ \A r \in Requests : /\ state'[r] = "none" <=> state[r] = "none"
                           /\ attempts[r] <= attempts'[r]
                           /\ state[r] = "none" =>
                                 /\ attempts'[r] = attempts[r]
                                 /\ retried'[r] = retried[r]
                                 /\ requeued'[r] = requeued[r]

LEMMA QueueSteps ==
    ASSUME QueueTypeOK, NEW r \in Requests, state[r] # "none",
           Take(r) \/ Ack(r) \/ Nack(r) \/ Requeue(r)
    PROVE  Kept /\ QueueTypeOK'
<1>1. QueueTypeOK' BY TakeType, AckType, NackType, RequeueType
<1>2. Kept
  <2>1. CASE Take(r) BY <2>1 DEF Take, Kept, QueueTypeOK
  <2>2. CASE Ack(r) BY <2>2 DEF Ack, Kept, QueueTypeOK
  <2>3. CASE Nack(r) BY <2>3 DEF Nack, Kept, QueueTypeOK
  <2>4. CASE Requeue(r) BY <2>4 DEF Requeue, Kept, QueueTypeOK
  <2> QED BY <2>1, <2>2, <2>3, <2>4
<1> QED BY <1>1, <1>2

LEMMA QueueRests ==
    ASSUME QueueTypeOK, UNCHANGED queueVars
    PROVE  Kept /\ QueueTypeOK'
BY DEF QueueTypeOK, queueVars, Kept

LEMMA PayloadStays ==
    ASSUME input' = input
    PROVE  \A r \in Requests : Payload(r)' = Payload(r)
BY DEF Payload, Bound, ClearInternal, SetViaSubmit, ViaSubmit, Custom, Token

LEMMA LitType ==
    ASSUME TypeOK, Illuminate
    PROVE  /\ litApps' \in [Handlers -> SUBSET Apps]
           /\ litTargets' \in [Handlers -> SUBSET Targets]
<1>1. EnabledApps' \subseteq Apps /\ EnabledTargets' \subseteq Targets
  BY DEF EnabledApps, EnabledTargets
<1> QED BY <1>1 DEF TypeOK, Illuminate

\* Before the Enqueue the handler goes on to its next call or refuses.
LEMMA GoesOn ==
    ASSUME Base, NEW r \in Requests, pc[r] \in {"new", "user", "app", "save"},
           NEW c \in {"user", "app", "save", "enqueue"},
           Goto(r, c), UNCHANGED <<queueVars, doubted>>
    PROVE  ApiTypeOK' /\ ApiInv' /\ AnswersAreHonest'
<1> USE DEF Base, TypeOK, Goto
<1>1. ApiTypeOK' BY DEF ApiTypeOK, Waits
<1>2. ApiInv' BY DEF ApiTypeOK, ApiInv, Waits, queueVars
<1>3. AnswersAreHonest' BY DEF ApiTypeOK, ApiInv, AnswersAreHonest, queueVars
<1> QED BY <1>1, <1>2, <1>3

LEMMA Refuses ==
    ASSUME Base, NEW r \in Requests, pc[r] \in {"new", "user", "app", "save"},
           NEW code \in {400, 404}, Answer(r, code),
           UNCHANGED <<queueVars, doubted>>
    PROVE  ApiTypeOK' /\ ApiInv' /\ AnswersAreHonest'
<1> USE DEF Base, TypeOK, Answer
<1>1. ApiTypeOK' BY DEF ApiTypeOK, Waits
<1>2. ApiInv' BY DEF ApiTypeOK, ApiInv, Waits, queueVars
<1>3. AnswersAreHonest' BY DEF ApiTypeOK, ApiInv, AnswersAreHonest, queueVars
<1> QED BY <1>1, <1>2, <1>3

\* The steps of the API server.
LEMMA BaseApi ==
    ASSUME Base, ApiStep, UNCHANGED workerVars, Illuminate
    PROVE  Base'
<1> USE DEF Base
<1>1. WorkerTypeOK' BY DEF TypeOK, WorkerTypeOK, workerVars, handlerVars, outcomeVars
<1>2. input' = input
  BY DEF ApiStep, Handle, Receive, ApiGetUser, ApiGetApplication, SaveInput,
         Enqueue, IncrementProcessed, CrashApi, Goto, Answer
<1>3. ASSUME NEW r \in Requests, Handle(r)
      PROVE  /\ StoreTypeOK' /\ QueueTypeOK' /\ ApiTypeOK'
             /\ ApiInv' /\ TaskInv' /\ HandlerInv' /\ AnswersAreHonest'
  <2> USE DEF TypeOK
  <2> DEFINE Rest == QueueTypeOK' /\ TaskInv' /\ HandlerInv'
  <2>1. UNCHANGED queueVars => Rest
    BY <1>2, PayloadStays
    DEF QueueTypeOK, TaskInv, HandlerInv, queueVars, workerVars, handlerVars, outcomeVars
  <2>2. Token(r) \in Apps BY PayloadType
  <2>3. CASE Receive(r)
    <3>1. StoreTypeOK' BY <2>3 DEF Receive, storeVars, StoreTypeOK
    <3>2. ApiTypeOK' /\ ApiInv' /\ AnswersAreHonest'
      BY <2>3, GoesOn, Refuses DEF Receive
    <3> QED BY <2>1, <2>3, <3>1, <3>2 DEF Receive
  <2>4. CASE ApiGetUser(r)
    <3>1. StoreTypeOK' BY <2>4, ReadType DEF ApiGetUser, Outcomes
    <3>2. ApiTypeOK' /\ ApiInv' /\ AnswersAreHonest'
      BY <2>4, GoesOn, Refuses DEF ApiGetUser
    <3> QED BY <2>1, <2>4, <3>1, <3>2 DEF ApiGetUser
  <2>5. CASE ApiGetApplication(r)
    <3>1. StoreTypeOK' BY <2>5, ReadType DEF ApiGetApplication, Outcomes
    <3>2. \/ Goto(r, "save") \/ Goto(r, "enqueue")
          \/ Answer(r, 400) \/ Answer(r, 404)
      BY <2>5 DEF ApiGetApplication
    <3>3. ApiTypeOK' /\ ApiInv' /\ AnswersAreHonest'
      BY <2>5, <3>2, GoesOn, Refuses DEF ApiGetApplication
    <3> QED BY <2>1, <2>5, <3>1, <3>3 DEF ApiGetApplication
  <2>6. CASE SaveInput(r)
    <3>1. StoreTypeOK' BY <2>2, <2>6, CountType DEF SaveInput, Outcomes
    <3>2. ApiTypeOK' /\ ApiInv' /\ AnswersAreHonest'
      BY <2>6, GoesOn DEF SaveInput
    <3> QED BY <2>1, <2>6, <3>1, <3>2 DEF SaveInput
  <2>7. CASE IncrementProcessed(r)
    <3>1. StoreTypeOK' BY <2>2, <2>7, CountType DEF IncrementProcessed, Outcomes
    <3>2. pc[r] = "stat" /\ Answer(r, 200) /\ UNCHANGED <<queueVars, doubted>>
      BY <2>7 DEF IncrementProcessed
    <3>3. ApiTypeOK' BY <3>2 DEF Answer, ApiTypeOK, Waits
    <3>4. ApiInv' BY <3>2 DEF Answer, ApiTypeOK, ApiInv, Waits, queueVars
    <3>5. AnswersAreHonest'
      BY <3>2 DEF Answer, ApiTypeOK, ApiInv, Waits, AnswersAreHonest, queueVars
    <3> QED BY <2>1, <3>1, <3>2, <3>3, <3>4, <3>5
  <2>8. CASE Enqueue(r)
    <3>1. StoreTypeOK' BY <2>8, ReadType DEF Enqueue, storeVars, StoreTypeOK
    <3>2. pc[r] = "enqueue" BY <2>8 DEF Enqueue
    <3>3. \/ Put(r, Payload(r)) /\ Goto(r, "stat") /\ UNCHANGED doubted
          \/ Put(r, Payload(r)) /\ Answer(r, 200) /\ UNCHANGED doubted
          \/ Put(r, Payload(r)) /\ Answer(r, 500) /\ doubted' = doubted \cup {r}
          \/ UNCHANGED <<queueVars, doubted>> /\ Answer(r, 500)
      BY <2>8 DEF Enqueue
    <3>4. CASE UNCHANGED <<queueVars, doubted>> /\ Answer(r, 500)
      <4>1. ApiTypeOK' BY <3>4 DEF Answer, ApiTypeOK, Waits
      <4>2. ApiInv' BY <3>2, <3>4 DEF Answer, ApiTypeOK, ApiInv, Waits, queueVars
      <4>3. AnswersAreHonest'
        BY <3>2, <3>4 DEF Answer, ApiTypeOK, ApiInv, Waits, AnswersAreHonest, queueVars
      <4> QED BY <2>1, <3>1, <3>4, <4>1, <4>2, <4>3
    <3>5. CASE Put(r, Payload(r))
      <4>1. QueueTypeOK' BY <3>5, PutType, PayloadType
      <4>2. TaskInv'
        BY <3>5, <1>2, PayloadStays
        DEF Put, QueueTypeOK, TaskInv, workerVars, outcomeVars
      <4>3. HandlerInv'
        BY <3>5 DEF Put, QueueTypeOK, HandlerInv, workerVars, handlerVars
      <4>4. state'[r] = "pending" /\ \A x \in Requests \ {r} : state'[x] = state[x]
        BY <3>5 DEF Put, QueueTypeOK
      <4>5. CASE Goto(r, "stat") /\ UNCHANGED doubted
        <5>1. ApiTypeOK' BY <4>5 DEF Goto, ApiTypeOK, Waits
        <5>2. ApiInv' BY <3>2, <4>4, <4>5 DEF Goto, ApiTypeOK, ApiInv, Waits
        <5>3. AnswersAreHonest'
          BY <3>2, <4>4, <4>5 DEF Goto, ApiTypeOK, ApiInv, AnswersAreHonest
        <5> QED BY <3>1, <4>1, <4>2, <4>3, <5>1, <5>2, <5>3
      <4>6. CASE Answer(r, 200) /\ UNCHANGED doubted
        <5>1. ApiTypeOK' BY <4>6 DEF Answer, ApiTypeOK, Waits
        <5>2. ApiInv' BY <3>2, <4>4, <4>6 DEF Answer, ApiTypeOK, ApiInv, Waits
        <5>3. AnswersAreHonest'
          BY <3>2, <4>4, <4>6 DEF Answer, ApiTypeOK, ApiInv, Waits, AnswersAreHonest
        <5> QED BY <3>1, <4>1, <4>2, <4>3, <5>1, <5>2, <5>3
      <4>7. CASE Answer(r, 500) /\ doubted' = doubted \cup {r}
        <5>1. ApiTypeOK' BY <4>7 DEF Answer, ApiTypeOK, Waits
        <5>2. ApiInv' BY <3>2, <4>4, <4>7 DEF Answer, ApiTypeOK, ApiInv, Waits
        <5>3. AnswersAreHonest'
          BY <3>2, <4>4, <4>7 DEF Answer, ApiTypeOK, ApiInv, Waits, AnswersAreHonest
        <5> QED BY <3>1, <4>1, <4>2, <4>3, <5>1, <5>2, <5>3
      <4> QED BY <2>8, <3>3, <3>5, <3>4, <4>5, <4>6, <4>7
    <3> QED BY <3>3, <3>4, <3>5
  <2> QED BY <1>3, <2>3, <2>4, <2>5, <2>6, <2>7, <2>8 DEF Handle
<1>4. ASSUME CrashApi
      PROVE  /\ StoreTypeOK' /\ QueueTypeOK' /\ ApiTypeOK'
             /\ ApiInv' /\ TaskInv' /\ HandlerInv' /\ AnswersAreHonest'
  <2> USE DEF TypeOK
  <2>1. StoreTypeOK' BY <1>4, ReadType DEF CrashApi
  <2>2. ApiTypeOK' BY <1>4 DEF CrashApi, ApiTypeOK, Waits
  <2>3. ApiInv' /\ AnswersAreHonest'
    BY <1>4 DEF CrashApi, Waits, ApiTypeOK, queueVars, ApiInv, AnswersAreHonest
  <2>4. QueueTypeOK' /\ TaskInv' /\ HandlerInv'
    BY <1>4, PayloadStays
    DEF CrashApi, QueueTypeOK, TaskInv, HandlerInv, queueVars, workerVars, handlerVars, outcomeVars
  <2> QED BY <2>1, <2>2, <2>3, <2>4
<1> QED BY <1>1, <1>3, <1>4, LitType DEF ApiStep, TypeOK

\* What a step of a handler does: it moves on to its next call, or it ends and
\* the queue learns of it if the handler still counts.
Advances(h) ==
    /\ \E c \in Calls :
         /\ at' = [at EXCEPT ![h] = c]
         /\ c \in {"target", "execute"} => dest'[h] \in Targets
    /\ dest' \in [Handlers -> Targets \cup {Null}]
    /\ \A g \in Handlers : g # h => dest'[g] = dest[g]
    /\ UNCHANGED <<job, attached, try, queueVars>>

Ends(h) ==
    /\ End(h)
    /\ \/ UNCHANGED queueVars
       \/ attached[h] /\ (Ack(job[h]) \/ Nack(job[h]))

LEMMA HandlerForms ==
    ASSUME Base, NEW h \in Handlers, HandleMessage(h)
    PROVE  /\ at[h] # "idle"
           /\ StoreTypeOK'
           /\ UNCHANGED processVars
           /\ Advances(h) \/ Ends(h)
           /\ written' \in {written, [written EXCEPT ![job[h]] = @ \cup {try[h]}]}
           /\ unsure' \in {unsure, [unsure EXCEPT ![job[h]] = @ \cup {try[h]}]}
           /\ dismissed' \in {dismissed, dismissed \cup {job[h]}}
<1> USE DEF Base, TypeOK
<1>1. CASE WorkerGetApplication(h)
  <2>1. at[h] = "app" BY <1>1 DEF WorkerGetApplication
  <2>2. job[h] \in Requests /\ payload[job[h]].token \in Apps
    <3>1. job[h] \in Requests /\ payload[job[h]] = Payload(job[h])
      BY <2>1 DEF HandlerInv, TaskInv
    <3> QED BY <3>1, PayloadType DEF Message
  <2>3. app[payload[job[h]].token].target \in Targets
    BY <2>2 DEF StoreTypeOK, AppRow
  <2>4. StoreTypeOK' BY <1>1, ReadType DEF WorkerGetApplication, Outcomes
  <2>5. \/ Fail(h) /\ UNCHANGED outcomeVars
        \/ Disregard(h)
        \/ /\ at' = [at EXCEPT ![h] = "target"]
           /\ dest' = [dest EXCEPT ![h] = app[payload[job[h]].token].target]
           /\ UNCHANGED <<queueVars, processVars, outcomeVars, job, attached, try>>
    BY <1>1 DEF WorkerGetApplication
  <2>6. CASE Fail(h) /\ UNCHANGED outcomeVars
    BY <2>1, <2>4, <2>6 DEF Fail, Ends, outcomeVars
  <2>7. CASE Disregard(h)
    BY <2>1, <2>4, <2>7 DEF Disregard, Ends
  <2>8. CASE /\ at' = [at EXCEPT ![h] = "target"]
             /\ dest' = [dest EXCEPT ![h] = app[payload[job[h]].token].target]
             /\ UNCHANGED <<queueVars, processVars, outcomeVars, job, attached, try>>
    <3>1. Advances(h) BY <2>3, <2>8 DEF Advances, Calls, WorkerTypeOK
    <3> QED BY <2>1, <2>4, <2>8, <3>1 DEF outcomeVars
  <2> QED BY <2>5, <2>6, <2>7, <2>8
<1>2. CASE WorkerGetTarget(h)
  <2>1. at[h] = "target" /\ dest[h] \in Targets
    BY <1>2 DEF WorkerGetTarget, HandlerInv
  <2>2. StoreTypeOK' BY <1>2, ReadType DEF WorkerGetTarget, Outcomes
  <2>3. \/ Fail(h) /\ UNCHANGED outcomeVars
        \/ Disregard(h)
        \/ GoOn(h, "execute") /\ UNCHANGED <<queueVars, processVars, outcomeVars>>
    BY <1>2 DEF WorkerGetTarget
  <2>4. CASE Fail(h) /\ UNCHANGED outcomeVars
    BY <2>1, <2>2, <2>4 DEF Fail, Ends, outcomeVars
  <2>5. CASE Disregard(h)
    BY <2>1, <2>2, <2>5 DEF Disregard, Ends
  <2>6. CASE GoOn(h, "execute") /\ UNCHANGED <<queueVars, processVars, outcomeVars>>
    <3>1. Advances(h) BY <2>1, <2>6 DEF GoOn, Advances, Calls, WorkerTypeOK
    <3> QED BY <2>1, <2>2, <2>6, <3>1 DEF outcomeVars
  <2> QED BY <2>3, <2>4, <2>5, <2>6
<1>3. CASE Execute(h)
  <2>1. at[h] = "execute" BY <1>3 DEF Execute
  <2>2. StoreTypeOK' BY <1>3, ReadType DEF Execute
  <2>3. CASE /\ Wrote(h)
             /\ GoOn(h, IF IsViaSubmit(h) THEN "return" ELSE "stat")
             /\ UNCHANGED <<queueVars, processVars, unsure, dismissed>>
    <3>1. Advances(h) BY <2>3 DEF GoOn, Advances, Calls, WorkerTypeOK
    <3> QED BY <2>1, <2>2, <2>3, <3>1 DEF Wrote
  <2>4. CASE Wrote(h) /\ Doubt(h) /\ Fail(h) /\ UNCHANGED dismissed
    BY <2>1, <2>2, <2>4 DEF Wrote, Doubt, Fail, Ends
  <2>5. CASE Fail(h) /\ UNCHANGED outcomeVars
    BY <2>1, <2>2, <2>5 DEF Fail, Ends, outcomeVars
  <2> QED BY <1>3, <2>3, <2>4, <2>5 DEF Execute
<1>4. CASE IncrementSent(h)
  <2>1. at[h] = "stat" BY <1>4 DEF IncrementSent
  <2>2. payload[job[h]].token \in Apps
    <3>1. job[h] \in Requests /\ payload[job[h]] = Payload(job[h])
      BY <2>1 DEF HandlerInv, TaskInv
    <3> QED BY <3>1, PayloadType DEF Message
  <2>3. StoreTypeOK' BY <1>4, <2>2, CountType DEF IncrementSent, Outcomes
  <2>4. Advances(h)
    BY <1>4 DEF IncrementSent, GoOn, Advances, Calls, WorkerTypeOK
  <2> QED BY <1>4, <2>1, <2>3, <2>4 DEF IncrementSent, outcomeVars
<1>5. CASE Return(h)
  <2>1. at[h] = "return" BY <1>5 DEF Return
  <2>2. StoreTypeOK' BY <1>5, ReadType DEF Return
  <2>3. Ends(h) BY <1>5 DEF Return, Ends
  <2> QED BY <1>5, <2>1, <2>2, <2>3 DEF Return, Doubt
<1> QED BY <1>1, <1>2, <1>3, <1>4, <1>5 DEF HandleMessage

\* Whatever keeps the tasks keeps what the API's variables say of them.
LEMMA KeptApi ==
    ASSUME Base, Kept, UNCHANGED apiVars,
           \A r \in Requests : state[r] = "none" => written'[r] = written[r]
    PROVE  ApiTypeOK' /\ ApiInv' /\ TaskInv' /\ AnswersAreHonest'
<1> USE DEF Base, TypeOK, apiVars
<1>1. ApiTypeOK' BY DEF ApiTypeOK
<1>2. ApiInv' BY DEF ApiInv, Kept
<1>3. TaskInv' BY PayloadStays DEF TaskInv, Kept
<1>4. AnswersAreHonest' BY DEF AnswersAreHonest, Kept
<1> QED BY <1>1, <1>2, <1>3, <1>4

\* The variables of one handler's outcome stay well typed.
LEMMA OutcomeType ==
    ASSUME WorkerTypeOK, NEW h \in Handlers, job[h] \in Requests,
           written' \in {written, [written EXCEPT ![job[h]] = @ \cup {try[h]}]},
           unsure' \in {unsure, [unsure EXCEPT ![job[h]] = @ \cup {try[h]}]},
           dismissed' \in {dismissed, dismissed \cup {job[h]}}
    PROVE  /\ written' \in [Requests -> SUBSET Nat]
           /\ unsure' \in [Requests -> SUBSET Nat]
           /\ dismissed' \in SUBSET Requests
<1>1. try[h] \in Nat BY DEF WorkerTypeOK
<1> QED BY <1>1 DEF WorkerTypeOK

LEMMA BaseHandler ==
    ASSUME Base, NEW h \in Handlers, HandlerStep(h)
    PROVE  Base'
<1> DEFINE r == job[h]
<1>1. /\ HandleMessage(h) /\ UNCHANGED apiVars /\ Illuminate
  BY DEF HandlerStep
<1>2. /\ at[h] # "idle"
      /\ StoreTypeOK'
      /\ UNCHANGED processVars
      /\ Advances(h) \/ Ends(h)
      /\ written' \in {written, [written EXCEPT ![job[h]] = @ \cup {try[h]}]}
      /\ unsure' \in {unsure, [unsure EXCEPT ![job[h]] = @ \cup {try[h]}]}
      /\ dismissed' \in {dismissed, dismissed \cup {job[h]}}
  BY <1>1, HandlerForms
<1>3. r \in Requests /\ state[r] # "none" BY <1>2 DEF Base, HandlerInv
<1>4. Kept /\ QueueTypeOK'
  BY <1>2, <1>3, QueueSteps, QueueRests DEF Base, TypeOK, Advances, Ends
<1>5. ApiTypeOK' /\ ApiInv' /\ TaskInv' /\ AnswersAreHonest'
  <2>1. \A q \in Requests : state[q] = "none" => written'[q] = written[q]
    BY <1>2, <1>3 DEF Base, TypeOK, WorkerTypeOK
  <2> QED BY <1>1, <1>4, <2>1, KeptApi
<1>6. WorkerTypeOK'
  <2> USE DEF Base, TypeOK
  <2>1. /\ written' \in [Requests -> SUBSET Nat]
        /\ unsure' \in [Requests -> SUBSET Nat]
        /\ dismissed' \in SUBSET Requests
    BY <1>2, <1>3, OutcomeType
  <2>2. /\ at' \in [Handlers -> Calls \cup {"idle"}]
        /\ job' \in [Handlers -> Requests \cup {Null}]
        /\ attached' \in [Handlers -> BOOLEAN]
        /\ try' \in [Handlers -> Nat]
        /\ dest' \in [Handlers -> Targets \cup {Null}]
    <3>1. CASE Advances(h) BY <3>1 DEF Advances, WorkerTypeOK
    <3>2. CASE Ends(h) BY <3>2 DEF Ends, End, WorkerTypeOK
    <3> QED BY <1>2, <3>1, <3>2
  <2> QED BY <1>2, <2>1, <2>2 DEF WorkerTypeOK, processVars
<1>7. HandlerInv'
  <2> USE DEF Base, TypeOK
  <2>1. CASE Advances(h)
    <3>1. /\ UNCHANGED <<job, attached, try>>
          /\ \A g \in Handlers : g # h => at'[g] = at[g] /\ dest'[g] = dest[g]
          /\ at'[h] # "idle"
          /\ at'[h] \in {"target", "execute"} => dest'[h] \in Targets
      BY <2>1 DEF Advances, Calls, WorkerTypeOK
    <3>2. \A q \in Requests : /\ state[q] # "none" => state'[q] # "none"
                              /\ attempts' = attempts
      BY <2>1, <1>4 DEF Advances, queueVars, Kept
    <3> QED BY <1>2, <3>1, <3>2 DEF HandlerInv
  <2>2. CASE Ends(h)
    BY <1>4, <2>2 DEF Ends, End, Kept, QueueTypeOK, WorkerTypeOK, HandlerInv
  <2> QED BY <1>2, <2>1, <2>2
<1> QED BY <1>1, <1>2, <1>4, <1>5, <1>6, <1>7, LitType DEF Base, TypeOK

\* The steps of the server around the handlers.
LEMMA BaseDequeue ==
    ASSUME Base, NEW r \in Requests, DequeueStep(r)
    PROVE  Base'
<1> USE DEF Base, TypeOK
<1>1. PICK h \in Handlers : Dequeue(h, r) BY DEF DequeueStep
<1>2. Take(r) /\ Begin(h, r) /\ UNCHANGED <<storeVars, processVars, outcomeVars>>
  BY <1>1 DEF Dequeue
<1>3. state[r] # "none" BY <1>2 DEF Take
<1>4. Kept /\ QueueTypeOK' BY <1>2, <1>3, QueueSteps
<1>5. ApiTypeOK' /\ ApiInv' /\ TaskInv' /\ AnswersAreHonest'
  BY <1>2, <1>4, KeptApi DEF DequeueStep, outcomeVars
<1>6. StoreTypeOK' BY <1>2 DEF storeVars, StoreTypeOK
<1>7. WorkerTypeOK'
  BY <1>2 DEF Begin, WorkerTypeOK, processVars, outcomeVars, QueueTypeOK, Calls
<1>8. HandlerInv'
  BY <1>2, <1>3, <1>4
  DEF Begin, Take, Kept, QueueTypeOK, WorkerTypeOK, HandlerInv
<1> QED BY <1>4, <1>5, <1>6, <1>7, <1>8, LitType DEF DequeueStep

LEMMA BaseRecover ==
    ASSUME Base, NEW r \in Requests, RecoverStep(r)
    PROVE  Base'
<1> USE DEF Base, TypeOK
<1>1. /\ state[r] = "active" /\ Nack(r) /\ Illuminate
      /\ UNCHANGED <<storeVars, workerVars, apiVars>>
  BY DEF RecoverStep, Recover
<1>2. Kept /\ QueueTypeOK' BY <1>1, QueueSteps
<1>3. ApiTypeOK' /\ ApiInv' /\ TaskInv' /\ AnswersAreHonest'
  BY <1>1, <1>2, KeptApi DEF workerVars, outcomeVars
<1>4. StoreTypeOK' /\ WorkerTypeOK'
  BY <1>1 DEF storeVars, StoreTypeOK, workerVars, handlerVars, outcomeVars, WorkerTypeOK
<1>5. HandlerInv'
  BY <1>1, <1>2 DEF Kept, QueueTypeOK, WorkerTypeOK, HandlerInv, workerVars, handlerVars
<1> QED BY <1>1, <1>2, <1>3, <1>4, <1>5, LitType

LEMMA BaseStart ==
    ASSUME Base, StartStep \/ (Stop /\ UNCHANGED apiVars /\ Illuminate)
    PROVE  Base'
<1> USE DEF Base, TypeOK
<1>1. /\ UNCHANGED <<storeVars, queueVars, handlerVars, outcomeVars, apiVars>>
      /\ Illuminate
  BY DEF StartStep, Start, Stop
<1>2. /\ server' \in {"down", "up", "stopping"}
      /\ outages' \in 0..MaxOutages
      /\ registry' \in SUBSET Targets
  BY WorkerAssumption
  DEF StartStep, Start, Stop, WorkerTypeOK, WorkerAssumption
<1>3. StoreTypeOK' /\ WorkerTypeOK'
  BY <1>1, <1>2 DEF storeVars, StoreTypeOK, handlerVars, outcomeVars, WorkerTypeOK
<1>4. Kept /\ QueueTypeOK' BY <1>1, QueueRests
<1>5. ApiTypeOK' /\ ApiInv' /\ TaskInv' /\ AnswersAreHonest'
  BY <1>1, <1>4, KeptApi DEF outcomeVars
<1>6. HandlerInv' BY <1>1 DEF handlerVars, queueVars, HandlerInv
<1> QED BY <1>1, <1>3, <1>4, <1>5, <1>6, LitType

LEMMA BaseGone ==
    ASSUME Base, ExitStep \/ (CrashWorker /\ UNCHANGED apiVars /\ Illuminate)
    PROVE  Base'
<1> USE DEF Base, TypeOK
<1>1. /\ AllGone /\ Illuminate
      /\ UNCHANGED <<queueVars, apiVars, written, dismissed>>
  BY DEF ExitStep, Exit, CrashWorker, outcomeVars
<1>2. StoreTypeOK'
  <2>1. CASE Exit BY <2>1 DEF Exit, storeVars, StoreTypeOK
  <2>2. CASE CrashWorker BY <2>2, ReadType DEF CrashWorker
  <2> QED BY <2>1, <2>2 DEF ExitStep
<1>3. outages' \in 0..MaxOutages
  <2>1. CASE Exit BY <2>1 DEF Exit, WorkerTypeOK
  <2>2. CASE CrashWorker
    BY <2>2, WorkerAssumption DEF CrashWorker, WorkerTypeOK, WorkerAssumption
  <2> QED BY <2>1, <2>2 DEF ExitStep
<1>4. unsure' \in [Requests -> SUBSET Nat]
  <2>1. CASE Exit BY <2>1 DEF Exit, outcomeVars, WorkerTypeOK
  <2>2. CASE CrashWorker BY <2>2 DEF CrashWorker, Busy, WorkerTypeOK
  <2> QED BY <2>1, <2>2 DEF ExitStep
<1>5. WorkerTypeOK' BY <1>1, <1>3, <1>4 DEF AllGone, WorkerTypeOK
<1>6. Kept /\ QueueTypeOK' BY <1>1, QueueRests
<1>7. ApiTypeOK' /\ ApiInv' /\ TaskInv' /\ AnswersAreHonest'
  BY <1>1, <1>6, KeptApi
<1>8. HandlerInv' BY <1>1 DEF AllGone, HandlerInv
<1> QED BY <1>1, <1>2, <1>5, <1>6, <1>7, <1>8, LitType

LEMMA BaseDetach ==
    ASSUME Base, NEW h \in Handlers, Detach(h), UNCHANGED apiVars, Illuminate
    PROVE  Base'
<1> USE DEF Base, TypeOK
<1>1. /\ at[h] # "idle" /\ job[h] \in Requests /\ state[job[h]] # "none"
  BY DEF Detach, HandlerInv
<1>2. Kept /\ QueueTypeOK' BY <1>1, QueueSteps, QueueRests DEF Detach
<1>3. StoreTypeOK' BY ReadType DEF Detach
<1>4. ApiTypeOK' /\ ApiInv' /\ TaskInv' /\ AnswersAreHonest'
  BY <1>2, KeptApi DEF Detach
<1>5. unsure' \in [Requests -> SUBSET Nat]
  BY <1>1, OutcomeType DEF Detach, Doubt
<1>6. WorkerTypeOK'
  BY <1>5 DEF Detach, processVars, WorkerTypeOK
<1>7. HandlerInv'
  BY <1>2 DEF Detach, Kept, QueueTypeOK, WorkerTypeOK, HandlerInv
<1> QED BY <1>2, <1>3, <1>4, <1>6, <1>7, LitType

LEMMA BaseEdit ==
    ASSUME Base, Edit, UNCHANGED <<queueVars, apiVars, workerVars>>, Illuminate
    PROVE  Base'
<1> USE DEF Base, TypeOK
<1>1. StoreTypeOK' BY EditType
<1>2. Kept /\ QueueTypeOK' BY QueueRests
<1>3. ApiTypeOK' /\ ApiInv' /\ TaskInv' /\ AnswersAreHonest'
  BY <1>2, KeptApi DEF workerVars, outcomeVars
<1>4. WorkerTypeOK' /\ HandlerInv'
  BY DEF workerVars, handlerVars, outcomeVars, queueVars, WorkerTypeOK, HandlerInv
<1> QED BY <1>1, <1>2, <1>3, <1>4, LitType

LEMMA BaseStutter ==
    ASSUME Base, UNCHANGED vars
    PROVE  Base'
<1> USE DEF Base, TypeOK, vars, storeVars, queueVars, apiVars, workerVars,
            handlerVars, outcomeVars, litVars
<1>1. StoreTypeOK' /\ QueueTypeOK' BY DEF StoreTypeOK, QueueTypeOK
<1>2. ApiTypeOK' /\ WorkerTypeOK' BY DEF ApiTypeOK, WorkerTypeOK
<1>3. ApiInv' /\ HandlerInv' BY DEF ApiInv, HandlerInv
<1>4. TaskInv' BY PayloadStays DEF TaskInv
<1>5. AnswersAreHonest' BY DEF AnswersAreHonest
<1> QED BY <1>1, <1>2, <1>3, <1>4, <1>5

LEMMA BaseNext == Base /\ [Next]_vars => Base'
<1> SUFFICES ASSUME Base, [Next]_vars PROVE Base' OBVIOUS
<1>1. CASE ApiStep /\ UNCHANGED workerVars /\ Illuminate BY <1>1, BaseApi
<1>2. CASE Edit /\ UNCHANGED <<queueVars, apiVars, workerVars>> /\ Illuminate
  BY <1>2, BaseEdit
<1>3. CASE \E h \in Handlers : HandlerStep(h) BY <1>3, BaseHandler
<1>4. CASE \E r \in Requests : DequeueStep(r) \/ RecoverStep(r)
  BY <1>4, BaseDequeue, BaseRecover
<1>5. CASE StartStep BY <1>5, BaseStart
<1>6. CASE ExitStep BY <1>6, BaseGone
<1>7. CASE OutageStep BY <1>7, BaseStart, BaseGone, BaseDetach DEF OutageStep
<1>8. CASE UNCHANGED vars BY <1>8, BaseStutter
<1> QED BY <1>1, <1>2, <1>3, <1>4, <1>5, <1>6, <1>7, <1>8 DEF Next

LEMMA BaseAlways == Spec => []Base
<1> QED BY BaseInit, BaseNext, PTL DEF Spec

\* Every variable has its type: in particular no task is retried more often
\* than MaxRetry allows, whatever fails, times out, crashes or is edited.
THEOREM TypeCorrect == Spec => []TypeOK
<1>1. Base => TypeOK BY DEF Base
<1> QED BY <1>1, BaseAlways, PTL

\* A 200 answer means the task is in the queue, a 400 or 404 that it is not
\* (the handler of api/routes.go returns where it answers).
THEOREM HonestAnswers == Spec => []AnswersAreHonest
<1>1. Base => AnswersAreHonest BY DEF Base
<1> QED BY <1>1, BaseAlways, PTL

-----------------------------------------------------------------------------
(* One owner for each active task, and attempts that add up.                 *)

LEMMA OwnerInit == Init => OneOwner
BY DEF Init, WorkerInit, AllIdle, OneOwner, Busy

LEMMA OwnerApi ==
    ASSUME Base, OneOwner, ApiStep, UNCHANGED workerVars
    PROVE  OneOwner'
<1> USE DEF Base, TypeOK
<1>1. \A r \in Requests : state[r] # "none" =>
          state'[r] = state[r] /\ attempts'[r] = attempts[r]
  <2>1. CASE UNCHANGED queueVars BY <2>1 DEF queueVars
  <2>2. CASE \E r \in Requests : pc[r] = "enqueue" /\ Put(r, Payload(r))
    BY <2>2 DEF Put, QueueTypeOK, ApiInv
  <2> QED BY <2>1, <2>2 DEF ApiStep, Handle, Receive, ApiGetUser, ApiGetApplication,
                SaveInput, Enqueue, IncrementProcessed, CrashApi
<1>2. \A h \in Busy : job[h] \in Requests /\ state[job[h]] # "none"
  BY DEF Busy, HandlerInv
<1> QED BY <1>1, <1>2 DEF OneOwner, Busy, workerVars, handlerVars

LEMMA OwnerHandler ==
    ASSUME Base, OneOwner, NEW h \in Handlers, HandlerStep(h)
    PROVE  OneOwner'
<1> USE DEF Base, TypeOK
<1>1. at[h] # "idle" /\ (Advances(h) \/ Ends(h)) BY HandlerForms DEF HandlerStep
<1>2. job[h] \in Requests BY <1>1 DEF HandlerInv
<1>3. CASE Advances(h) BY <1>3 DEF Advances, queueVars, OneOwner, Busy
<1>4. CASE Ends(h)
  <2>1. Busy' = Busy \ {h} /\ \A g \in Busy' : job'[g] = job[g] /\ try'[g] = try[g]
    BY <1>4 DEF Ends, End, Busy, WorkerTypeOK
  <2>2. CASE UNCHANGED queueVars BY <2>1, <2>2 DEF queueVars, OneOwner
  <2>3. CASE attached[h] /\ (Ack(job[h]) \/ Nack(job[h]))
    <3>1. \A r \in Requests : r # job[h] =>
              state'[r] = state[r] /\ attempts'[r] = attempts[r]
      BY <2>3, <1>2 DEF Ack, Nack, QueueTypeOK
    <3>2. \A g \in Busy' : job[g] # job[h]
      BY <2>1, <2>3 DEF OneOwner, Busy
    <3>3. \A g \in Busy : job[g] \in Requests BY DEF Busy, HandlerInv
    <3> QED BY <2>1, <3>1, <3>2, <3>3 DEF OneOwner
  <2> QED BY <1>4, <2>2, <2>3 DEF Ends
<1> QED BY <1>1, <1>3, <1>4

LEMMA OwnerDequeue ==
    ASSUME Base, OneOwner, NEW r \in Requests, DequeueStep(r)
    PROVE  OneOwner'
<1> USE DEF Base, TypeOK
<1>1. PICK h \in Handlers : Dequeue(h, r) BY DEF DequeueStep
<1>2. Take(r) /\ Begin(h, r) /\ at[h] = "idle" BY <1>1 DEF Dequeue
<1>3. h \notin Busy BY <1>2 DEF HandlerInv, Busy
<1>4. \A g \in Busy : job[g] \in Requests /\ job[g] # r
  BY <1>2 DEF OneOwner, Take, Busy, HandlerInv
<1>5. Busy' = Busy \cup {h} BY <1>2 DEF Begin, Busy, WorkerTypeOK
<1>6. \A g \in Busy : job'[g] = job[g] /\ try'[g] = try[g]
  BY <1>2, <1>3 DEF Begin, Busy, WorkerTypeOK
<1>7. \A g \in Busy : /\ state'[job[g]] = state[job[g]]
                      /\ attempts'[job[g]] = attempts[job[g]]
  BY <1>2, <1>4 DEF Take, QueueTypeOK
<1>8. job'[h] = r /\ try'[h] = attempts'[r] /\ state'[r] = "active"
  BY <1>2 DEF Begin, Take, WorkerTypeOK, QueueTypeOK
<1> QED BY <1>4, <1>5, <1>6, <1>7, <1>8 DEF OneOwner

LEMMA OwnerRecover ==
    ASSUME Base, OneOwner, NEW r \in Requests, RecoverStep(r)
    PROVE  OneOwner'
<1> USE DEF Base, TypeOK
<1>1. Nack(r) /\ UNCHANGED workerVars /\ \A g \in Busy : job[g] # r
  BY DEF RecoverStep, Recover, Holds
<1>2. \A g \in Busy : job[g] \in Requests BY DEF Busy, HandlerInv
<1>3. \A g \in Busy : /\ state'[job[g]] = state[job[g]]
                      /\ attempts'[job[g]] = attempts[job[g]]
  BY <1>1, <1>2 DEF Nack, QueueTypeOK
<1> QED BY <1>1, <1>3 DEF OneOwner, Busy, workerVars, handlerVars

LEMMA OwnerDetach ==
    ASSUME Base, OneOwner, NEW h \in Handlers, Detach(h)
    PROVE  OneOwner'
<1> USE DEF Base, TypeOK
<1>1. /\ Busy' = Busy \ {h} /\ h \in Busy
      /\ UNCHANGED <<job, try>>
  BY DEF Detach, Busy, WorkerTypeOK
<1>2. \A g \in Busy : job[g] \in Requests BY DEF Busy, HandlerInv
<1>3. \A g \in Busy' : job[g] # job[h] BY <1>1 DEF OneOwner
<1>4. \A q \in Requests : q # job[h] =>
          state'[q] = state[q] /\ attempts'[q] = attempts[q]
  BY <1>1, <1>2 DEF Detach, Nack, Requeue, queueVars, QueueTypeOK
<1> QED BY <1>1, <1>2, <1>3, <1>4 DEF OneOwner

LEMMA OwnerNext == Base /\ OneOwner /\ [Next]_vars => OneOwner'
<1> SUFFICES ASSUME Base, OneOwner, [Next]_vars PROVE OneOwner' OBVIOUS
<1>1. CASE UNCHANGED <<queueVars, handlerVars>>
  BY <1>1 DEF OneOwner, Busy, queueVars, handlerVars
<1>2. CASE AllGone
  BY <1>2 DEF AllGone, OneOwner, Busy
<1>3. CASE ApiStep /\ UNCHANGED workerVars BY <1>3, OwnerApi
<1>4. CASE \E h \in Handlers : HandlerStep(h) BY <1>4, OwnerHandler
<1>5. CASE \E r \in Requests : DequeueStep(r) \/ RecoverStep(r)
  BY <1>5, OwnerDequeue, OwnerRecover
<1>6. CASE \E h \in Handlers : Detach(h) BY <1>6, OwnerDetach
<1> QED BY <1>1, <1>2, <1>3, <1>4, <1>5, <1>6
        DEF Next, vars, workerVars, StartStep, Start, ExitStep, Exit, OutageStep,
            Stop, CrashWorker

\* Handlers that still count never share a task, and a task they work on is not
\* at the same time pending for another attempt.
THEOREM OwnedOnce == Spec => []OneOwner
<1> QED BY OwnerInit, OwnerNext, BaseAlways, PTL DEF Spec

\* How a step can move the queue.
LEMMA QueueMoves ==
    ASSUME Base, OneOwner, [Next]_vars
    PROVE  \/ UNCHANGED queueVars
           \/ \E r \in Requests : state[r] = "none" /\ Put(r, Payload(r))
           \/ \E r \in Requests : Take(r)
           \/ \E r \in Requests : state[r] = "active" /\ (Ack(r) \/ Nack(r) \/ Requeue(r))
<1> USE DEF Base, TypeOK
<1>1. CASE UNCHANGED queueVars BY <1>1
<1>2. CASE ApiStep
  BY <1>2 DEF ApiStep, Handle, Receive, ApiGetUser, ApiGetApplication, SaveInput,
              Enqueue, IncrementProcessed, CrashApi, ApiInv
<1>3. CASE \E h \in Handlers : HandlerStep(h)
  <2>1. PICK h \in Handlers : HandlerStep(h) BY <1>3
  <2>2. at[h] # "idle" /\ (Advances(h) \/ Ends(h))
    BY <2>1, HandlerForms DEF HandlerStep
  <2>3. job[h] \in Requests /\ (attached[h] => state[job[h]] = "active")
    BY <2>2 DEF HandlerInv, OneOwner, Busy
  <2> QED BY <2>2, <2>3 DEF Advances, Ends
<1>4. CASE \E r \in Requests : DequeueStep(r) \/ RecoverStep(r)
  BY <1>4 DEF DequeueStep, Dequeue, RecoverStep, Recover
<1>5. CASE \E h \in Handlers : Detach(h)
  <2>1. PICK h \in Handlers : Detach(h) BY <1>5
  <2>2. job[h] \in Requests /\ state[job[h]] = "active"
    BY <2>1 DEF Detach, HandlerInv, OneOwner, Busy
  <2> QED BY <2>1, <2>2 DEF Detach
<1> QED BY <1>1, <1>2, <1>3, <1>4, <1>5
        DEF Next, vars, StartStep, Start, ExitStep, Exit, OutageStep, Stop, CrashWorker

LEMMA AttemptsInit == Init => AttemptsAddUp
BY DEF Init, QueueInit, AttemptsAddUp

LEMMA AttemptsNext ==
    ASSUME Base, OneOwner, AttemptsAddUp, [Next]_vars
    PROVE  AttemptsAddUp'
<1> USE DEF Base, TypeOK
<1>1. CASE UNCHANGED queueVars BY <1>1 DEF queueVars, AttemptsAddUp
<1>2. CASE \E r \in Requests : state[r] = "none" /\ Put(r, Payload(r))
  BY <1>2 DEF Put, QueueTypeOK, AttemptsAddUp
<1>3. CASE \E r \in Requests : Take(r)
  BY <1>3 DEF Take, QueueTypeOK, AttemptsAddUp
<1>4. ASSUME NEW r \in Requests, state[r] = "active", Ack(r) \/ Nack(r) \/ Requeue(r)
      PROVE  AttemptsAddUp'
  <2>1. CASE Ack(r) BY <1>4, <2>1 DEF Ack, QueueTypeOK, AttemptsAddUp
  <2>2. CASE Nack(r)
    BY <1>4, <2>2, QueueAssumption
    DEF Nack, QueueTypeOK, AttemptsAddUp, QueueAssumption
  <2>3. CASE Requeue(r) BY <1>4, <2>3 DEF Requeue, QueueTypeOK, AttemptsAddUp
  <2> QED BY <1>4, <2>1, <2>2, <2>3
<1> QED BY <1>1, <1>2, <1>3, <1>4, QueueMoves

\* For any MaxRetry and any number of shutdowns: each attempt was a retry, was
\* put back by a shutdown or is the last, and a task is archived only after all
\* of its retries (asynq.MaxRetry(5), routes.go 260).
THEOREM AllAttemptsUsed == Spec => []AttemptsAddUp
<1>1. Base /\ OneOwner /\ AttemptsAddUp /\ [Next]_vars => AttemptsAddUp'
  BY AttemptsNext
<1> QED BY <1>1, AttemptsInit, BaseAlways, OwnedOnce, PTL DEF Spec

-----------------------------------------------------------------------------
(* Deliveries: what is done was delivered, and duplicates have an excuse.    *)

\* The steps of a handler, one by one.
LEMMA HandlerMoves ==
    ASSUME NEW h \in Handlers, HandleMessage(h)
    PROVE  \/ /\ at[h] \in {"app", "target"}
              /\ \E c \in {"target", "execute"} : at' = [at EXCEPT ![h] = c]
              /\ UNCHANGED <<queueVars, outcomeVars, job, attached, try>>
           \/ /\ at[h] = "execute"
              /\ \E c \in {"stat", "return"} : at' = [at EXCEPT ![h] = c]
              /\ Wrote(h)
              /\ UNCHANGED <<queueVars, job, attached, try, unsure, dismissed>>
           \/ /\ at[h] = "stat"
              /\ at' = [at EXCEPT ![h] = "return"]
              /\ UNCHANGED <<queueVars, outcomeVars, job, attached, try>>
           \/ /\ at[h] \in {"app", "target", "execute"}
              /\ Fail(h)
              /\ UNCHANGED outcomeVars
           \/ /\ at[h] = "execute"
              /\ Fail(h) /\ Wrote(h) /\ Doubt(h)
              /\ UNCHANGED dismissed
           \/ /\ at[h] \in {"app", "target"}
              /\ Disregard(h)
           \/ /\ at[h] = "return"
              /\ End(h)
              /\ IF attached[h] THEN Ack(job[h]) ELSE UNCHANGED queueVars
              /\ UNCHANGED outcomeVars
           \/ /\ at[h] = "return"
              /\ attached[h] /\ End(h) /\ Doubt(h)
              /\ UNCHANGED <<queueVars, written, dismissed>>
<1>1. CASE WorkerGetApplication(h) BY <1>1 DEF WorkerGetApplication
<1>2. CASE WorkerGetTarget(h) BY <1>2 DEF WorkerGetTarget, GoOn
<1>3. CASE Execute(h) BY <1>3 DEF Execute, GoOn
<1>4. CASE IncrementSent(h) BY <1>4 DEF IncrementSent, GoOn
<1>5. CASE Return(h) BY <1>5 DEF Return, outcomeVars
<1> QED BY <1>1, <1>2, <1>3, <1>4, <1>5 DEF HandleMessage

\* A handler of task r that delivered and still counts.
Delivering(r) == \E h \in Busy : job[h] = r /\ at[h] \in {"stat", "return"}

CopyInv ==
    /\ \A r \in Requests : \A i \in written[r] :
          i \in unsure[r] \/ (i = attempts[r] /\ (state[r] = "completed" \/ Delivering(r)))
    /\ \A h \in Handlers : at[h] # "idle" /\ ~attached[h] => try[h] \in unsure[job[h]]
    /\ \A h \in Handlers : at[h] \in {"stat", "return"} => written[job[h]] # {}
    /\ DoneMeansDelivered

LEMMA CopyInit == Init => CopyInv
BY DEF Init, QueueInit, WorkerInit, AllIdle, CopyInv, DoneMeansDelivered

LEMMA CopyApi ==
    ASSUME Base, CopyInv, ApiStep, UNCHANGED workerVars
    PROVE  CopyInv'
<1> USE DEF Base, TypeOK
<1>1. UNCHANGED queueVars \/ \E r \in Requests : pc[r] = "enqueue" /\ Put(r, Payload(r))
  BY DEF ApiStep, Handle, Receive, ApiGetUser, ApiGetApplication, SaveInput,
         Enqueue, IncrementProcessed, CrashApi
<1>2. \A r \in Requests : /\ attempts'[r] = attempts[r]
                          /\ state[r] # "none" => state'[r] = state[r]
                          /\ state'[r] = "completed" => state[r] = "completed"
  BY <1>1 DEF queueVars, Put, QueueTypeOK, ApiInv
<1>3. UNCHANGED <<Busy, job, at, attached, try, written, unsure, dismissed>>
  BY DEF Busy, workerVars, handlerVars, outcomeVars
<1>4. \A r \in Requests : Delivering(r)' = Delivering(r)
  BY <1>3 DEF Delivering
<1>5. \A r \in Requests : written[r] # {} => state[r] # "none" BY DEF TaskInv
<1> QED BY <1>2, <1>3, <1>4, <1>5 DEF CopyInv, DoneMeansDelivered

\* Steps of a handler that do not end it.
LEMMA CopyAdvance ==
    ASSUME Base, OneOwner, CopyInv, NEW h \in Handlers,
           NEW c \in Calls, at' = [at EXCEPT ![h] = c],
           UNCHANGED <<queueVars, job, attached, try, unsure, dismissed>>,
           \/ at[h] \in {"app", "target"} /\ c \in {"target", "execute"} /\ written' = written
           \/ at[h] = "execute" /\ c \in {"stat", "return"} /\ Wrote(h)
           \/ at[h] = "stat" /\ c = "return" /\ written' = written
    PROVE  CopyInv'
<1> USE DEF Base, TypeOK
<1>1. job[h] \in Requests /\ at[h] # "idle" BY DEF HandlerInv
<1>2. Busy' = Busy BY DEF Busy
<1>3. \A r \in Requests : Delivering(r) => Delivering(r)'
  BY <1>2 DEF Delivering, Busy, WorkerTypeOK
<1>4. \A r \in Requests : written[r] \subseteq written'[r] /\ state'[r] = state[r]
  BY <1>1 DEF Wrote, WorkerTypeOK, queueVars
<1>5. ASSUME NEW r \in Requests, NEW i \in written'[r]
      PROVE  i \in unsure'[r]
                \/ (i = attempts'[r] /\ (state'[r] = "completed" \/ Delivering(r)'))
  <2>1. CASE i \in written[r] BY <1>3, <2>1, <1>5 DEF CopyInv, queueVars
  <2>2. CASE i \notin written[r]
    <3>1. /\ r = job[h] /\ i = try[h] /\ c \in {"stat", "return"}
      BY <1>1, <1>5, <2>2 DEF Wrote, WorkerTypeOK
    <3>2. CASE ~attached[h] BY <1>1, <3>1, <3>2 DEF CopyInv
    <3>3. CASE attached[h]
      <4>1. i = attempts'[r] BY <3>1, <3>3 DEF OneOwner, Busy, queueVars
      <4>2. Delivering(r)' BY <1>2, <3>1, <3>3 DEF Delivering, Busy, WorkerTypeOK
      <4> QED BY <4>1, <4>2
    <3> QED BY <3>2, <3>3 DEF WorkerTypeOK
  <2> QED BY <2>1, <2>2
<1>6. ASSUME NEW g \in Handlers, at'[g] # "idle", ~attached'[g]
      PROVE  try'[g] \in unsure'[job'[g]]
  BY <1>1, <1>6 DEF CopyInv, WorkerTypeOK
<1>7. ASSUME NEW g \in Handlers, at'[g] \in {"stat", "return"}
      PROVE  written'[job'[g]] # {}
  <2>1. CASE at[g] \in {"stat", "return"}
    <3>1. job[g] \in Requests /\ written[job[g]] # {} BY <2>1 DEF CopyInv, HandlerInv
    <3> QED BY <1>4, <3>1
  <2>2. CASE at[g] \notin {"stat", "return"}
    <3>1. g = h /\ Wrote(h) BY <1>7, <2>2 DEF WorkerTypeOK
    <3> QED BY <1>1, <3>1 DEF Wrote, WorkerTypeOK
  <2> QED BY <2>1, <2>2
<1>8. DoneMeansDelivered' BY <1>4 DEF CopyInv, DoneMeansDelivered
<1> QED BY <1>5, <1>6, <1>7, <1>8 DEF CopyInv

\* Steps that end a handler, for a task the handler is the last to know of.
LEMMA CopyEnd ==
    ASSUME Base, OneOwner, CopyInv, NEW h \in Handlers, at[h] # "idle", End(h),
           \/ /\ at[h] \in {"app", "target", "execute"}
              /\ IF attached[h] THEN Nack(job[h]) ELSE UNCHANGED queueVars
              /\ UNCHANGED dismissed
              /\ UNCHANGED <<written, unsure>> \/ (Wrote(h) /\ Doubt(h))
           \/ /\ at[h] \in {"app", "target"}
              /\ IF attached[h]
                 THEN Ack(job[h]) /\ dismissed' = dismissed \cup {job[h]}
                 ELSE UNCHANGED <<queueVars, dismissed>>
              /\ UNCHANGED <<written, unsure>>
           \/ /\ at[h] = "return"
              /\ IF attached[h] THEN Ack(job[h]) ELSE UNCHANGED queueVars
              /\ UNCHANGED <<written, unsure, dismissed>>
           \/ /\ at[h] = "return" /\ attached[h] /\ Doubt(h)
              /\ UNCHANGED <<queueVars, written, dismissed>>
    PROVE  CopyInv'
<1> USE DEF Base, TypeOK
<1> DEFINE q == job[h]
<1>1. q \in Requests /\ try[h] \in Nat BY DEF HandlerInv, WorkerTypeOK
<1>2. /\ Busy' = Busy \ {h} /\ Busy \subseteq Handlers
      /\ \A g \in Handlers : g # h =>
            /\ at'[g] = at[g] /\ job'[g] = job[g] /\ try'[g] = try[g]
            /\ attached'[g] = attached[g]
      /\ at'[h] = "idle"
  BY DEF End, Busy, WorkerTypeOK
<1>3. \A r \in Requests \ {q} :
          /\ state'[r] = state[r] /\ attempts'[r] = attempts[r]
          /\ written'[r] = written[r] /\ unsure'[r] = unsure[r]
  BY <1>1 DEF Nack, Ack, queueVars, QueueTypeOK, Wrote, Doubt, WorkerTypeOK
<1>4. \A r \in Requests \ {q} : Delivering(r) => Delivering(r)'
  BY <1>2 DEF Delivering
<1>5. attempts'[q] = attempts[q] BY DEF Nack, Ack, queueVars
<1>6. /\ unsure[q] \subseteq unsure'[q]
      /\ \A r \in Requests : written[r] \subseteq written'[r]
  BY <1>1 DEF Wrote, Doubt, WorkerTypeOK
<1>7. \A i \in written'[q] \ written[q] : i \in unsure'[q]
  BY <1>1 DEF Wrote, Doubt, WorkerTypeOK
<1>8. CASE ~attached[h]
  <2>1. UNCHANGED <<queueVars, dismissed>> BY <1>8
  <2>2. h \notin Busy BY <1>8 DEF Busy
  <2>3. \A r \in Requests : Delivering(r) => Delivering(r)'
    BY <1>2, <2>2 DEF Delivering, Busy
  <2>4. \A r \in Requests : \A i \in written'[r] :
           i \in unsure'[r]
              \/ (i = attempts'[r] /\ (state'[r] = "completed" \/ Delivering(r)'))
    BY <1>3, <1>6, <1>7, <2>1, <2>3 DEF CopyInv, queueVars
  <2>5. \A g \in Handlers : at'[g] # "idle" /\ ~attached'[g] => try'[g] \in unsure'[job'[g]]
    BY <1>2, <1>3, <1>6 DEF CopyInv, HandlerInv
  <2>6. \A g \in Handlers : at'[g] \in {"stat", "return"} => written'[job'[g]] # {}
    BY <1>2, <1>6 DEF CopyInv, HandlerInv
  <2>7. DoneMeansDelivered' BY <1>6, <2>1 DEF CopyInv, DoneMeansDelivered, queueVars
  <2> QED BY <2>4, <2>5, <2>6, <2>7 DEF CopyInv
<1>9. CASE attached[h]
  <2>1. h \in Busy /\ state[q] = "active" /\ try[h] = attempts[q]
    BY <1>9 DEF Busy, OneOwner
  <2>2. \A g \in Busy : job[g] = q => g = h BY <2>1 DEF OneOwner
  <2>3. \A i \in written'[q] :
           i \in unsure'[q] \/ (i = attempts'[q] /\ state'[q] = "completed")
    <3>1. CASE at[h] \in {"app", "target", "execute"}
      <4>1. ~Delivering(q) BY <2>2, <3>1 DEF Delivering
      <4>2. \A i \in written[q] : i \in unsure[q] BY <1>1, <2>1, <4>1 DEF CopyInv
      <4> QED BY <1>6, <1>7, <4>2
    <3>2. CASE at[h] = "return" /\ Ack(q) /\ UNCHANGED <<written, unsure, dismissed>>
      <4>1. state'[q] = "completed" BY <1>1, <3>2 DEF Ack, QueueTypeOK
      <4>2. \A i \in written[q] : i \in unsure[q] \/ i = attempts[q] BY <1>1 DEF CopyInv
      <4> QED BY <1>5, <3>2, <4>1, <4>2
    <3>3. CASE at[h] = "return" /\ Doubt(h) /\ UNCHANGED <<queueVars, written, dismissed>>
      <4>1. try[h] \in unsure'[q] BY <1>1, <3>3 DEF Doubt, WorkerTypeOK
      <4>2. \A i \in written[q] : i \in unsure[q] \/ i = attempts[q] BY <1>1 DEF CopyInv
      <4> QED BY <1>6, <2>1, <3>3, <4>1, <4>2
    <3> QED BY <1>9, <3>1, <3>2, <3>3
  <2>4. \A r \in Requests : \A i \in written'[r] :
           i \in unsure'[r]
              \/ (i = attempts'[r] /\ (state'[r] = "completed" \/ Delivering(r)'))
    BY <1>3, <1>4, <2>3 DEF CopyInv
  <2>5. \A g \in Handlers : at'[g] # "idle" /\ ~attached'[g] => try'[g] \in unsure'[job'[g]]
    BY <1>2, <1>3, <1>6 DEF CopyInv, HandlerInv
  <2>6. \A g \in Handlers : at'[g] \in {"stat", "return"} => written'[job'[g]] # {}
    BY <1>2, <1>6 DEF CopyInv, HandlerInv
  <2>7. state'[q] = "completed" => written'[q] # {} \/ q \in dismissed'
    <3>1. CASE at[h] = "return"
      BY <1>1, <1>6, <3>1 DEF CopyInv
    <3>2. CASE Nack(q) BY <1>1, <3>2 DEF Nack, QueueTypeOK
    <3>3. CASE dismissed' = dismissed \cup {q} BY <3>3
    <3> QED BY <1>9, <3>1, <3>2, <3>3
  <2>8. DoneMeansDelivered'
    <3>1. dismissed \subseteq dismissed' BY <1>9
    <3> QED BY <1>3, <2>7, <3>1 DEF CopyInv, DoneMeansDelivered
  <2> QED BY <2>4, <2>5, <2>6, <2>8 DEF CopyInv
<1> QED BY <1>8, <1>9 DEF WorkerTypeOK

LEMMA CopyHandler ==
    ASSUME Base, OneOwner, CopyInv, NEW h \in Handlers, HandlerStep(h)
    PROVE  CopyInv'
<1>1. HandleMessage(h) BY DEF HandlerStep
<1>2. at[h] # "idle" BY <1>1, HandlerForms
<1>3. CASE /\ at[h] \in {"app", "target"}
           /\ \E c \in {"target", "execute"} : at' = [at EXCEPT ![h] = c]
           /\ UNCHANGED <<queueVars, outcomeVars, job, attached, try>>
  BY <1>3, CopyAdvance DEF outcomeVars, Calls
<1>4. CASE /\ at[h] = "execute"
           /\ \E c \in {"stat", "return"} : at' = [at EXCEPT ![h] = c]
           /\ Wrote(h)
           /\ UNCHANGED <<queueVars, job, attached, try, unsure, dismissed>>
  BY <1>4, CopyAdvance DEF Calls
<1>5. CASE /\ at[h] = "stat"
           /\ at' = [at EXCEPT ![h] = "return"]
           /\ UNCHANGED <<queueVars, outcomeVars, job, attached, try>>
  BY <1>5, CopyAdvance DEF outcomeVars, Calls
<1>6. CASE /\ at[h] \in {"app", "target", "execute"}
           /\ Fail(h)
           /\ UNCHANGED outcomeVars
  BY <1>2, <1>6, CopyEnd DEF Fail, outcomeVars
<1>7. CASE /\ at[h] = "execute"
           /\ Fail(h) /\ Wrote(h) /\ Doubt(h)
           /\ UNCHANGED dismissed
  BY <1>2, <1>7, CopyEnd DEF Fail
<1>8. CASE at[h] \in {"app", "target"} /\ Disregard(h)
  BY <1>2, <1>8, CopyEnd DEF Disregard
<1>9. CASE /\ at[h] = "return"
           /\ End(h)
           /\ IF attached[h] THEN Ack(job[h]) ELSE UNCHANGED queueVars
           /\ UNCHANGED outcomeVars
  BY <1>2, <1>9, CopyEnd DEF outcomeVars
<1>10. CASE /\ at[h] = "return"
            /\ attached[h] /\ End(h) /\ Doubt(h)
            /\ UNCHANGED <<queueVars, written, dismissed>>
  BY <1>2, <1>10, CopyEnd
<1> QED BY <1>1, <1>3, <1>4, <1>5, <1>6, <1>7, <1>8, <1>9, <1>10, HandlerMoves

LEMMA CopyDequeue ==
    ASSUME Base, OneOwner, CopyInv, NEW r \in Requests, DequeueStep(r)
    PROVE  CopyInv'
<1> USE DEF Base, TypeOK
<1>1. PICK h \in Handlers : Dequeue(h, r) BY DEF DequeueStep
<1>2. Take(r) /\ Begin(h, r) /\ at[h] = "idle" /\ UNCHANGED outcomeVars
  BY <1>1 DEF Dequeue
<1>3. \A g \in Handlers : g # h => /\ at'[g] = at[g] /\ job'[g] = job[g]
                                   /\ try'[g] = try[g] /\ attached'[g] = attached[g]
  BY <1>2 DEF Begin, WorkerTypeOK
<1>4. at'[h] = "app" /\ attached'[h] BY <1>2 DEF Begin, WorkerTypeOK
<1>5. ~Delivering(r) BY <1>2 DEF Delivering, OneOwner, Take
<1>6. \A q \in Requests : Delivering(q) => Delivering(q)'
  BY <1>2, <1>3 DEF Delivering, Busy
<1>7. \A q \in Requests \ {r} : state'[q] = state[q] /\ attempts'[q] = attempts[q]
  BY <1>2 DEF Take, QueueTypeOK
<1>8. state[r] = "pending" /\ state'[r] = "active" BY <1>2 DEF Take, QueueTypeOK
<1>9. \A q \in Requests : \A i \in written'[q] :
         i \in unsure'[q]
            \/ (i = attempts'[q] /\ (state'[q] = "completed" \/ Delivering(q)'))
  BY <1>2, <1>5, <1>6, <1>7, <1>8 DEF CopyInv, outcomeVars
<1>10. \A g \in Handlers : at'[g] # "idle" /\ ~attached'[g] => try'[g] \in unsure'[job'[g]]
  BY <1>2, <1>3, <1>4 DEF CopyInv, outcomeVars
<1>11. \A g \in Handlers : at'[g] \in {"stat", "return"} => written'[job'[g]] # {}
  BY <1>2, <1>3, <1>4 DEF CopyInv, outcomeVars
<1>12. DoneMeansDelivered'
  BY <1>2, <1>7, <1>8 DEF CopyInv, DoneMeansDelivered, outcomeVars
<1> QED BY <1>9, <1>10, <1>11, <1>12 DEF CopyInv

LEMMA CopyRecover ==
    ASSUME Base, CopyInv, NEW r \in Requests, RecoverStep(r)
    PROVE  CopyInv'
<1> USE DEF Base, TypeOK
<1>1. Nack(r) /\ UNCHANGED workerVars /\ ~Holds(r) /\ state[r] = "active"
  BY DEF RecoverStep, Recover
<1>2. UNCHANGED <<Busy, job, at, attached, try, written, unsure, dismissed>>
  BY <1>1 DEF Busy, workerVars, handlerVars, outcomeVars
<1>3. \A q \in Requests : Delivering(q)' <=> Delivering(q) BY <1>2 DEF Delivering
<1>4. ~Delivering(r) BY <1>1 DEF Delivering, Holds
<1>5. \A q \in Requests \ {r} : state'[q] = state[q] BY <1>1 DEF Nack, QueueTypeOK
<1>6. attempts' = attempts /\ state'[r] # "completed"
  BY <1>1 DEF Nack, QueueTypeOK
<1> QED BY <1>1, <1>2, <1>3, <1>4, <1>5, <1>6 DEF CopyInv, DoneMeansDelivered

LEMMA CopyDetach ==
    ASSUME Base, OneOwner, CopyInv, NEW h \in Handlers, Detach(h)
    PROVE  CopyInv'
<1> USE DEF Base, TypeOK
<1> DEFINE q == job[h]
<1>1. /\ h \in Busy /\ q \in Requests /\ try[h] \in Nat /\ try[h] = attempts[q]
      /\ state[q] = "active"
  BY DEF Detach, Busy, HandlerInv, WorkerTypeOK, OneOwner
<1>2. /\ Busy' = Busy \ {h} /\ Busy \subseteq Handlers
      /\ UNCHANGED <<at, job, try, written, dismissed>>
      /\ \A g \in Handlers : g # h => attached'[g] = attached[g]
  BY DEF Detach, Busy, WorkerTypeOK
<1>3. \A r \in Requests : unsure[r] \subseteq unsure'[r]
  BY <1>1 DEF Detach, Doubt, WorkerTypeOK
<1>4. try[h] \in unsure'[q] BY <1>1 DEF Detach, Doubt, WorkerTypeOK
<1>5. attempts' = attempts /\ \A r \in Requests \ {q} : state'[r] = state[r]
  BY <1>1 DEF Detach, Nack, Requeue, queueVars, QueueTypeOK
<1>6. \A r \in Requests \ {q} : Delivering(r) => Delivering(r)'
  BY <1>2 DEF Delivering
<1>7. state'[q] # "completed"
  BY <1>1 DEF Detach, Nack, Requeue, queueVars, QueueTypeOK
<1>8. \A r \in Requests : \A i \in written'[r] :
         i \in unsure'[r]
            \/ (i = attempts'[r] /\ (state'[r] = "completed" \/ Delivering(r)'))
  BY <1>1, <1>2, <1>3, <1>4, <1>5, <1>6 DEF CopyInv
<1>9. \A g \in Handlers : at'[g] # "idle" /\ ~attached'[g] => try'[g] \in unsure'[job'[g]]
  BY <1>2, <1>3, <1>4 DEF CopyInv, HandlerInv
<1>10. \A g \in Handlers : at'[g] \in {"stat", "return"} => written'[job'[g]] # {}
  BY <1>2 DEF CopyInv
<1>11. DoneMeansDelivered' BY <1>2, <1>5, <1>7 DEF CopyInv, DoneMeansDelivered
<1> QED BY <1>8, <1>9, <1>10, <1>11 DEF CopyInv

LEMMA CopyGone ==
    ASSUME Base, OneOwner, CopyInv, Exit \/ CrashWorker
    PROVE  CopyInv'
<1> USE DEF Base, TypeOK
<1>1. AllGone /\ UNCHANGED <<queueVars, written, dismissed>>
  BY DEF Exit, CrashWorker, outcomeVars
<1>2. \A g \in Handlers : at'[g] = "idle" BY <1>1 DEF AllGone
<1>3. \A r \in Requests : unsure[r] \subseteq unsure'[r]
  BY DEF Exit, CrashWorker, outcomeVars
<1>4. \A r \in Requests : Delivering(r) => attempts[r] \in unsure'[r]
  <2>1. CASE Exit BY <2>1 DEF Exit, Delivering
  <2>2. CASE CrashWorker BY <2>2 DEF CrashWorker, Delivering, OneOwner
  <2> QED BY <2>1, <2>2
<1>5. \A r \in Requests : \A i \in written'[r] :
         i \in unsure'[r]
            \/ (i = attempts'[r] /\ (state'[r] = "completed" \/ Delivering(r)'))
  BY <1>1, <1>3, <1>4 DEF CopyInv, queueVars
<1>6. DoneMeansDelivered' BY <1>1 DEF CopyInv, DoneMeansDelivered, queueVars
<1> QED BY <1>2, <1>5, <1>6 DEF CopyInv

LEMMA CopyNext ==
    ASSUME Base, OneOwner, CopyInv, [Next]_vars
    PROVE  CopyInv'
<1>1. CASE UNCHANGED <<queueVars, handlerVars, outcomeVars>>
  BY <1>1 DEF CopyInv, Delivering, Busy, DoneMeansDelivered, queueVars, handlerVars, outcomeVars
<1>2. CASE ApiStep /\ UNCHANGED workerVars BY <1>2, CopyApi
<1>3. CASE \E h \in Handlers : HandlerStep(h) BY <1>3, CopyHandler
<1>4. CASE \E r \in Requests : DequeueStep(r) \/ RecoverStep(r)
  BY <1>4, CopyDequeue, CopyRecover
<1>5. CASE \E h \in Handlers : Detach(h) BY <1>5, CopyDetach
<1>6. CASE Exit \/ CrashWorker BY <1>6, CopyGone
<1> QED BY <1>1, <1>2, <1>3, <1>4, <1>5, <1>6
        DEF Next, vars, workerVars, StartStep, Start, ExitStep, OutageStep, Stop

LEMMA CopyAlways == Spec => []CopyInv
<1>1. Base /\ OneOwner /\ CopyInv /\ [Next]_vars => CopyInv' BY CopyNext
<1> QED BY <1>1, CopyInit, BaseAlways, OwnedOnce, PTL DEF Spec

\* For any MaxRetry, handlers and outages: a task asynq counts as done was
\* delivered by some attempt, or its application or target was disabled.
THEOREM NoSilentLoss == Spec => []DoneMeansDelivered
<1>1. CopyInv => DoneMeansDelivered BY DEF CopyInv
<1> QED BY <1>1, CopyAlways, PTL

\* For any MaxRetry, handlers and outages: an attempt that delivered is followed
\* by another one only if its outcome was lost.
THEOREM NoNeedlessDuplicates == Spec => []DuplicatesExcused
<1>1. CopyInv => DuplicatesExcused BY DEF CopyInv, DuplicatesExcused
<1> QED BY <1>1, CopyAlways, PTL

-----------------------------------------------------------------------------
(* A message goes out only while its rows are enabled.                       *)

\* What the lookups of an attempt have established, in terms of the request.
LitInv ==
    \A h \in Handlers :
        /\ at[h] \in {"target", "execute"} =>
              ViaSubmit(job[h]) \/ Token(job[h]) \in litApps[h]
        /\ at[h] = "execute" =>
              ViaSubmit(job[h]) \/ dest[h] \in litTargets[h]

LEMMA LitInit == Init => LitInv
BY DEF Init, WorkerInit, AllIdle, LitInv

LEMMA PayloadSays ==
    ASSUME NEW r \in Requests
    PROVE  Payload(r).via = ViaSubmit(r) /\ Payload(r).token = Token(r)
BY DEF Payload, SetViaSubmit, ClearInternal, Bound, Token

\* A handler that does not move loses nothing of what it knows.
LEMMA LitKeeps ==
    ASSUME Illuminate, NEW h \in Handlers, input' = input,
           at'[h] = at[h], job'[h] = job[h], dest'[h] = dest[h],
           /\ at[h] \in {"target", "execute"} =>
                 ViaSubmit(job[h]) \/ Token(job[h]) \in litApps[h]
           /\ at[h] = "execute" =>
                 ViaSubmit(job[h]) \/ dest[h] \in litTargets[h]
    PROVE  /\ at'[h] \in {"target", "execute"} =>
                 ViaSubmit(job[h])' \/ Token(job[h])' \in litApps'[h]
           /\ at'[h] = "execute" =>
                 ViaSubmit(job[h])' \/ dest'[h] \in litTargets'[h]
BY DEF Illuminate, ViaSubmit, Token

LEMMA LitApplication ==
    ASSUME Base, NEW h \in Handlers, Illuminate, UNCHANGED apiVars,
           WorkerGetApplication(h)
    PROVE  at'[h] \in {"target", "execute"} =>
              /\ at'[h] = "target"
              /\ job' = job
              /\ ViaSubmit(job[h])' \/ Token(job[h])' \in litApps'[h]
<1> USE DEF Base, TypeOK
<1> DEFINE m == payload[job[h]]
<1>1. at[h] = "app" /\ job[h] \in Requests /\ state[job[h]] # "none"
  BY DEF WorkerGetApplication, HandlerInv
<1>2. m.via = ViaSubmit(job[h]) /\ m.token = Token(job[h]) /\ Token(job[h]) \in Apps
  BY <1>1, PayloadSays, PayloadType DEF TaskInv
<1>3. CASE End(h) BY <1>3 DEF End, WorkerTypeOK
<1>4. CASE /\ \E ok \in Outcomes : Read(ok)
           /\ GetApplication(m.user, m.token)
           /\ m.via \/ app[m.token].enable
           /\ at' = [at EXCEPT ![h] = "target"]
           /\ job' = job
  <2>1. app' = app BY <1>4 DEF Read
  <2>2. ~m.via => m.token \in EnabledApps'
    BY <1>2, <1>4, <2>1
    DEF EnabledApps, GetApplication, DatabaseGetApplication, ConfigGetApplication
  <2>3. at'[h] = "target" BY <1>4 DEF WorkerTypeOK
  <2> QED BY <1>2, <1>4, <2>2, <2>3 DEF Illuminate, ViaSubmit, Token, apiVars
<1> QED BY <1>3, <1>4 DEF WorkerGetApplication, Fail, Disregard

LEMMA LitTarget ==
    ASSUME Base, LitInv, NEW h \in Handlers, Illuminate, UNCHANGED apiVars,
           WorkerGetTarget(h)
    PROVE  at'[h] \in {"target", "execute"} =>
              /\ job' = job
              /\ ViaSubmit(job[h])' \/ Token(job[h])' \in litApps'[h]
              /\ ViaSubmit(job[h])' \/ dest'[h] \in litTargets'[h]
<1> USE DEF Base, TypeOK
<1>1. /\ at[h] = "target" /\ job[h] \in Requests /\ state[job[h]] # "none"
      /\ dest[h] \in Targets
  BY DEF WorkerGetTarget, HandlerInv
<1>2. IsViaSubmit(h) = ViaSubmit(job[h])
  BY <1>1, PayloadSays DEF TaskInv, IsViaSubmit
<1>3. CASE End(h) BY <1>3 DEF End, WorkerTypeOK
<1>4. CASE /\ \E ok \in Outcomes : Read(ok)
           /\ GetTargetByID(dest[h])
           /\ IsViaSubmit(h) \/ target[dest[h]].enable
           /\ GoOn(h, "execute")
  <2>1. target' = target /\ dest' = dest BY <1>4 DEF Read, GoOn
  <2>2. ~IsViaSubmit(h) => dest[h] \in EnabledTargets'
    BY <1>1, <1>4, <2>1 DEF EnabledTargets, GetTargetByID
  <2>3. at'[h] = "execute" /\ job' = job BY <1>4 DEF GoOn, WorkerTypeOK
  <2>4. litApps[h] \subseteq litApps'[h] /\ EnabledTargets' \subseteq litTargets'[h]
    BY <2>3 DEF Illuminate
  <2> QED BY <1>1, <1>2, <2>1, <2>2, <2>3, <2>4 DEF LitInv, ViaSubmit, Token, apiVars
<1> QED BY <1>3, <1>4 DEF WorkerGetTarget, Fail, Disregard

LEMMA LitHandler ==
    ASSUME Base, LitInv, NEW h \in Handlers, HandlerStep(h)
    PROVE  LitInv'
<1> USE DEF Base, TypeOK
<1>1. HandleMessage(h) /\ Illuminate /\ UNCHANGED apiVars /\ input' = input
  BY DEF HandlerStep, apiVars
<1>2. \A g \in Handlers : g # h => at'[g] = at[g] /\ job'[g] = job[g] /\ dest'[g] = dest[g]
  <2>1. Advances(h) \/ Ends(h) BY <1>1, HandlerForms
  <2> QED BY <2>1 DEF Advances, Ends, End, WorkerTypeOK
<1>3. ASSUME NEW g \in Handlers, g # h
      PROVE  /\ at'[g] \in {"target", "execute"} =>
                   ViaSubmit(job[g])' \/ Token(job[g])' \in litApps'[g]
             /\ at'[g] = "execute" =>
                   ViaSubmit(job[g])' \/ dest'[g] \in litTargets'[g]
  BY <1>1, <1>2, <1>3, LitKeeps DEF LitInv
<1>4. /\ at'[h] \in {"target", "execute"} =>
            ViaSubmit(job[h])' \/ Token(job[h])' \in litApps'[h]
      /\ at'[h] = "execute" =>
            ViaSubmit(job[h])' \/ dest'[h] \in litTargets'[h]
  <2>1. CASE WorkerGetApplication(h) BY <1>1, <2>1, LitApplication
  <2>2. CASE WorkerGetTarget(h) BY <1>1, <2>2, LitTarget
  <2>3. CASE Execute(h) \/ IncrementSent(h) \/ Return(h)
    BY <2>3 DEF Execute, IncrementSent, Return, Fail, GoOn, End, WorkerTypeOK
  <2> QED BY <1>1, <2>1, <2>2, <2>3 DEF HandleMessage
<1> QED BY <1>3, <1>4 DEF LitInv

LEMMA LitNext ==
    ASSUME Base, LitInv, [Next]_vars
    PROVE  LitInv'
<1> USE DEF Base, TypeOK
<1>1. input' = input
  BY DEF Next, vars, apiVars, HandlerStep, DequeueStep, RecoverStep, StartStep, ExitStep,
         OutageStep, ApiStep, Handle, Receive, ApiGetUser, ApiGetApplication, SaveInput,
         Enqueue, IncrementProcessed, CrashApi, Goto, Answer
<1>2. CASE UNCHANGED vars
  BY <1>2 DEF vars, workerVars, handlerVars, apiVars, litVars, LitInv, ViaSubmit, Token
<1>3. CASE Illuminate /\ UNCHANGED <<at, job, dest>>
  BY <1>1, <1>3, LitKeeps DEF LitInv
<1>4. CASE AllGone BY <1>4 DEF AllGone, LitInv
<1>5. CASE \E h \in Handlers : HandlerStep(h) BY <1>5, LitHandler
<1>6. CASE \E r \in Requests : DequeueStep(r)
  <2>1. PICK r \in Requests, h \in Handlers : Dequeue(h, r) /\ Illuminate
    BY <1>6 DEF DequeueStep
  <2>2. at'[h] = "app" BY <2>1 DEF Dequeue, Begin, WorkerTypeOK
  <2>3. \A g \in Handlers : g # h => at'[g] = at[g] /\ job'[g] = job[g] /\ dest'[g] = dest[g]
    BY <2>1 DEF Dequeue, Begin, WorkerTypeOK
  <2> QED BY <1>1, <2>1, <2>2, <2>3, LitKeeps DEF LitInv
<1> QED BY <1>2, <1>3, <1>4, <1>5, <1>6
        DEF Next, workerVars, handlerVars, RecoverStep, Recover, StartStep, Start,
            ExitStep, Exit, OutageStep, Stop, CrashWorker, Detach

LEMMA LitAlways == Spec => []LitInv
<1>1. Base /\ LitInv /\ [Next]_vars => LitInv' BY LitNext
<1> QED BY <1>1, LitInit, BaseAlways, PTL DEF Spec

\* For any rows and edits of them: a message that did not come in on the submit
\* route reaches a target only if its application and that target were enabled
\* at some moment of the attempt.
THEOREM EnabledWhenWritten == Spec => WritesOnlyWhileEnabled
<1>1. LitInv => \A h \in Handlers :
                   at[h] = "execute" /\ try[h] \in written'[job[h]] \ written[job[h]]
                      => \/ ViaSubmit(job[h])
                         \/ Token(job[h]) \in litApps[h] /\ dest[h] \in litTargets[h]
  BY DEF LitInv
<1> QED BY <1>1, LitAlways, PTL DEF WritesOnlyWhileEnabled

-----------------------------------------------------------------------------
(* The queue and the targets implement the promise of module Delivery.       *)

\* Only a completed task was dismissed.
DismissedInv == \A r \in dismissed : state[r] = "completed"

LEMMA DismissedNext ==
    ASSUME Base, OneOwner, DismissedInv, [Next]_vars
    PROVE  DismissedInv'
<1> USE DEF Base, TypeOK
<1>1. \A r \in Requests : state[r] = "completed" => state'[r] = "completed"
  BY QueueMoves DEF queueVars, Put, Take, Ack, Nack, Requeue, QueueTypeOK
<1>2. CASE dismissed' = dismissed
  BY <1>1, <1>2 DEF DismissedInv, WorkerTypeOK
<1>3. CASE \E h \in Handlers : HandlerStep(h) /\ dismissed' # dismissed
  <2>1. PICK h \in Handlers : HandleMessage(h) /\ dismissed' # dismissed
    BY <1>3 DEF HandlerStep
  <2>2. Ack(job[h]) /\ dismissed' = dismissed \cup {job[h]} /\ at[h] # "idle"
    BY <2>1, HandlerMoves DEF Disregard, Fail, outcomeVars
  <2>3. job[h] \in Requests BY <2>2 DEF HandlerInv
  <2> QED BY <1>1, <2>2, <2>3 DEF DismissedInv, Ack, QueueTypeOK, WorkerTypeOK
<1> QED BY <1>2, <1>3
        DEF Next, vars, workerVars, outcomeVars, DequeueStep, Dequeue, RecoverStep,
            Recover, StartStep, Start, ExitStep, Exit, OutageStep, Stop, CrashWorker, Detach

LEMMA DismissedAlways == Spec => []DismissedInv
<1>1. Init => DismissedInv BY DEF Init, WorkerInit, DismissedInv
<1>2. Base /\ OneOwner /\ DismissedInv /\ [Next]_vars => DismissedInv'
  BY DismissedNext
<1> QED BY <1>1, <1>2, BaseAlways, OwnedOnce, PTL DEF Spec

CopiedTo == {r \in Requests : written[r] # {}}
Fates == [r \in Requests |-> Fate(r)]

\* The fate of a task, case by case.
FateTable ==
    \A r \in Requests :
        /\ state[r] = "none" => Fates[r] = "unknown"
        /\ state[r] # "none" => Fates[r] # "unknown"
        /\ state[r] \in {"pending", "active"} => Fates[r] = "promised"
        /\ state[r] = "archived" => Fates[r] = "givenup"
        /\ state[r] = "completed" /\ r \in dismissed => Fates[r] = "dismissed"
        /\ state[r] = "completed" /\ r \notin dismissed => Fates[r] = "kept"

LEMMA FateHolds == QueueTypeOK => FateTable
<1> SUFFICES ASSUME QueueTypeOK, NEW r \in Requests
             PROVE  /\ state[r] = "none" => Fate(r) = "unknown"
                    /\ state[r] # "none" => Fate(r) # "unknown"
                    /\ state[r] \in {"pending", "active"} => Fate(r) = "promised"
                    /\ state[r] = "archived" => Fate(r) = "givenup"
                    /\ state[r] = "completed" /\ r \in dismissed => Fate(r) = "dismissed"
                    /\ state[r] = "completed" /\ r \notin dismissed => Fate(r) = "kept"
  BY DEF FateTable, Fates
<1>1. state[r] \in States BY DEF QueueTypeOK
<1> QED BY <1>1 DEF Fate, States

LEMMA FateHoldsNext == QueueTypeOK' => FateTable'
BY FateHolds, PTL

\* A step that changes one task changes one fate.
LEMMA OneFate ==
    ASSUME NEW r \in Requests,
           \A q \in Requests \ {r} :
               state'[q] = state[q] /\ (q \in dismissed' <=> q \in dismissed)
    PROVE  Fates' = [Fates EXCEPT ![r] = Fates'[r]]
<1>1. \A q \in Requests \ {r} : Fate(q)' = Fate(q) BY DEF Fate
<1>2. \A q \in Requests \ {r} : Fates'[q] = Fates[q] BY <1>1 DEF Fates
<1> QED BY <1>2 DEF Fates

\* Every step is one of the abstract steps, or changes nothing it can see.
LEMMA AbstractStep ==
    ASSUME Base, Base', OneOwner, CopyInv, DismissedInv, DismissedInv', [Next]_vars
    PROVE  [Abstract!Next]_(Abstract!vars)
<1> SUFFICES \/ UNCHANGED <<Fates, CopiedTo>>
             \/ \E r \in Requests :
                  \/ Abstract!Promise(r)
                  \/ Abstract!Copy(r)
                  \/ Abstract!Settle(r)
  BY DEF Abstract!Next, Abstract!vars, Fates, CopiedTo
<1> USE DEF Base, TypeOK
<1>1. FateTable /\ FateTable' BY FateHolds, FateHoldsNext
<1>2. ASSUME UNCHANGED <<queueVars, written, dismissed>>
      PROVE  UNCHANGED <<Fates, CopiedTo>>
  BY <1>2 DEF Fates, Fate, CopiedTo, queueVars
<1>3. CASE /\ UNCHANGED <<written, dismissed>>
           /\ \E r \in Requests : state[r] = "none" /\ Put(r, Payload(r))
  <2>1. PICK r \in Requests : state[r] = "none" /\ Put(r, Payload(r)) BY <1>3
  <2>2. state'[r] = "pending" /\ \A q \in Requests \ {r} : state'[q] = state[q]
    BY <2>1 DEF Put, QueueTypeOK
  <2>3. Fates' = [Fates EXCEPT ![r] = Fates'[r]] BY <1>3, <2>2, OneFate
  <2>4. Fates[r] = "unknown" /\ Fates'[r] = "promised"
    BY <1>1, <2>1, <2>2 DEF FateTable
  <2>5. CopiedTo' = CopiedTo BY <1>3 DEF CopiedTo
  <2>6. Abstract!Promise(r) BY <2>3, <2>4, <2>5 DEF Abstract!Promise, Fates, CopiedTo
  <2> QED BY <2>6
<1>4. ASSUME UNCHANGED <<written, dismissed>>, NEW r \in Requests,
             \/ Take(r)
             \/ state[r] = "active" /\ (Nack(r) \/ Requeue(r))
      PROVE  UNCHANGED <<Fates, CopiedTo>> \/ Abstract!Settle(r)
  <2>1. CopiedTo' = CopiedTo BY <1>4 DEF CopiedTo
  <2>2. /\ state[r] \in {"pending", "active"}
        /\ state'[r] \in {"pending", "active", "archived"}
        /\ \A q \in Requests \ {r} : state'[q] = state[q]
    BY <1>4 DEF Take, Nack, Requeue, QueueTypeOK
  <2>3. Fates' = [Fates EXCEPT ![r] = Fates'[r]] BY <1>4, <2>2, OneFate
  <2>4. Fates[r] = "promised" BY <1>1, <2>2 DEF FateTable
  <2>5. CASE state'[r] = "archived"
    <3>1. Fates'[r] = "givenup" BY <1>1, <2>5 DEF FateTable
    <3>2. Abstract!GiveUp(r)
      BY <2>1, <2>3, <2>4, <3>1 DEF Abstract!GiveUp, Fates, CopiedTo
    <3> QED BY <3>2 DEF Abstract!Settle
  <2>6. CASE state'[r] \in {"pending", "active"}
    <3>1. Fates'[r] = "promised" BY <1>1, <2>6 DEF FateTable
    <3>2. Fates' = Fates BY <2>3, <2>4, <3>1 DEF Fates
    <3> QED BY <2>1, <3>2
  <2> QED BY <2>2, <2>5, <2>6
<1>5. ASSUME NEW h \in Handlers, HandlerStep(h)
      PROVE  \/ UNCHANGED <<Fates, CopiedTo>>
             \/ \E r \in Requests : Abstract!Copy(r) \/ Abstract!Settle(r)
  <2>1. HandleMessage(h) BY <1>5 DEF HandlerStep
  <2>2. at[h] # "idle" /\ job[h] \in Requests /\ state[job[h]] # "none"
    BY <2>1, HandlerForms DEF HandlerInv
  <2>3. PICK r \in Requests : r = job[h] /\ state[r] # "none" BY <2>2
  <2>4. attached[h] => state[r] = "active" BY <2>3 DEF OneOwner, Busy
  <2>5. Wrote(h) => CopiedTo' = CopiedTo \cup {r}
    BY <2>3 DEF CopiedTo, Wrote, WorkerTypeOK
  <2>6. CASE Wrote(h) /\ UNCHANGED <<queueVars, dismissed>>
    <3>1. Fates' = Fates BY <2>6 DEF Fates, Fate, queueVars
    <3>2. Fates[r] # "unknown" BY <1>1, <2>3 DEF FateTable
    <3>3. Abstract!Copy(r) BY <2>5, <2>6, <3>1, <3>2 DEF Abstract!Copy, Fates, CopiedTo
    <3> QED BY <2>3, <3>3
  <2>7. CASE Wrote(h) /\ UNCHANGED dismissed /\ attached[h] /\ Nack(r)
    <3>1. /\ state'[r] \in {"pending", "archived"}
          /\ \A q \in Requests \ {r} : state'[q] = state[q]
      BY <2>3, <2>7 DEF Nack, QueueTypeOK
    <3>2. Fates' = [Fates EXCEPT ![r] = Fates'[r]] BY <2>3, <2>7, <3>1, OneFate
    <3>3. Fates[r] = "promised" BY <1>1, <2>3, <2>4, <2>7 DEF FateTable
    <3>4. CASE state'[r] = "pending"
      <4>1. Fates'[r] = "promised" BY <1>1, <2>3, <3>4 DEF FateTable
      <4>2. Fates' = Fates BY <3>2, <3>3, <4>1 DEF Fates
      <4>3. Abstract!Copy(r)
        BY <2>5, <2>7, <3>3, <4>2 DEF Abstract!Copy, Fates, CopiedTo
      <4> QED BY <2>3, <4>3
    <3>5. CASE state'[r] = "archived"
      <4>1. Fates'[r] = "givenup" BY <1>1, <2>3, <3>5 DEF FateTable
      <4>2. Abstract!GiveUp(r)
        BY <2>5, <2>7, <3>2, <3>3, <4>1 DEF Abstract!GiveUp, Fates, CopiedTo
      <4> QED BY <2>3, <4>2 DEF Abstract!Settle
    <3> QED BY <3>1, <3>4, <3>5
  <2>8. ASSUME attached[h], Ack(r), written' = written,
               NEW s \in {"kept", "dismissed"}, Fates'[r] = s,
               \A q \in Requests \ {r} : q \in dismissed' <=> q \in dismissed
        PROVE  /\ Fates[r] = "promised" /\ Fates' = [Fates EXCEPT ![r] = s]
               /\ CopiedTo' = CopiedTo
    <3>1. \A q \in Requests \ {r} : state'[q] = state[q]
      BY <2>3, <2>8 DEF Ack, QueueTypeOK
    <3>2. Fates' = [Fates EXCEPT ![r] = Fates'[r]] BY <2>3, <2>8, <3>1, OneFate
    <3>3. Fates[r] = "promised" BY <1>1, <2>3, <2>4, <2>8 DEF FateTable
    <3> QED BY <2>8, <3>2, <3>3 DEF CopiedTo
  <2>9. CASE Disregard(h) /\ attached[h]
    <3>1. /\ Ack(r) /\ dismissed' = dismissed \cup {r} /\ written' = written
          /\ state'[r] = "completed"
      BY <2>3, <2>9 DEF Disregard, Ack, QueueTypeOK
    <3>2. Fates'[r] = "dismissed" BY <1>1, <2>3, <3>1 DEF FateTable
    <3>3. /\ Fates[r] = "promised" /\ Fates' = [Fates EXCEPT ![r] = "dismissed"]
          /\ CopiedTo' = CopiedTo
      BY <2>8, <2>9, <3>1, <3>2
    <3>4. Abstract!Dismiss(r) BY <3>3 DEF Abstract!Dismiss, Fates, CopiedTo
    <3> QED BY <2>3, <3>4 DEF Abstract!Settle
  <2>10. CASE at[h] = "return" /\ attached[h] /\ Ack(r) /\ UNCHANGED outcomeVars
    <3>1. r \in CopiedTo BY <2>3, <2>10 DEF CopiedTo, CopyInv
    <3>2. state'[r] = "completed" /\ r \notin dismissed /\ dismissed' = dismissed
      BY <2>3, <2>4, <2>10 DEF DismissedInv, Ack, QueueTypeOK, outcomeVars
    <3>3. Fates'[r] = "kept" BY <1>1, <2>3, <3>2 DEF FateTable
    <3>4. /\ Fates[r] = "promised" /\ Fates' = [Fates EXCEPT ![r] = "kept"]
          /\ CopiedTo' = CopiedTo
      BY <2>8, <2>10, <3>2, <3>3 DEF outcomeVars
    <3>5. Abstract!Keep(r) BY <3>1, <3>4 DEF Abstract!Keep, Fates, CopiedTo
    <3> QED BY <2>3, <3>5 DEF Abstract!Settle
  <2>11. CASE attached[h] /\ Nack(r) /\ UNCHANGED <<written, dismissed>>
    BY <1>4, <2>3, <2>4, <2>11
  <2>12. attached[h] \in BOOLEAN BY DEF WorkerTypeOK
  <2>13. (Ack(job[h]) => Ack(r)) /\ (Nack(job[h]) => Nack(r))
    BY <2>3 DEF Ack, Nack
  <2>14. CASE UNCHANGED <<queueVars, outcomeVars>>
    BY <1>2, <2>14 DEF outcomeVars
  <2>15. CASE Fail(h) /\ UNCHANGED outcomeVars
    BY <2>11, <2>12, <2>13, <2>14, <2>15 DEF Fail, outcomeVars
  <2>16. CASE Fail(h) /\ Wrote(h) /\ UNCHANGED dismissed
    BY <2>6, <2>7, <2>12, <2>13, <2>16 DEF Fail
  <2>17. CASE Disregard(h)
    BY <1>2, <2>9, <2>12, <2>17 DEF Disregard
  <2>18. CASE /\ at[h] = "return"
              /\ IF attached[h] THEN Ack(job[h]) ELSE UNCHANGED queueVars
              /\ UNCHANGED outcomeVars
    BY <2>10, <2>12, <2>13, <2>14, <2>18
  <2>19. CASE UNCHANGED <<queueVars, written, dismissed>> BY <1>2, <2>19
  <2> QED BY <2>1, <2>6, <2>14, <2>15, <2>16, <2>17, <2>18, <2>19, HandlerMoves
<1>6. CASE ApiStep /\ UNCHANGED workerVars
  BY <1>2, <1>3, <1>6
  DEF ApiStep, Handle, Receive, ApiGetUser, ApiGetApplication, SaveInput, Enqueue,
      IncrementProcessed, CrashApi, ApiInv, workerVars, outcomeVars
<1>7. CASE \E r \in Requests : DequeueStep(r) \/ RecoverStep(r)
  BY <1>4, <1>7 DEF DequeueStep, Dequeue, RecoverStep, Recover, workerVars, outcomeVars
<1>8. CASE \E h \in Handlers : Detach(h)
  <2>1. PICK h \in Handlers : Detach(h) BY <1>8
  <2>2. job[h] \in Requests /\ state[job[h]] = "active"
    BY <2>1 DEF Detach, HandlerInv, OneOwner, Busy
  <2> QED BY <1>2, <1>4, <2>1, <2>2 DEF Detach
<1>9. CASE \E h \in Handlers : HandlerStep(h)
  <2>1. PICK h \in Handlers : HandlerStep(h) BY <1>9
  <2>2. job[h] \in Requests
    BY <2>1, HandlerForms DEF HandlerStep, HandlerInv
  <2> QED BY <1>5, <2>1, <2>2
<1> QED BY <1>2, <1>6, <1>7, <1>8, <1>9
        DEF Next, vars, workerVars, outcomeVars, StartStep, Start, ExitStep, Exit,
            OutageStep, Stop, CrashWorker

LEMMA AbstractInit == Init => Abstract!Init
BY DEF Init, QueueInit, WorkerInit, Abstract!Init, Fate

\* The system keeps the safety part of the promise: a fate is decided once, a
\* message is kept only if a copy went out, none goes out for what was never
\* accepted.
THEOREM ImplementsDelivery == Spec => PromisedSafely
<1>1. Base /\ Base' /\ OneOwner /\ CopyInv /\ DismissedInv /\ DismissedInv' /\ [Next]_vars
        => [Abstract!Next]_(Abstract!vars)
  BY AbstractStep
<1> QED BY <1>1, AbstractInit, BaseAlways, OwnedOnce, CopyAlways, DismissedAlways, PTL
        DEF Spec, PromisedSafely, Abstract!Safe

=============================================================================

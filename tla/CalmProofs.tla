----------------------------- MODULE CalmProofs -----------------------------
(***************************************************************************)
(* What an undisturbed system does for each request: it answers as the     *)
(* rows have it, and sends each message it accepts once or not at all.     *)
(***************************************************************************)
EXTENDS StatsProofs

\* What the handler has found out about a request when it comes to a call, and
\* what its answer says.
Fits(r) ==
    /\ pc[r] \in {"user", "app"} => Custom(r) \/ input[r].parses
    /\ pc[r] = "app" => app[Token(r)].live /\ Admits(r, userEnable[Owner[Token(r)]])
    /\ pc[r] \in {"save", "enqueue", "stat"} \/ state[r] # "none"
          => Admissible(r) /\ input[r].parses
    /\ reply[r] = 404 => ~Admissible(r)
    /\ reply[r] = 400 => ~input[r].parses
    /\ reply[r] # 500

FitInv == ~disturbed => \A r \in Requests : Fits(r)

\* A handler works on the target of its application; what went out could be
\* delivered, what was dismissed could not, and every outcome is known.
Aimed ==
    /\ \A h \in Handlers :
          /\ at[h] \in {"target", "execute"} => dest[h] = app[Token(job[h])].target
          /\ at[h] = "execute" => Deliverable(job[h])
    /\ \A r \in Requests :
          /\ written[r] # {} => Deliverable(r)
          /\ r \in dismissed => ~Deliverable(r)
          /\ unsure[r] = {}

AimInv == ~disturbed => Aimed

RowsRest == UNCHANGED <<userEnable, app, target>>

-----------------------------------------------------------------------------
(* The answers.                                                              *)

LEMMA FitStays ==
    ASSUME NEW r \in Requests, Fits(r), RowsRest, input' = input,
           pc'[r] = pc[r], reply'[r] = reply[r],
           state'[r] = "none" <=> state[r] = "none"
    PROVE  Fits(r)'
BY DEF Fits, RowsRest, Admissible, Admits, Token, ViaSubmit, Custom

\* An answer or the next call follows from what was found out before.
LEMMA FitRequest ==
    ASSUME Base, NEW r \in Requests, Fits(r), RowsRest, ~disturbed', Handle(r)
    PROVE  Fits(r)'
<1> USE DEF Base, TypeOK
<1>1. \A ok : Read(ok) => ok BY DEF Read, Noted
<1>2. input' = input BY RequestMoves
<1> DEFINE Found == Admissible(r) /\ input[r].parses
<1>3. /\ Admissible(r)' <=> Admissible(r)
      /\ Token(r)' = Token(r) /\ (Custom(r)' <=> Custom(r))
      /\ \A e : Admits(r, e)' <=> Admits(r, e')
  BY <1>2 DEF RowsRest, Admissible, Admits, Token, ViaSubmit, Custom
<1>4. CASE UNCHANGED queueVars /\ state[r] = "none" /\ reply[r] = 0 /\ ~Enqueue(r)
  <2>1. state'[r] = "none" BY <1>4 DEF queueVars
  <2>2. CASE Receive(r)
    <3>1. \/ pc'[r] = "user" /\ reply'[r] = 0 /\ (Custom(r) \/ input[r].parses)
          \/ pc'[r] = "done" /\ reply'[r] = 400 /\ ~input[r].parses
      BY <1>4, <2>2 DEF Receive, Goto, Answer, ApiTypeOK
    <3> QED BY <1>2, <1>3, <2>1, <3>1 DEF Fits
  <2>3. CASE ApiGetUser(r)
    <3>1. /\ pc[r] = "user"
          /\ \/ /\ app[Token(r)].live /\ Admits(r, userEnable[Owner[Token(r)]])
                /\ Goto(r, "app")
             \/ ~Admissible(r) /\ Answer(r, 404)
      BY <1>1, <2>3 DEF ApiGetUser, GetUserFromToken, Admissible, Admits
    <3>2. \/ /\ pc'[r] = "app" /\ reply'[r] = 0
             /\ app[Token(r)].live /\ Admits(r, userEnable[Owner[Token(r)]])
          \/ pc'[r] = "done" /\ reply'[r] = 404 /\ ~Admissible(r)
      BY <1>4, <3>1 DEF Goto, Answer, ApiTypeOK
    <3> QED BY <1>2, <1>3, <2>1, <3>1, <3>2 DEF Fits, RowsRest, Admits, ViaSubmit
  <2>4. CASE ApiGetApplication(r)
    <3>1. app[Token(r)].live => GetApplication(Owner[Token(r)], Token(r))
      BY DEF GetApplication, DatabaseGetApplication, ConfigGetApplication
    <3>2. /\ app[Token(r)].live /\ Admits(r, userEnable[Owner[Token(r)]])
          /\ Custom(r) \/ input[r].parses
      BY <2>4 DEF ApiGetApplication, Fits
    <3>3. \/ ~Admissible(r) /\ Answer(r, 404)
          \/ ~input[r].parses /\ Answer(r, 400)
          \/ Found /\ \E c \in {"save", "enqueue"} : Goto(r, c)
      BY <1>1, <2>4, <3>1, <3>2 DEF ApiGetApplication, Admissible, Admits
    <3>4. \/ pc'[r] = "done" /\ reply'[r] = 404 /\ ~Admissible(r)
          \/ pc'[r] = "done" /\ reply'[r] = 400 /\ ~input[r].parses
          \/ Found /\ pc'[r] \in {"save", "enqueue"} /\ reply'[r] = 0
      BY <1>4, <3>3 DEF Goto, Answer, ApiTypeOK
    <3> QED BY <1>2, <1>3, <2>1, <3>4 DEF Fits
  <2>5. CASE SaveInput(r)
    <3>1. pc[r] = "save" /\ pc'[r] = "enqueue" /\ reply'[r] = 0
      BY <1>4, <2>5 DEF SaveInput, Goto, ApiTypeOK
    <3> QED BY <1>2, <1>3, <2>1, <3>1 DEF Fits
  <2>6. ~IncrementProcessed(r) BY <1>4 DEF IncrementProcessed, ApiInv
  <2> QED BY <1>4, <2>2, <2>3, <2>4, <2>5, <2>6 DEF Handle
<1>5. CASE Enqueue(r) \/ IncrementProcessed(r)
  <2>1. /\ pc[r] \in {"enqueue", "stat"} /\ reply[r] = 0
    BY <1>5 DEF Enqueue, IncrementProcessed, ApiInv
  <2>2. Found BY <2>1 DEF Fits
  <2>3. Goto(r, "stat") \/ Answer(r, 200)
    BY <1>1, <1>5 DEF Enqueue, IncrementProcessed
  <2>4. pc'[r] \in {"stat", "done"} /\ reply'[r] \in {0, 200}
    BY <2>1, <2>3 DEF Goto, Answer, ApiTypeOK
  <2> QED BY <1>2, <1>3, <2>2, <2>4 DEF Fits
<1>6. \/ UNCHANGED queueVars /\ state[r] = "none" /\ reply[r] = 0 /\ ~Enqueue(r)
      \/ Enqueue(r) \/ IncrementProcessed(r)
  BY DEF Handle, Receive, ApiGetUser, ApiGetApplication, SaveInput, ApiInv
<1> QED BY <1>4, <1>5, <1>6

LEMMA FitNext == Base /\ FitInv /\ [Next]_vars => FitInv'
<1> SUFFICES ASSUME Base, FitInv, [Next]_vars, ~disturbed', NEW r \in Requests
             PROVE  Fits(r)'
  BY DEF FitInv
<1> USE DEF Base, TypeOK
<1>1. CASE UNCHANGED vars
  BY <1>1, FitStays DEF vars, storeVars, queueVars, apiVars, FitInv, RowsRest
<1>2. CASE Next
  <2>1. ~disturbed /\ RowsRest BY <1>2, Undisturbed DEF RowsRest
  <2>2. Fits(r) BY <2>1 DEF FitInv
  <2>3. CASE ApiStep /\ UNCHANGED workerVars
    <3>1. ~CrashApi BY DEF CrashApi, Read, Noted
    <3>2. PICK q \in Requests : Handle(q) BY <2>3, <3>1 DEF ApiStep
    <3>3. CASE q = r BY <2>1, <2>2, <3>2, <3>3, FitRequest
    <3>4. CASE q # r
      <4>1. input' = input /\ pc'[r] = pc[r] /\ state'[r] = state[r]
        BY <3>2, <3>4, RequestMoves
      <4>2. reply'[r] = reply[r]
        <5>1. (\E c : Goto(q, c)) \/ (\E code : Answer(q, code))
          BY <3>2
          DEF Handle, Receive, ApiGetUser, ApiGetApplication, SaveInput, Enqueue,
              IncrementProcessed
        <5> QED BY <3>4, <5>1 DEF Goto, Answer, ApiTypeOK
      <4> QED BY <2>1, <2>2, <4>1, <4>2, FitStays
    <3> QED BY <3>3, <3>4
  <2>4. CASE ~(ApiStep /\ UNCHANGED workerVars)
    <3>1. UNCHANGED apiVars /\ Kept BY <1>2, <2>4, WorkerKeeps
    <3> QED BY <2>1, <2>2, <3>1, FitStays DEF apiVars, Kept
  <2> QED BY <2>3, <2>4
<1> QED BY <1>1, <1>2

LEMMA FitAlways == Spec => []FitInv
<1>1. Init => FitInv BY DEF Init, ApiInit, QueueInit, FitInv, Fits
<1> QED BY <1>1, FitNext, BaseAlways, PTL DEF Spec

\* Without faults and edits a request is answered 200 if the application and its
\* owner are enabled and the body can be read, 404 if one of them is not, 400 if
\* the body cannot be read, and never 500 (routes.go 50-307).
THEOREM AnswersAreRight == Spec => []AnswersFitRows
<1>1. Base /\ FitInv => AnswersFitRows
  BY DEF Base, FitInv, Fits, AnswersAreHonest, AnswersFitRows
<1> QED BY <1>1, BaseAlways, FitAlways, PTL

-----------------------------------------------------------------------------
(* The attempts.                                                             *)

\* What an attempt finds out does not change under it.
LEMMA DeliverableStays ==
    ASSUME RowsRest, input' = input
    PROVE  \A r : (Deliverable(r)' <=> Deliverable(r)) /\ Token(r)' = Token(r)
BY DEF Deliverable, RowsRest, Admits, ViaSubmit, Token

LEMMA AimHandler ==
    ASSUME Base, FitInv, ~disturbed, Aimed, RowsRest, ~disturbed',
           NEW h \in Handlers, HandlerStep(h)
    PROVE  Aimed'
<1> USE DEF Base, TypeOK
<1> DEFINE r == job[h]
<1>1. HandleMessage(h) /\ input' = input BY DEF HandlerStep, apiVars
<1>2. \A ok : Read(ok) => ok BY DEF Read, Noted
<1>3. r \in Requests /\ state[r] # "none" BY <1>1, HandlerForms DEF HandlerInv
<1>4. payload[r].token = Token(r) /\ (payload[r].via <=> ViaSubmit(r)) /\ Admissible(r)
  BY <1>3, PayloadSays DEF TaskInv, FitInv, Fits
<1>5. \A q : (Deliverable(q)' <=> Deliverable(q)) /\ Token(q)' = Token(q)
  BY <1>1, DeliverableStays
<1>6. unsure' = unsure
  BY <1>1, <1>2
  DEF HandleMessage, WorkerGetApplication, WorkerGetTarget, Execute, IncrementSent, Return,
      Fail, Disregard, outcomeVars
<1>7. /\ written' = written \/ (at[h] = "execute" /\ Wrote(h))
      /\ \/ dismissed' = dismissed
         \/ dismissed' = dismissed \cup {r} /\ ~Deliverable(r)
  <2>1. CASE WorkerGetApplication(h)
    <3>1. ~Disregard(h) \/ payload[r].via \/ app[payload[r].token].enable
      BY <1>4 DEF Admissible, Admits
    <3> QED BY <1>4, <2>1 DEF WorkerGetApplication, Admissible, Admits, outcomeVars
  <2>2. CASE WorkerGetTarget(h)
    <3>1. at[h] = "target" /\ dest[h] = app[Token(r)].target
      BY <2>2 DEF WorkerGetTarget, Aimed
    <3>2. \/ UNCHANGED outcomeVars
          \/ Disregard(h) /\ ~(IsViaSubmit(h) \/ target[dest[h]].enable)
      BY <2>2 DEF WorkerGetTarget
    <3> QED BY <1>4, <3>1, <3>2
         DEF Disregard, IsViaSubmit, Deliverable, Admits, outcomeVars
  <2>3. CASE Execute(h) BY <2>3 DEF Execute, outcomeVars
  <2>4. CASE IncrementSent(h) \/ Return(h)
    BY <2>4 DEF IncrementSent, Return, outcomeVars
  <2> QED BY <1>1, <2>1, <2>2, <2>3, <2>4 DEF HandleMessage
<1>8. ASSUME NEW q \in Requests
      PROVE  /\ written'[q] # {} => Deliverable(q)'
             /\ q \in dismissed' => ~Deliverable(q)'
             /\ unsure'[q] = {}
  <2>1. written'[q] # {} => written[q] # {} \/ (q = r /\ at[h] = "execute")
    BY <1>7 DEF Wrote, WorkerTypeOK
  <2> QED BY <1>5, <1>6, <1>7, <2>1 DEF Aimed
<1>9. ASSUME NEW g \in Handlers
      PROVE  /\ at'[g] \in {"target", "execute"} => dest'[g] = app'[Token(job[g])'].target
             /\ at'[g] = "execute" => Deliverable(job[g])'
  <2>1. Advances(h) \/ Ends(h) BY <1>1, HandlerForms
  <2>2. CASE g # h
    <3>1. at'[g] = at[g] /\ job'[g] = job[g] /\ dest'[g] = dest[g]
      BY <2>1, <2>2 DEF Advances, Ends, End, WorkerTypeOK
    <3>2. at[g] # "idle" => job[g] \in Requests BY DEF HandlerInv
    <3> QED BY <1>5, <3>1, <3>2 DEF Aimed, RowsRest, Deliverable, Admits, ViaSubmit, Token
  <2>3. CASE g = h /\ at'[h] \notin {"target", "execute"} BY <2>3
  <2>4. CASE g = h /\ at'[h] \in {"target", "execute"}
    <3>1. at'[h] # "idle" BY <2>4
    <3>2. ~End(h) BY <3>1 DEF End, WorkerTypeOK
    <3>3. CASE WorkerGetApplication(h)
      <4>1. /\ at' = [at EXCEPT ![h] = "target"]
            /\ dest' = [dest EXCEPT ![h] = app[payload[r].token].target]
            /\ job' = job
        BY <3>2, <3>3 DEF WorkerGetApplication, Fail, Disregard
      <4>2. at'[h] = "target" /\ dest'[h] = app[Token(r)].target /\ job'[h] = r
        BY <1>4, <4>1 DEF WorkerTypeOK
      <4>3. Token(job[h])' = Token(r) /\ app' = app
        BY <1>1, <4>2 DEF Token, RowsRest
      <4> QED BY <2>4, <4>2, <4>3
    <3>4. CASE WorkerGetTarget(h)
      <4>1. /\ at[h] = "target" /\ dest' = dest /\ job' = job
            /\ IsViaSubmit(h) \/ target[dest[h]].enable
        BY <3>2, <3>4 DEF WorkerGetTarget, Fail, Disregard, GoOn
      <4>2. dest[h] = app[Token(r)].target BY <4>1 DEF Aimed
      <4>3. Deliverable(r) BY <1>4, <4>1, <4>2 DEF Deliverable, Admits, IsViaSubmit
      <4>4. Token(job[h])' = Token(r) /\ app' = app
        BY <1>1, <4>1 DEF Token, RowsRest
      <4>5. Deliverable(job[h])'
        BY <1>1, <4>1, <4>3 DEF Deliverable, RowsRest, Admits, ViaSubmit, Token
      <4> QED BY <2>4, <4>1, <4>2, <4>4, <4>5
    <3>5. ~Execute(h) /\ ~IncrementSent(h) /\ ~Return(h)
      BY <2>4, <3>2 DEF Execute, IncrementSent, Return, Fail, GoOn, WorkerTypeOK
    <3> QED BY <1>1, <3>3, <3>4, <3>5 DEF HandleMessage
  <2> QED BY <2>2, <2>3, <2>4
<1> QED BY <1>8, <1>9 DEF Aimed

\* The other steps deliver nothing and put no handler past its lookups.
LEMMA AimOther ==
    ASSUME Base, Aimed, RowsRest, input' = input, UNCHANGED outcomeVars,
           \A g \in Handlers : at'[g] \in {"target", "execute"} =>
               at'[g] = at[g] /\ job'[g] = job[g] /\ dest'[g] = dest[g]
    PROVE  Aimed'
<1>1. \A q : (Deliverable(q)' <=> Deliverable(q)) /\ Token(q)' = Token(q)
  BY DeliverableStays
<1>2. ASSUME NEW g \in Handlers, at'[g] \in {"target", "execute"}
      PROVE  /\ dest'[g] = app'[Token(job[g])'].target
             /\ at'[g] = "execute" => Deliverable(job[g])'
  BY <1>2 DEF Aimed, RowsRest, Deliverable, Admits, ViaSubmit, Token
<1>3. \A q \in Requests : /\ written'[q] # {} => Deliverable(q)'
                          /\ q \in dismissed' => ~Deliverable(q)'
                          /\ unsure'[q] = {}
  BY <1>1 DEF Aimed, outcomeVars
<1> QED BY <1>2, <1>3 DEF Aimed

LEMMA AimNext == Base /\ FitInv /\ AimInv /\ [Next]_vars => AimInv'
<1> SUFFICES ASSUME Base, FitInv, AimInv, [Next]_vars, ~disturbed'
             PROVE  Aimed'
  BY DEF AimInv
<1> USE DEF Base, TypeOK
<1>1. CASE UNCHANGED vars
  BY <1>1, AimOther
  DEF vars, storeVars, apiVars, workerVars, handlerVars, AimInv, RowsRest
<1>2. CASE Next
  <2>1. ~disturbed /\ RowsRest BY <1>2, Undisturbed DEF RowsRest
  <2>2. Aimed BY <2>1 DEF AimInv
  <2>3. CASE \E h \in Handlers : HandlerStep(h) BY <2>1, <2>2, <2>3, AimHandler
  <2>4. CASE ApiStep /\ UNCHANGED workerVars
    <3>1. ~CrashApi BY DEF CrashApi, Read, Noted
    <3>2. input' = input BY <2>4, <3>1, RequestMoves DEF ApiStep
    <3> QED BY <2>1, <2>2, <2>4, <3>2, AimOther DEF workerVars, handlerVars
  <2>5. CASE \E r \in Requests : DequeueStep(r)
    <3>1. PICK r \in Requests, h \in Handlers : Dequeue(h, r) /\ input' = input
      BY <2>5 DEF DequeueStep, apiVars
    <3>2. /\ at'[h] = "app"
          /\ \A g \in Handlers : g # h =>
                at'[g] = at[g] /\ job'[g] = job[g] /\ dest'[g] = dest[g]
      BY <3>1 DEF Dequeue, Begin, WorkerTypeOK
    <3> QED BY <2>1, <2>2, <3>1, <3>2, AimOther DEF Dequeue
  <2>6. CASE \E r \in Requests : RecoverStep(r)
    BY <2>1, <2>2, <2>6, AimOther
    DEF RecoverStep, Recover, apiVars, workerVars, handlerVars
  <2>7. CASE StartStep \/ ExitStep \/ OutageStep
    <3>1. ~CrashWorker /\ \A h \in Handlers : ~Detach(h)
      BY DEF CrashWorker, Detach, Read, Noted
    <3>2. Start \/ Stop \/ Exit BY <2>7, <3>1 DEF StartStep, ExitStep, OutageStep
    <3>3. UNCHANGED outcomeVars BY <3>2 DEF Start, Stop, Exit
    <3>4. UNCHANGED handlerVars \/ \A g \in Handlers : at'[g] = "idle"
      BY <3>2 DEF Start, Stop, Exit, AllGone
    <3>5. input' = input BY <2>7 DEF StartStep, ExitStep, OutageStep, apiVars
    <3> QED BY <2>1, <2>2, <3>3, <3>4, <3>5, AimOther DEF handlerVars
  <2>8. ~Edit BY DEF Edit, EditUser, EditApp, EditTarget, Edited
  <2> QED BY <1>2, <2>3, <2>4, <2>5, <2>6, <2>7, <2>8 DEF Next
<1> QED BY <1>1, <1>2

\* Without faults and edits no message goes out twice, none that was dismissed or
\* given up goes out at all, and only a disabled target dismisses one
\* (worker.go 170-262).
THEOREM SentOnceOrNotAtAll == Spec => []OnceUnlessDisturbed
<1>1. Init => AimInv
  BY DEF Init, WorkerInit, AllIdle, AimInv, Aimed
<1>2. Spec => []AimInv BY <1>1, AimNext, FitAlways, BaseAlways, PTL DEF Spec
<1>3. OneOwner /\ CopyInv /\ AimInv => OnceUnlessDisturbed
  <2> SUFFICES ASSUME OneOwner, CopyInv, Aimed, NEW r \in Requests
               PROVE  /\ \A i, j \in written[r] : i = j
                      /\ written[r] # {} =>
                            Deliverable(r) /\ state[r] \in {"active", "completed"}
                      /\ r \in dismissed => ~Deliverable(r)
    BY DEF AimInv, OnceUnlessDisturbed
  <2>1. \A i \in written[r] :
            i = attempts[r] /\ (state[r] = "completed" \/ Delivering(r))
    BY DEF CopyInv, Aimed
  <2>2. Delivering(r) => state[r] = "active" BY DEF Delivering, OneOwner
  <2> QED BY <2>1, <2>2 DEF Aimed
<1> QED BY <1>2, <1>3, OwnedOnce, CopyAlways, PTL

=============================================================================

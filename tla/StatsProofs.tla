----------------------------- MODULE StatsProofs -----------------------------
(***************************************************************************)
(* The counters of an application count what they say, for any rows,       *)
(* requests and handlers.  A counter lags behind the set it counts by the  *)
(* requests and the attempts whose next step is to count, and a failed     *)
(* query or a crash only lets it lag behind more.                          *)
(***************************************************************************)
EXTENDS CauseProofs, FiniteSetTheorems

\* The messages of a that count once SaveInput is done, those whose handler has
\* counted them as processed, and the deliveries whose attempt is past counting.
Counts(r, a) == Token(r) = a /\ ~ViaSubmit(r)
Saved(a)     == {r \in Requests : Counts(r, a) /\ (pc[r] = "enqueue" \/ state[r] # "none")}
Processed(a) == {r \in Queued(a) : pc[r] # "stat"}
Uncounted    == {<<job[h], try[h]>> : h \in {g \in Handlers : at[g] = "stat"}}
Counted(a)   == Deliveries(a) \ Uncounted

Finite ==
    \A a \in Apps : IsFiniteSet(Saved(a)) /\ IsFiniteSet(Queued(a)) /\ IsFiniteSet(Deliveries(a))

\* No two attempts of a task have the same number; one that has delivered is
\* among those written, one that has not is not.
Numbered ==
    /\ \A r \in Requests : \A i \in written[r] : 1 <= i /\ i <= attempts[r]
    /\ \A g, h \in Handlers :
          at[g] # "idle" /\ at[h] # "idle" /\ job[g] = job[h] /\ try[g] = try[h] => g = h
    /\ \A h \in Handlers :
          /\ at[h] # "idle" => 1 <= try[h]
          /\ at[h] \in {"app", "target", "execute"} => try[h] \notin written[job[h]]
          /\ at[h] \in {"stat", "return"} => try[h] \in written[job[h]]
          /\ at[h] = "stat" => ~ViaSubmit(job[h])

\* Nothing is counted for a message of the submit route.
Marked == \A r \in Requests : pc[r] \in {"save", "stat"} => ~ViaSubmit(r)

Backed ==
    \A a \in Apps :
        /\ stats[a].processed <= Cardinality(Processed(a))
        /\ stats[a].sent <= Cardinality(Counted(a))

Exact ==
    DatabaseEnable /\ ~disturbed =>
        \A a \in Apps :
            /\ stats[a].received = Cardinality(Saved(a))
            /\ stats[a].processed = Cardinality(Processed(a))
            /\ stats[a].sent = Cardinality(Counted(a))

-----------------------------------------------------------------------------
(* Attempts are numbered.                                                    *)

\* Only the API's steps touch a request or add a task.
LEMMA WorkerKeeps ==
    ASSUME Base, [Next]_vars, ~(ApiStep /\ UNCHANGED workerVars)
    PROVE  UNCHANGED apiVars /\ Kept
<1>1. UNCHANGED apiVars
  BY DEF Next, vars, HandlerStep, DequeueStep, RecoverStep, StartStep, ExitStep, OutageStep
<1> USE DEF Base, TypeOK
<1>2. CASE UNCHANGED queueVars BY <1>1, <1>2, QueueRests
<1>3. CASE \E h \in Handlers : HandlerStep(h)
  <2>1. PICK h \in Handlers : HandleMessage(h) BY <1>3 DEF HandlerStep
  <2>2. at[h] # "idle" /\ (Advances(h) \/ Ends(h)) BY <2>1, HandlerForms
  <2>3. job[h] \in Requests /\ state[job[h]] # "none" BY <2>2 DEF HandlerInv
  <2> QED BY <1>1, <2>2, <2>3, QueueSteps, QueueRests DEF Advances, Ends
<1>4. CASE \E r \in Requests : DequeueStep(r) \/ RecoverStep(r)
  <2>1. PICK r \in Requests : Take(r) \/ (Nack(r) /\ state[r] = "active")
    BY <1>4 DEF DequeueStep, Dequeue, RecoverStep, Recover
  <2>2. state[r] # "none" BY <2>1 DEF Take
  <2> QED BY <1>1, <2>1, <2>2, QueueSteps
<1>5. CASE \E h \in Handlers : Detach(h)
  <2>1. PICK h \in Handlers : Detach(h) BY <1>5
  <2>2. job[h] \in Requests /\ state[job[h]] # "none" BY <2>1 DEF Detach, HandlerInv
  <2> QED BY <1>1, <2>1, <2>2, QueueSteps, QueueRests DEF Detach
<1>6. CASE Edit /\ UNCHANGED <<queueVars, apiVars, workerVars>> BY <1>2, <1>6
<1>7. CASE StartStep \/ ExitStep \/ OutageStep
  BY <1>2, <1>5, <1>7
  DEF StartStep, Start, ExitStep, Exit, OutageStep, Stop, CrashWorker
<1>8. CASE Next BY <1>3, <1>4, <1>6, <1>7, <1>8 DEF Next
<1>9. CASE UNCHANGED vars BY <1>2, <1>9 DEF vars
<1> QED BY <1>8, <1>9

\* An attempt comes to count only from a delivery, and not on the submit route.
LEMMA ToCount ==
    ASSUME Base, NEW h \in Handlers, HandleMessage(h), at'[h] = "stat"
    PROVE  at[h] = "execute" /\ ~ViaSubmit(job[h])
<1> USE DEF Base, TypeOK
<1>1. Execute(h)
  BY DEF HandleMessage, WorkerGetApplication, WorkerGetTarget, IncrementSent, Return,
         Fail, Disregard, GoOn, End, WorkerTypeOK
<1>2. at[h] = "execute" /\ ~IsViaSubmit(h)
  BY <1>1 DEF Execute, Fail, GoOn, End, WorkerTypeOK
<1>3. payload[job[h]] = Payload(job[h]) /\ job[h] \in Requests
  BY <1>2 DEF HandlerInv, TaskInv
<1> QED BY <1>2, <1>3, PayloadSays DEF IsViaSubmit

LEMMA NumberedHandler ==
    ASSUME Base, Numbered, NEW h \in Handlers, HandlerStep(h)
    PROVE  Numbered'
<1> USE DEF Base, TypeOK
<1>1. HandleMessage(h) /\ UNCHANGED apiVars BY DEF HandlerStep
<1>2. /\ at[h] # "idle" /\ (Advances(h) \/ Ends(h))
      /\ written' \in {written, [written EXCEPT ![job[h]] = @ \cup {try[h]}]}
  BY <1>1, HandlerForms
<1>3. job[h] \in Requests /\ state[job[h]] # "none" /\ try[h] <= attempts[job[h]]
  BY <1>2 DEF HandlerInv
<1>4. \A r \in Requests : attempts'[r] = attempts[r]
  BY <1>2 DEF Advances, Ends, Ack, Nack, queueVars
<1>5. \A g \in Handlers : g # h => at'[g] = at[g] /\ job'[g] = job[g] /\ try'[g] = try[g]
  BY <1>2 DEF Advances, Ends, End, WorkerTypeOK
<1>6. /\ at'[h] # "idle" => job'[h] = job[h] /\ try'[h] = try[h]
      /\ at'[h] = "idle" \/ Advances(h)
  BY <1>2 DEF Advances, Ends, End, WorkerTypeOK
<1>7. \A r \in Requests : \A i : i \in written'[r] <=>
          i \in written[r] \/ (r = job[h] /\ i = try[h] /\ written' # written)
  BY <1>2, <1>3 DEF WorkerTypeOK
<1>8. \A r \in Requests : \A i \in written'[r] : 1 <= i /\ i <= attempts'[r]
  BY <1>2, <1>3, <1>4, <1>7 DEF Numbered
<1>9. \A f, g \in Handlers :
          at'[f] # "idle" /\ at'[g] # "idle" /\ job'[f] = job'[g] /\ try'[f] = try'[g] => f = g
  BY <1>2, <1>5, <1>6 DEF Numbered
<1>10. ASSUME NEW g \in Handlers, g # h
       PROVE  /\ at'[g] # "idle" => 1 <= try'[g]
              /\ at'[g] \in {"app", "target", "execute"} => try'[g] \notin written'[job'[g]]
              /\ at'[g] \in {"stat", "return"} => try'[g] \in written'[job'[g]]
              /\ at'[g] = "stat" => ~ViaSubmit(job[g])'
  <2>1. at'[g] = at[g] /\ job'[g] = job[g] /\ try'[g] = try[g] BY <1>5, <1>10
  <2>2. at[g] # "idle" => job[g] \in Requests BY DEF HandlerInv
  <2>3. at[g] # "idle" /\ job[g] = job[h] => try[g] # try[h]
    BY <1>2, <1>10 DEF Numbered
  <2>4. ViaSubmit(job[g])' <=> ViaSubmit(job[g])
    BY <1>1, <2>1 DEF ViaSubmit, apiVars
  <2> QED BY <1>7, <2>1, <2>2, <2>3, <2>4 DEF Numbered
<1>11. /\ at'[h] # "idle" => 1 <= try'[h]
       /\ at'[h] \in {"app", "target", "execute"} => try'[h] \notin written'[job'[h]]
       /\ at'[h] \in {"stat", "return"} => try'[h] \in written'[job'[h]]
       /\ at'[h] = "stat" => ~ViaSubmit(job[h])'
  <2>1. at'[h] = "stat" => ~ViaSubmit(job[h])'
    BY <1>1, <1>6, ToCount DEF ViaSubmit, apiVars
  <2>2. at'[h] \in {"app", "target", "execute"} =>
            at[h] \in {"app", "target"} /\ written' = written
    BY <1>1, HandlerMoves DEF Fail, Disregard, End, WorkerTypeOK, outcomeVars
  <2>3. at'[h] \in {"stat", "return"} =>
            Wrote(h) \/ (at[h] = "stat" /\ written' = written)
    BY <1>1, HandlerMoves DEF Fail, Disregard, End, WorkerTypeOK, outcomeVars
  <2>4. Wrote(h) => try[h] \in written'[job[h]]
    BY <1>3 DEF Wrote, WorkerTypeOK
  <2> QED BY <1>2, <1>6, <2>1, <2>2, <2>3, <2>4 DEF Numbered
<1> QED BY <1>8, <1>9, <1>10, <1>11 DEF Numbered

LEMMA NumberedDequeue ==
    ASSUME Base, Numbered, NEW r \in Requests, DequeueStep(r)
    PROVE  Numbered'
<1> USE DEF Base, TypeOK
<1>1. PICK h \in Handlers : Dequeue(h, r) BY DEF DequeueStep
<1>2. /\ Take(r) /\ Begin(h, r) /\ at[h] = "idle" /\ written' = written /\ input' = input
  BY <1>1 DEF Dequeue, DequeueStep, outcomeVars, apiVars
<1>3. /\ attempts'[r] = attempts[r] + 1
      /\ \A q \in Requests : q # r => attempts'[q] = attempts[q]
  BY <1>2 DEF Take, QueueTypeOK
<1>4. at'[h] = "app" /\ job'[h] = r /\ try'[h] = attempts[r] + 1
  BY <1>2 DEF Begin, WorkerTypeOK
<1>5. \A g \in Handlers : g # h => at'[g] = at[g] /\ job'[g] = job[g] /\ try'[g] = try[g]
  BY <1>2 DEF Begin, WorkerTypeOK
<1>6. attempts[r] \in Nat BY DEF QueueTypeOK
<1>7. \A q \in Requests : \A i \in written'[q] : 1 <= i /\ i <= attempts'[q]
  BY <1>2, <1>3, <1>6 DEF Numbered, WorkerTypeOK
<1>8. attempts[r] + 1 \notin written[r] BY <1>6 DEF Numbered
<1>9. \A g \in Handlers : at[g] # "idle" /\ job[g] = r => try[g] # attempts[r] + 1
  BY <1>6 DEF HandlerInv, WorkerTypeOK
<1>10. \A f, g \in Handlers :
          at'[f] # "idle" /\ at'[g] # "idle" /\ job'[f] = job'[g] /\ try'[f] = try'[g] => f = g
  BY <1>4, <1>5, <1>9 DEF Numbered
<1>11. ASSUME NEW g \in Handlers
       PROVE  /\ at'[g] # "idle" => 1 <= try'[g]
              /\ at'[g] \in {"app", "target", "execute"} => try'[g] \notin written'[job'[g]]
              /\ at'[g] \in {"stat", "return"} => try'[g] \in written'[job'[g]]
              /\ at'[g] = "stat" => ~ViaSubmit(job[g])'
  BY <1>2, <1>4, <1>5, <1>6, <1>8 DEF Numbered, ViaSubmit
<1> QED BY <1>7, <1>10, <1>11 DEF Numbered

LEMMA NumberedNext ==
    ASSUME Base, Numbered, [Next]_vars
    PROVE  Numbered'
<1> USE DEF Base, TypeOK
<1>1. CASE AllGone /\ UNCHANGED <<written, attempts>>
  BY <1>1 DEF AllGone, Numbered
<1>2. CASE UNCHANGED <<at, job, try, written, attempts, input>>
  BY <1>2 DEF Numbered, ViaSubmit
<1>3. CASE ApiStep /\ UNCHANGED workerVars
  BY <1>2, <1>3
  DEF ApiStep, Handle, Receive, ApiGetUser, ApiGetApplication, SaveInput, Enqueue,
      IncrementProcessed, CrashApi, Put, Goto, Answer, queueVars, workerVars,
      handlerVars, outcomeVars
<1>4. CASE \E h \in Handlers : HandlerStep(h) BY <1>4, NumberedHandler
<1>5. CASE \E r \in Requests : DequeueStep(r) BY <1>5, NumberedDequeue
<1>6. CASE UNCHANGED vars
  BY <1>2, <1>6 DEF vars, workerVars, handlerVars, outcomeVars, queueVars, apiVars
<1>7. CASE Edit /\ UNCHANGED <<queueVars, apiVars, workerVars>>
  BY <1>2, <1>7 DEF workerVars, handlerVars, outcomeVars, queueVars, apiVars
<1>8. CASE \E r \in Requests : RecoverStep(r)
  BY <1>2, <1>8
  DEF RecoverStep, Recover, Nack, workerVars, handlerVars, outcomeVars, apiVars
<1>9. CASE StartStep \/ ExitStep \/ OutageStep
  BY <1>1, <1>2, <1>9
  DEF StartStep, Start, ExitStep, Exit, OutageStep, Stop, CrashWorker, Detach, Nack,
      Requeue, queueVars, handlerVars, outcomeVars, apiVars
<1> QED BY <1>3, <1>4, <1>5, <1>6, <1>7, <1>8, <1>9 DEF Next

-----------------------------------------------------------------------------
(* Counting sets.                                                            *)

\* A counter that moves from n to m while what it counts grows from S to T
\* stays behind it, or in step with it.
Behind(n, m, S, T) == /\ S \subseteq T
                      /\ m <= n \/ (m = n + 1 /\ \E x \in T : x \notin S)
InStep(n, m, S, T) == \/ m = n /\ T = S
                      \/ m = n + 1 /\ \E x : x \notin S /\ T = S \cup {x}

LEMMA StaysBehind ==
    ASSUME NEW n \in Nat, NEW m \in Nat, NEW S, NEW T, IsFiniteSet(T),
           Behind(n, m, S, T), n <= Cardinality(S)
    PROVE  m <= Cardinality(T)
<1>1. /\ IsFiniteSet(S) /\ Cardinality(S) <= Cardinality(T)
      /\ Cardinality(S) = Cardinality(T) => S = T
  BY FS_Subset DEF Behind
<1>2. Cardinality(S) \in Nat /\ Cardinality(T) \in Nat
  BY <1>1, FS_CardinalityType
<1> QED BY <1>1, <1>2 DEF Behind

LEMMA StaysInStep ==
    ASSUME NEW n, NEW m, NEW S, NEW T, IsFiniteSet(S),
           InStep(n, m, S, T), n = Cardinality(S)
    PROVE  m = Cardinality(T)
BY FS_AddElement DEF InStep

LEMMA FinitePlus ==
    ASSUME NEW S, NEW T, NEW x, IsFiniteSet(S), T \subseteq S \cup {x}
    PROVE  IsFiniteSet(T)
<1>1. IsFiniteSet(S \cup {x}) BY FS_AddElement
<1> QED BY <1>1, FS_Subset

\* A delivery is a request and the number of an attempt.
LEMMA DeliveryIs ==
    ASSUME NEW a, NEW c
    PROVE  /\ c \in Deliveries(a) <=>
                 c = <<c[1], c[2]>> /\ c[1] \in Queued(a) /\ c[2] \in written[c[1]]
           /\ c \in Deliveries(a)' <=>
                 c = <<c[1], c[2]>> /\ c[1] \in Queued(a)' /\ c[2] \in written'[c[1]]
BY DEF Deliveries

\* What one query does to the counters.
LEMMA CountEffect ==
    ASSUME StoreTypeOK, NEW t \in Apps, NEW s \in {"received", "processed", "sent"},
           NEW ok \in BOOLEAN, Count(t, s, ok)
    PROVE  /\ \A a \in Apps : a # t => stats'[a] = stats[a]
           /\ stats'[t] \in {stats[t], [stats[t] EXCEPT ![s] = @ + 1]}
           /\ DatabaseEnable /\ app[t].live /\ ~disturbed'
                 => stats'[t] = [stats[t] EXCEPT ![s] = @ + 1]
BY DEF Count, Noted, StoreTypeOK

\* It moves one of the three.
LEMMA OneCounter ==
    ASSUME NEW x \in [received: Nat, processed: Nat, sent: Nat]
    PROVE  /\ [x EXCEPT !["received"] = @ + 1].received = x.received + 1
           /\ [x EXCEPT !["received"] = @ + 1].processed = x.processed
           /\ [x EXCEPT !["received"] = @ + 1].sent = x.sent
           /\ [x EXCEPT !["processed"] = @ + 1].received = x.received
           /\ [x EXCEPT !["processed"] = @ + 1].processed = x.processed + 1
           /\ [x EXCEPT !["processed"] = @ + 1].sent = x.sent
           /\ [x EXCEPT !["sent"] = @ + 1].received = x.received
           /\ [x EXCEPT !["sent"] = @ + 1].processed = x.processed
           /\ [x EXCEPT !["sent"] = @ + 1].sent = x.sent + 1
OBVIOUS

-----------------------------------------------------------------------------
(* The counters through each step.                                           *)

Lags(a) ==
    /\ Behind(stats[a].processed, stats'[a].processed, Processed(a), Processed(a)')
    /\ Behind(stats[a].sent, stats'[a].sent, Counted(a), Counted(a)')

Follows(a) ==
    /\ InStep(stats[a].received, stats'[a].received, Saved(a), Saved(a)')
    /\ InStep(stats[a].processed, stats'[a].processed, Processed(a), Processed(a)')
    /\ InStep(stats[a].sent, stats'[a].sent, Counted(a), Counted(a)')

Tally == \A a \in Apps : Lags(a) /\ (DatabaseEnable /\ ~disturbed' => Follows(a))

LEMMA StatsAreNat ==
    ASSUME StoreTypeOK, NEW a \in Apps
    PROVE  stats[a].received \in Nat /\ stats[a].processed \in Nat /\ stats[a].sent \in Nat
BY DEF StoreTypeOK

\* The API's steps leave deliveries as they are.
LEMMA ApiDelivers ==
    ASSUME Base, UNCHANGED <<at, job, try, written>>, NEW a \in Apps,
           Queued(a) \subseteq Queued(a)',
           \A q \in Queued(a)' : q \in Queued(a) \/ written[q] = {}
    PROVE  Deliveries(a)' = Deliveries(a) /\ Counted(a)' = Counted(a)
<1>1. \A c : c \in Deliveries(a)' <=> c \in Deliveries(a)
  BY DeliveryIs DEF Queued
<1>2. Uncounted' = Uncounted BY DEF Uncounted
<1> QED BY <1>1, <1>2 DEF Counted

\* What the steps of a request share: they leave all others alone.
LEMMA RequestMoves ==
    ASSUME Base, NEW r \in Requests, Handle(r)
    PROVE  /\ input' = input
           /\ \A q \in Requests : q # r => pc'[q] = pc[q] /\ state'[q] = state[q]
           /\ UNCHANGED queueVars \/ (pc[r] = "enqueue" /\ Put(r, Payload(r)))
<1> USE DEF Base, TypeOK
<1>1. input' = input
  BY DEF Handle, Receive, ApiGetUser, ApiGetApplication, SaveInput,
         Enqueue, IncrementProcessed, Goto, Answer
<1>2. \E call \in Waits \cup {"done"} : pc' = [pc EXCEPT ![r] = call]
  BY DEF Handle, Receive, ApiGetUser, ApiGetApplication, SaveInput,
         Enqueue, IncrementProcessed, Goto, Answer, Waits
<1>3. UNCHANGED queueVars \/ (pc[r] = "enqueue" /\ Put(r, Payload(r)))
  BY DEF Handle, Receive, ApiGetUser, ApiGetApplication, SaveInput,
         Enqueue, IncrementProcessed
<1>4. \A q \in Requests : q # r => state'[q] = state[q]
  BY <1>3 DEF Put, QueueTypeOK, queueVars
<1> QED BY <1>1, <1>2, <1>3, <1>4 DEF ApiTypeOK

\* Before the Enqueue nothing is queued and nothing but SaveInput counts.
LEMMA TallyBefore ==
    ASSUME Base, Marked, NEW r \in Requests, NEW a \in Apps, UNCHANGED workerVars,
           Receive(r) \/ ApiGetUser(r) \/ ApiGetApplication(r)
    PROVE  Lags(a) /\ Follows(a)
<1> USE DEF Base, TypeOK
<1>1. /\ input' = input
      /\ \A q \in Requests : q # r => pc'[q] = pc[q] /\ state'[q] = state[q]
  BY RequestMoves DEF Handle
<1>2. UNCHANGED queueVars /\ stats' = stats
  BY DEF Receive, ApiGetUser, ApiGetApplication, Read, storeVars
<1>3. /\ pc[r] \in {"new", "user", "app"} /\ pc'[r] # "stat"
      /\ pc'[r] = "save" => ~ViaSubmit(r)
      /\ pc'[r] = "enqueue" => ViaSubmit(r)
  BY DEF Receive, ApiGetUser, ApiGetApplication, Goto, Answer, ApiTypeOK
<1>4. state[r] = "none" BY <1>3 DEF ApiInv
<1>5. Saved(a)' = Saved(a)
  BY <1>1, <1>2, <1>3 DEF Saved, Counts, Token, ViaSubmit, queueVars
<1>6. Queued(a)' = Queued(a) BY <1>1, <1>2 DEF Queued, Token, ViaSubmit, queueVars
<1>7. Processed(a)' = Processed(a) BY <1>1, <1>4, <1>6 DEF Processed, Queued
<1>8. Counted(a)' = Counted(a)
  BY <1>6, ApiDelivers DEF workerVars, handlerVars, outcomeVars
<1> QED BY <1>2, <1>5, <1>7, <1>8, StatsAreNat DEF Lags, Follows, Behind, InStep

LEMMA TallySave ==
    ASSUME Base, Marked, ~disturbed => Calm, NEW r \in Requests, NEW a \in Apps,
           UNCHANGED workerVars, SaveInput(r)
    PROVE  Lags(a) /\ (DatabaseEnable /\ ~disturbed' => Follows(a))
<1> USE DEF Base, TypeOK
<1>1. /\ input' = input
      /\ \A q \in Requests : q # r => pc'[q] = pc[q] /\ state'[q] = state[q]
  BY RequestMoves DEF Handle
<1>2. /\ pc[r] = "save" /\ pc'[r] = "enqueue" /\ UNCHANGED queueVars
      /\ state[r] = "none" /\ ~ViaSubmit(r) /\ Token(r) \in Apps
  BY PayloadType DEF SaveInput, Goto, ApiTypeOK, ApiInv, Marked
<1>3. PICK ok \in Outcomes : Count(Token(r), "received", ok) BY DEF SaveInput
<1>4. ok \in BOOLEAN BY DEF Outcomes
<1>5. /\ stats'[a].processed = stats[a].processed
      /\ stats'[a].sent = stats[a].sent
      /\ a # Token(r) => stats'[a].received = stats[a].received
      /\ DatabaseEnable /\ app[Token(r)].live /\ ~disturbed'
            => stats'[Token(r)].received = stats[Token(r)].received + 1
  <2>1. StoreTypeOK /\ stats[Token(r)] \in [received: Nat, processed: Nat, sent: Nat]
    BY <1>2 DEF StoreTypeOK
  <2>2. /\ a # Token(r) => stats'[a] = stats[a]
        /\ stats'[Token(r)]
              \in {stats[Token(r)], [stats[Token(r)] EXCEPT !["received"] = @ + 1]}
        /\ DatabaseEnable /\ app[Token(r)].live /\ ~disturbed'
              => stats'[Token(r)] = [stats[Token(r)] EXCEPT !["received"] = @ + 1]
    BY <1>2, <1>3, <1>4, <2>1, CountEffect
  <2> QED BY <2>1, <2>2, OneCounter
<1>6. ~disturbed' => app[Token(r)].live
  BY <1>2, <1>3 DEF Count, Noted, StoreTypeOK, Calm, RowsKnown
<1>7. Queued(a)' = Queued(a) BY <1>1, <1>2 DEF Queued, Token, ViaSubmit, queueVars
<1>8. Processed(a)' = Processed(a) BY <1>1, <1>2, <1>7 DEF Processed, Queued
<1>9. Counted(a)' = Counted(a)
  BY <1>7, ApiDelivers DEF workerVars, handlerVars, outcomeVars
<1>10. Lags(a) BY <1>5, <1>8, <1>9, StatsAreNat DEF Lags, Behind
<1>11. r \notin Saved(a) BY <1>2 DEF Saved
<1>12. Saved(a)' = IF a = Token(r) THEN Saved(a) \cup {r} ELSE Saved(a)
  BY <1>1, <1>2 DEF Saved, Counts, Token, ViaSubmit, queueVars
<1>13. DatabaseEnable /\ ~disturbed' => Follows(a)
  BY <1>5, <1>6, <1>8, <1>9, <1>11, <1>12 DEF Follows, InStep
<1> QED BY <1>10, <1>13

LEMMA TallyEnqueue ==
    ASSUME Base, Marked, NEW r \in Requests, NEW a \in Apps, UNCHANGED workerVars,
           Enqueue(r)
    PROVE  Lags(a) /\ (~disturbed' => Follows(a))
<1> USE DEF Base, TypeOK
<1>1. /\ input' = input
      /\ \A q \in Requests : q # r => pc'[q] = pc[q] /\ state'[q] = state[q]
  BY RequestMoves DEF Handle
<1>2. /\ pc[r] = "enqueue" /\ stats' = stats /\ state[r] = "none" /\ written[r] = {}
  BY DEF Enqueue, Read, storeVars, ApiInv, TaskInv
<1>3. /\ pc'[r] \in {"stat", "done"}
      /\ pc'[r] = "stat" => ~ViaSubmit(r)
      /\ state'[r] \in {"none", "pending"}
      /\ \/ state'[r] = "pending" /\ (pc'[r] = "stat" \/ ViaSubmit(r))
         \/ disturbed'
  <2>1. Put(r, Payload(r)) => state'[r] = "pending" BY DEF Put, QueueTypeOK
  <2>2. UNCHANGED queueVars => state'[r] = "none" BY <1>2 DEF queueVars
  <2>3. CASE Put(r, Payload(r)) /\ ViaSubmit(r) /\ Answer(r, 200)
    BY <2>1, <2>3 DEF Answer, ApiTypeOK
  <2>4. CASE Put(r, Payload(r)) /\ ~ViaSubmit(r) /\ Goto(r, "stat")
    BY <2>1, <2>4 DEF Goto, ApiTypeOK
  <2>5. CASE /\ Put(r, Payload(r)) \/ UNCHANGED queueVars
             /\ Answer(r, 500) /\ Read(FALSE)
    <3>1. pc'[r] = "done" BY <2>5 DEF Answer, ApiTypeOK
    <3>2. disturbed' BY <2>5 DEF Read, Noted
    <3>3. state'[r] \in {"none", "pending"} BY <2>1, <2>2, <2>5
    <3> QED BY <3>1, <3>2, <3>3
  <2> QED BY <2>3, <2>4, <2>5 DEF Enqueue
<1>4. /\ Queued(a) \subseteq Queued(a)'
      /\ \A q \in Queued(a)' : q \in Queued(a) \/ q = r
  BY <1>1, <1>2, <1>3 DEF Queued, Token, ViaSubmit
<1>5. Counted(a)' = Counted(a)
  BY <1>2, <1>4, ApiDelivers DEF workerVars, handlerVars, outcomeVars
<1>6. Processed(a) \subseteq Processed(a)' BY <1>1, <1>2, <1>4 DEF Processed, Queued
<1>7. Lags(a) BY <1>2, <1>5, <1>6, StatsAreNat DEF Lags, Behind
<1>8. ~disturbed' => Processed(a)' = Processed(a) /\ Saved(a)' = Saved(a)
  BY <1>1, <1>2, <1>3 DEF Processed, Queued, Saved, Counts, Token, ViaSubmit
<1>9. ~disturbed' => Follows(a) BY <1>2, <1>5, <1>8 DEF Follows, InStep
<1> QED BY <1>7, <1>9

LEMMA TallyProcessed ==
    ASSUME Base, Marked, ~disturbed => Calm, NEW r \in Requests, NEW a \in Apps,
           UNCHANGED workerVars, IncrementProcessed(r)
    PROVE  Lags(a) /\ (DatabaseEnable /\ ~disturbed' => Follows(a))
<1> USE DEF Base, TypeOK
<1>1. /\ input' = input
      /\ \A q \in Requests : q # r => pc'[q] = pc[q] /\ state'[q] = state[q]
  BY RequestMoves DEF Handle
<1>2. /\ pc[r] = "stat" /\ pc'[r] = "done" /\ UNCHANGED queueVars
      /\ state[r] # "none" /\ ~ViaSubmit(r) /\ Token(r) \in Apps
  BY PayloadType DEF IncrementProcessed, Answer, ApiTypeOK, ApiInv, Marked
<1>3. PICK ok \in Outcomes : Count(Token(r), "processed", ok) BY DEF IncrementProcessed
<1>4. ok \in BOOLEAN BY DEF Outcomes
<1>5. /\ stats'[a].received = stats[a].received
      /\ stats'[a].sent = stats[a].sent
      /\ a # Token(r) => stats'[a].processed = stats[a].processed
      /\ stats'[Token(r)].processed
            \in {stats[Token(r)].processed, stats[Token(r)].processed + 1}
      /\ DatabaseEnable /\ app[Token(r)].live /\ ~disturbed'
            => stats'[Token(r)].processed = stats[Token(r)].processed + 1
  <2>1. StoreTypeOK /\ stats[Token(r)] \in [received: Nat, processed: Nat, sent: Nat]
    BY <1>2 DEF StoreTypeOK
  <2>2. /\ a # Token(r) => stats'[a] = stats[a]
        /\ stats'[Token(r)]
              \in {stats[Token(r)], [stats[Token(r)] EXCEPT !["processed"] = @ + 1]}
        /\ DatabaseEnable /\ app[Token(r)].live /\ ~disturbed'
              => stats'[Token(r)] = [stats[Token(r)] EXCEPT !["processed"] = @ + 1]
    BY <1>2, <1>3, <1>4, <2>1, CountEffect
  <2> QED BY <2>1, <2>2, OneCounter
<1>6. ~disturbed' => app[Token(r)].live
  BY <1>2, <1>3 DEF Count, Noted, StoreTypeOK, Calm, RowsKnown
<1>7. Queued(a)' = Queued(a) BY <1>1, <1>2 DEF Queued, Token, ViaSubmit, queueVars
<1>8. r \notin Processed(a) BY <1>2 DEF Processed
<1>9. Processed(a)' = IF a = Token(r) THEN Processed(a) \cup {r} ELSE Processed(a)
  BY <1>1, <1>2, <1>7 DEF Processed, Queued
<1>10. Counted(a)' = Counted(a)
  BY <1>7, ApiDelivers DEF workerVars, handlerVars, outcomeVars
<1>11. Lags(a) BY <1>5, <1>8, <1>9, <1>10, StatsAreNat DEF Lags, Behind
<1>12. Saved(a)' = Saved(a)
  BY <1>1, <1>2 DEF Saved, Counts, Token, ViaSubmit, queueVars
<1>13. DatabaseEnable /\ ~disturbed' => Follows(a)
  BY <1>5, <1>6, <1>8, <1>9, <1>10, <1>12 DEF Follows, InStep
<1> QED BY <1>11, <1>13

LEMMA TallyCrash ==
    ASSUME Base, Marked, NEW a \in Apps, UNCHANGED workerVars, CrashApi
    PROVE  Lags(a) /\ disturbed'
<1> USE DEF Base, TypeOK
<1>1. /\ UNCHANGED <<input, queueVars, stats>> /\ disturbed'
      /\ \A q \in Requests : pc'[q] \in {pc[q], "lost"}
  BY DEF CrashApi, Read, Noted, ApiTypeOK
<1>2. Queued(a)' = Queued(a) BY <1>1 DEF Queued, Token, ViaSubmit, queueVars
<1>3. Processed(a) \subseteq Processed(a)' BY <1>1, <1>2 DEF Processed, Queued
<1>4. Counted(a)' = Counted(a)
  BY <1>2, ApiDelivers DEF workerVars, handlerVars, outcomeVars
<1> QED BY <1>1, <1>3, <1>4, StatsAreNat DEF Lags, Behind

LEMMA MarkedApi ==
    ASSUME Base, Marked, ApiStep
    PROVE  Marked'
<1> USE DEF Base, TypeOK
<1>1. CASE CrashApi BY <1>1 DEF CrashApi, ApiTypeOK, Marked, ViaSubmit
<1>2. ASSUME NEW r \in Requests, Handle(r)
      PROVE  Marked'
  <2>1. /\ input' = input
        /\ \A q \in Requests : q # r => pc'[q] = pc[q]
    BY <1>2, RequestMoves
  <2>2. pc'[r] \in {"save", "stat"} => ~ViaSubmit(r)
    <3>1. CASE Receive(r) BY <3>1 DEF Receive, Goto, Answer, ApiTypeOK
    <3>2. CASE ApiGetUser(r)
      <4>1. Goto(r, "app") \/ Answer(r, 404) BY <3>2 DEF ApiGetUser
      <4> QED BY <4>1 DEF Goto, Answer, ApiTypeOK
    <3>3. CASE ApiGetApplication(r)
      <4>1. \/ Goto(r, IF ViaSubmit(r) THEN "enqueue" ELSE "save")
            \/ Answer(r, 400) \/ Answer(r, 404)
        BY <3>3 DEF ApiGetApplication
      <4> QED BY <4>1 DEF Goto, Answer, ApiTypeOK
    <3>4. CASE SaveInput(r) BY <3>4 DEF SaveInput, Goto, ApiTypeOK
    <3>5. CASE Enqueue(r)
      <4>1. \/ ~ViaSubmit(r) /\ Goto(r, "stat")
            \/ Answer(r, 200) \/ Answer(r, 500)
        BY <3>5 DEF Enqueue
      <4> QED BY <4>1 DEF Goto, Answer, ApiTypeOK
    <3>6. CASE IncrementProcessed(r)
      BY <3>6 DEF IncrementProcessed, Answer, ApiTypeOK
    <3> QED BY <1>2, <3>1, <3>2, <3>3, <3>4, <3>5, <3>6 DEF Handle
  <2> QED BY <2>1, <2>2 DEF Marked, ViaSubmit
<1> QED BY <1>1, <1>2 DEF ApiStep

LEMMA TallyApi ==
    ASSUME Base, Marked, ~disturbed => Calm, ApiStep, UNCHANGED workerVars
    PROVE  Tally
BY TallyBefore, TallySave, TallyEnqueue, TallyProcessed, TallyCrash
   DEF ApiStep, Handle, Tally

-----------------------------------------------------------------------------
(* The worker's steps leave the API's sets as they are; what has been        *)
(* counted as sent grows by what IncrementSent counts, or by what is lost.   *)

LEMMA WorkerSets ==
    ASSUME UNCHANGED apiVars, Kept
    PROVE  \A a : /\ Queued(a)' = Queued(a)
                  /\ Saved(a)' = Saved(a)
                  /\ Processed(a)' = Processed(a)
BY DEF Queued, Saved, Counts, Processed, Token, ViaSubmit, apiVars, Kept

LEMMA OthersStay ==
    ASSUME Base, NEW h \in Handlers, HandleMessage(h)
    PROVE  \A g \in Handlers : g # h => at'[g] = at[g] /\ job'[g] = job[g] /\ try'[g] = try[g]
<1>1. Advances(h) \/ Ends(h) BY HandlerForms
<1> QED BY <1>1 DEF Advances, Ends, End, Base, TypeOK, WorkerTypeOK

\* What an attempt delivers is new, and it is counted next, if it counts at all
\* and its handler learns of it.
LEMMA Delivers ==
    ASSUME Base, Numbered, Kept, NEW h \in Handlers, HandlerStep(h), at[h] # "stat"
    PROVE  /\ stats' = stats
           /\ \A a \in Apps : /\ Counted(a) \subseteq Counted(a)'
                              /\ ~disturbed' => Counted(a)' = Counted(a)
<1> USE DEF Base, TypeOK
<1> DEFINE p == <<job[h], try[h]>>
<1>1. HandleMessage(h) /\ UNCHANGED apiVars BY DEF HandlerStep
<1>2. \A a : Queued(a)' = Queued(a) BY <1>1, WorkerSets
<1>3. at[h] # "idle" /\ job[h] \in Requests BY <1>1, HandlerForms DEF HandlerInv
<1>4. stats' = stats
  BY <1>1
  DEF HandleMessage, WorkerGetApplication, WorkerGetTarget, Execute, IncrementSent,
      Return, Read
<1>5. \/ /\ written' = written
         /\ at'[h] # "stat"
      \/ /\ at[h] = "execute" /\ Wrote(h)
         /\ job'[h] = job[h] /\ try'[h] = try[h]
         /\ at'[h] = "stat"
      \/ /\ Wrote(h)
         /\ at'[h] # "stat"
         /\ ViaSubmit(job[h]) \/ disturbed'
  <2>1. CASE Execute(h)
    <3>1. IsViaSubmit(h) <=> ViaSubmit(job[h])
      BY <1>3, PayloadSays DEF HandlerInv, TaskInv, IsViaSubmit
    <3>2. CASE Wrote(h) /\ GoOn(h, IF IsViaSubmit(h) THEN "return" ELSE "stat")
      BY <2>1, <3>1, <3>2 DEF Execute, GoOn, WorkerTypeOK
    <3>3. CASE Wrote(h) /\ Fail(h) /\ Read(FALSE)
      <4>1. disturbed' BY <3>3 DEF Read, Noted
      <4>2. at'[h] # "stat" BY <3>3 DEF Fail, End, WorkerTypeOK
      <4> QED BY <3>3, <4>1, <4>2
    <3>4. CASE Fail(h) /\ UNCHANGED outcomeVars
      BY <3>4 DEF Fail, End, WorkerTypeOK, outcomeVars
    <3> QED BY <2>1, <3>2, <3>3, <3>4 DEF Execute
  <2>2. CASE ~Execute(h)
    <3>1. written' = written
      BY <1>1, <2>2
      DEF HandleMessage, WorkerGetApplication, WorkerGetTarget, IncrementSent, Return,
          Disregard, outcomeVars
    <3>2. at'[h] # "stat"
      BY <1>1, <2>2
      DEF HandleMessage, WorkerGetApplication, WorkerGetTarget, IncrementSent, Return,
          Disregard, Fail, GoOn, End, WorkerTypeOK
    <3> QED BY <3>1, <3>2
  <2> QED BY <2>1, <2>2
<1>6. Uncounted' = IF at'[h] = "stat" THEN Uncounted \cup {p} ELSE Uncounted
  BY <1>1, <1>5, OthersStay DEF Uncounted
<1>7. ASSUME NEW a \in Apps
      PROVE  /\ Counted(a) \subseteq Counted(a)'
             /\ ~disturbed' => Counted(a)' = Counted(a)
  <2>1. /\ Deliveries(a) \subseteq Deliveries(a)'
        /\ Deliveries(a)' \subseteq Deliveries(a) \cup {p}
        /\ written' = written \/ ViaSubmit(job[h]) => Deliveries(a)' = Deliveries(a)
    <3>1. \A r \in Queued(a) :
             /\ written[r] \subseteq written'[r]
             /\ written'[r] \subseteq written[r] \cup (IF r = job[h] THEN {try[h]} ELSE {})
             /\ written' = written \/ ViaSubmit(job[h]) => written'[r] = written[r]
      BY <1>3, <1>5 DEF Wrote, Queued, WorkerTypeOK
    <3> QED BY <1>2, <3>1 DEF Deliveries
  <2>2. at[h] = "execute" => p \notin Deliveries(a)
    BY DeliveryIs DEF Numbered
  <2> QED BY <1>5, <1>6, <2>1, <2>2 DEF Counted
<1> QED BY <1>4, <1>7

\* IncrementSent counts its attempt, which no other handler counts.
LEMMA Sends ==
    ASSUME Base, Numbered, Kept, ~disturbed => Calm, NEW h \in Handlers, NEW a \in Apps,
           IncrementSent(h), UNCHANGED apiVars
    PROVE  Lags(a) /\ (DatabaseEnable /\ ~disturbed' => Follows(a))
<1> USE DEF Base, TypeOK
<1> DEFINE p == <<job[h], try[h]>>
           t == Token(job[h])
<1>1. /\ at[h] = "stat" /\ at'[h] = "return" /\ written' = written
      /\ \A g \in Handlers : g # h => at'[g] = at[g] /\ job'[g] = job[g] /\ try'[g] = try[g]
  BY DEF IncrementSent, GoOn, outcomeVars, WorkerTypeOK
<1>2. /\ job[h] \in Requests /\ state[job[h]] # "none" /\ ~ViaSubmit(job[h])
      /\ try[h] \in written[job[h]] /\ payload[job[h]].token = t /\ t \in Apps
  BY <1>1, PayloadSays, PayloadType DEF HandlerInv, TaskInv, Numbered
<1>3. PICK ok \in Outcomes : Count(t, "sent", ok) BY <1>2 DEF IncrementSent
<1>4. ok \in BOOLEAN BY DEF Outcomes
<1>5. /\ stats'[a].received = stats[a].received
      /\ stats'[a].processed = stats[a].processed
      /\ a # t => stats'[a].sent = stats[a].sent
      /\ stats'[t].sent \in {stats[t].sent, stats[t].sent + 1}
      /\ DatabaseEnable /\ app[t].live /\ ~disturbed' => stats'[t].sent = stats[t].sent + 1
  <2>1. StoreTypeOK /\ stats[t] \in [received: Nat, processed: Nat, sent: Nat]
    BY <1>2 DEF StoreTypeOK
  <2>2. /\ a # t => stats'[a] = stats[a]
        /\ stats'[t] \in {stats[t], [stats[t] EXCEPT !["sent"] = @ + 1]}
        /\ DatabaseEnable /\ app[t].live /\ ~disturbed'
              => stats'[t] = [stats[t] EXCEPT !["sent"] = @ + 1]
    BY <1>2, <1>3, <1>4, <2>1, CountEffect
  <2> QED BY <2>1, <2>2, OneCounter
<1>6. ~disturbed' => app[t].live
  BY <1>2, <1>3 DEF Count, Noted, StoreTypeOK, Calm, RowsKnown
<1>7. /\ Queued(a)' = Queued(a)
      /\ Saved(a)' = Saved(a)
      /\ Processed(a)' = Processed(a)
  BY WorkerSets
<1>8. Deliveries(a)' = Deliveries(a)
  <2>1. \A c : c \in Deliveries(a)' <=> c \in Deliveries(a) BY <1>1, <1>7, DeliveryIs
  <2> QED BY <2>1
<1>9. p \in Uncounted /\ Uncounted' = Uncounted \ {p}
  <2>1. \A g \in Handlers : g # h /\ at[g] = "stat" => <<job[g], try[g]>> # p
    BY <1>1 DEF Numbered
  <2> QED BY <1>1, <2>1 DEF Uncounted
<1>10. p \in Deliveries(a) <=> a = t BY <1>2, DeliveryIs DEF Queued
<1>11. /\ p \notin Counted(a)
       /\ Counted(a)' = IF a = t THEN Counted(a) \cup {p} ELSE Counted(a)
  BY <1>8, <1>9, <1>10 DEF Counted
<1>12. Lags(a) BY <1>5, <1>7, <1>11, StatsAreNat DEF Lags, Behind
<1>13. DatabaseEnable /\ ~disturbed' => Follows(a)
  BY <1>5, <1>6, <1>7, <1>11 DEF Follows, InStep
<1> QED BY <1>12, <1>13

LEMMA TallyHandler ==
    ASSUME Base, Numbered, Kept, ~disturbed => Calm, NEW h \in Handlers, HandlerStep(h)
    PROVE  Tally
<1>1. UNCHANGED apiVars /\ HandleMessage(h) BY DEF HandlerStep
<1>2. CASE at[h] = "stat"
  <2>1. IncrementSent(h)
    BY <1>1, <1>2
    DEF HandleMessage, WorkerGetApplication, WorkerGetTarget, Execute, Return
  <2> QED BY <1>1, <2>1, Sends DEF Tally
<1>3. CASE at[h] # "stat"
  <2>1. stats' = stats BY <1>3, Delivers
  <2>2. ASSUME NEW a \in Apps
        PROVE  Lags(a) /\ (~disturbed' => Follows(a))
    <3>1. /\ Counted(a) \subseteq Counted(a)'
          /\ ~disturbed' => Counted(a)' = Counted(a)
      BY <1>3, Delivers
    <3>2. Saved(a)' = Saved(a) /\ Processed(a)' = Processed(a) BY <1>1, WorkerSets
    <3>3. Lags(a) BY <2>1, <3>1, <3>2, StatsAreNat DEF Lags, Behind, Base, TypeOK
    <3>4. ~disturbed' => Follows(a) BY <2>1, <3>1, <3>2 DEF Follows, InStep
    <3> QED BY <3>3, <3>4
  <2> QED BY <2>2 DEF Tally
<1> QED BY <1>2, <1>3

\* The server takes tasks, takes them back and gives attempts up: nothing is
\* delivered or counted, and only a crash loses what was about to be counted.
LEMMA TallyServer ==
    ASSUME Base, Kept, UNCHANGED apiVars, ~disturbed' => Calm,
           \/ \E r \in Requests : DequeueStep(r) \/ RecoverStep(r)
           \/ StartStep \/ ExitStep \/ OutageStep
    PROVE  Tally
<1> USE DEF Base, TypeOK
<1>1. /\ stats' = stats /\ written' = written
      /\ Uncounted' \subseteq Uncounted
      /\ ~disturbed' => Uncounted' = Uncounted
  <2>1. CASE \E r \in Requests : DequeueStep(r)
    <3>1. PICK r \in Requests, h \in Handlers : Dequeue(h, r) BY <2>1 DEF DequeueStep
    <3>2. /\ at[h] = "idle" /\ at'[h] = "app"
          /\ \A g \in Handlers : g # h => at'[g] = at[g] /\ job'[g] = job[g] /\ try'[g] = try[g]
      BY <3>1 DEF Dequeue, Begin, WorkerTypeOK
    <3> QED BY <3>1, <3>2 DEF Dequeue, Uncounted, storeVars, outcomeVars
  <2>2. CASE \E r \in Requests : RecoverStep(r)
    BY <2>2
    DEF RecoverStep, Recover, Uncounted, storeVars, workerVars, handlerVars, outcomeVars
  <2>3. CASE StartStep \/ Stop
    BY <2>3 DEF StartStep, Start, Stop, Uncounted, storeVars, handlerVars, outcomeVars
  <2>4. CASE \E h \in Handlers : Detach(h)
    BY <2>4 DEF Detach, Uncounted, Read
  <2>5. CASE Exit
    <3>1. Uncounted' = {} BY <2>5 DEF Exit, AllGone, Uncounted
    <3>2. Calm => Uncounted = {}
      BY <2>5 DEF Exit, Busy, Calm, AllCount, Uncounted
    <3> QED BY <2>5, <3>1, <3>2 DEF Exit, storeVars, outcomeVars
  <2>6. CASE CrashWorker
    <3>1. Uncounted' = {} BY <2>6 DEF CrashWorker, AllGone, Uncounted
    <3>2. disturbed' BY <2>6 DEF CrashWorker, Read, Noted
    <3> QED BY <2>6, <3>1, <3>2 DEF CrashWorker, Read
  <2> QED BY <2>1, <2>2, <2>3, <2>4, <2>5, <2>6 DEF ExitStep, OutageStep
<1>2. ASSUME NEW a \in Apps
      PROVE  Lags(a) /\ (~disturbed' => Follows(a))
  <2>1. /\ Queued(a)' = Queued(a) /\ Saved(a)' = Saved(a)
        /\ Processed(a)' = Processed(a)
    BY WorkerSets
  <2>2. Deliveries(a)' = Deliveries(a)
    <3>1. \A c : c \in Deliveries(a)' <=> c \in Deliveries(a) BY <1>1, <2>1, DeliveryIs
    <3> QED BY <3>1
  <2>3. /\ Counted(a) \subseteq Counted(a)'
        /\ ~disturbed' => Counted(a)' = Counted(a)
    BY <1>1, <2>2 DEF Counted
  <2>4. Lags(a) BY <1>1, <2>1, <2>3, StatsAreNat DEF Lags, Behind
  <2>5. ~disturbed' => Follows(a) BY <1>1, <2>1, <2>3 DEF Follows, InStep
  <2> QED BY <2>4, <2>5
<1> QED BY <1>2 DEF Tally

\* An edit may only take a row away, and its counters with it.
LEMMA TallyEdit ==
    ASSUME Base, Edit, UNCHANGED <<queueVars, apiVars, workerVars>>
    PROVE  Tally
<1> USE DEF Base, TypeOK
<1>1. disturbed' BY DEF Edit, EditUser, EditApp, EditTarget, Edited
<1>2. ASSUME NEW a \in Apps
      PROVE  stats'[a] \in {stats[a], Zero}
  <2>1. stats' = stats \/ \E b \in Apps : stats' = [stats EXCEPT ![b] = Zero]
    BY DEF Edit, EditUser, EditApp, EditTarget
  <2> QED BY <1>2, <2>1 DEF StoreTypeOK
<1>3. ASSUME NEW a \in Apps
      PROVE  Lags(a)
  <2>1. /\ Processed(a)' = Processed(a)
        /\ Counted(a)' = Counted(a)
    BY DEF Processed, Counted, Deliveries, Uncounted, Queued, Token, ViaSubmit, queueVars,
           apiVars, workerVars, handlerVars, outcomeVars
  <2>2. /\ stats[a].processed \in Nat /\ stats[a].sent \in Nat
        /\ stats'[a].processed \in {stats[a].processed, 0}
        /\ stats'[a].sent \in {stats[a].sent, 0}
    BY <1>2, StatsAreNat DEF Zero
  <2> QED BY <2>1, <2>2 DEF Lags, Behind
<1> QED BY <1>1, <1>3 DEF Tally

LEMMA TallyStutter ==
    ASSUME Base, UNCHANGED vars
    PROVE  Tally
<1>1. \A a : /\ Saved(a)' = Saved(a) /\ Processed(a)' = Processed(a)
             /\ Counted(a)' = Counted(a) /\ stats' = stats
  BY DEF Saved, Counts, Processed, Counted, Deliveries, Uncounted, Queued, Token, ViaSubmit,
         vars, storeVars, queueVars, apiVars, workerVars, handlerVars, outcomeVars
<1> QED BY <1>1, StatsAreNat DEF Tally, Lags, Follows, Behind, InStep, Base, TypeOK

-----------------------------------------------------------------------------
(* The invariant.                                                            *)

TallyInv == Base /\ CalmInv /\ Numbered /\ Marked /\ Finite /\ Backed /\ Exact

LEMMA TallyNext ==
    ASSUME Base, CalmInv, Numbered, Marked, [Next]_vars
    PROVE  Tally /\ Marked'
<1>1. CASE ApiStep /\ UNCHANGED workerVars
  BY <1>1, TallyApi, MarkedApi DEF CalmInv
<1>2. CASE ~(ApiStep /\ UNCHANGED workerVars)
  <2>1. UNCHANGED apiVars /\ Kept BY <1>2, WorkerKeeps
  <2>2. Marked' BY <2>1 DEF Marked, ViaSubmit, apiVars
  <2>3. CASE \E h \in Handlers : HandlerStep(h)
    BY <2>1, <2>2, <2>3, TallyHandler DEF CalmInv
  <2>4. CASE Edit /\ UNCHANGED <<queueVars, apiVars, workerVars>>
    BY <2>2, <2>4, TallyEdit
  <2>5. CASE \/ \E r \in Requests : DequeueStep(r) \/ RecoverStep(r)
             \/ StartStep \/ ExitStep \/ OutageStep
    <3>1. ~disturbed' => Calm BY <2>5, Undisturbed DEF Next, CalmInv
    <3> QED BY <2>1, <2>2, <2>5, <3>1, TallyServer
  <2>6. CASE UNCHANGED vars BY <2>2, <2>6, TallyStutter
  <2> QED BY <1>2, <2>3, <2>4, <2>5, <2>6 DEF Next
<1> QED BY <1>1, <1>2 DEF Next

\* A step adds at most one request and one delivery.
LEMMA FiniteNext ==
    ASSUME Base, Finite, [Next]_vars
    PROVE  Finite'
<1> USE DEF Base, TypeOK
<1>1. CASE \E r \in Requests : Handle(r) /\ UNCHANGED workerVars
  <2>1. PICK r \in Requests : Handle(r) /\ UNCHANGED workerVars BY <1>1
  <2>2. /\ input' = input
        /\ \A q \in Requests : q # r => pc'[q] = pc[q] /\ state'[q] = state[q]
        /\ UNCHANGED queueVars \/ (pc[r] = "enqueue" /\ Put(r, Payload(r)))
    BY <2>1, RequestMoves
  <2>3. ASSUME NEW a \in Apps
        PROVE  /\ IsFiniteSet(Saved(a)') /\ IsFiniteSet(Queued(a)')
               /\ IsFiniteSet(Deliveries(a)')
    <3>1. Saved(a)' \subseteq Saved(a) \cup {r}
      BY <2>2 DEF Saved, Counts, Token, ViaSubmit
    <3>2. /\ Queued(a)' \subseteq Queued(a) \cup {r}
          /\ Queued(a) \subseteq Queued(a)'
          /\ \A q \in Queued(a)' : q \in Queued(a) \/ written[q] = {}
      BY <2>2
      DEF Queued, Token, ViaSubmit, ApiInv, TaskInv, Put, queueVars, QueueTypeOK
    <3>3. Deliveries(a)' = Deliveries(a)
      BY <2>1, <3>2, ApiDelivers DEF workerVars, handlerVars, outcomeVars
    <3> QED BY <3>1, <3>2, <3>3, FinitePlus DEF Finite
  <2> QED BY <2>3 DEF Finite
<1>2. CASE CrashApi /\ UNCHANGED workerVars
  <2>1. \A a : /\ Saved(a)' \subseteq Saved(a) /\ Queued(a)' = Queued(a)
               /\ Deliveries(a)' = Deliveries(a)
    BY <1>2
    DEF CrashApi, Saved, Counts, Queued, Deliveries, Token, ViaSubmit, queueVars,
        workerVars, outcomeVars, ApiTypeOK
  <2> QED BY <2>1, FS_Subset DEF Finite
<1>3. CASE ~(ApiStep /\ UNCHANGED workerVars)
  <2>1. UNCHANGED apiVars /\ Kept BY <1>3, WorkerKeeps
  <2>2. PICK h, i : \A r \in Requests :
            written'[r] \subseteq written[r] \cup (IF r = h THEN {i} ELSE {})
    <3>1. CASE \E h \in Handlers : HandlerStep(h)
      <4>1. PICK h \in Handlers : HandleMessage(h) BY <3>1 DEF HandlerStep
      <4>2. /\ written' \in {written, [written EXCEPT ![job[h]] = @ \cup {try[h]}]}
            /\ job[h] \in Requests
        BY <4>1, HandlerForms DEF HandlerInv
      <4>3. \A r \in Requests :
               written'[r] \subseteq written[r] \cup (IF r = job[h] THEN {try[h]} ELSE {})
        BY <4>2 DEF WorkerTypeOK
      <4> QED BY <4>3
    <3>2. CASE written' = written BY <3>2
    <3> QED BY <1>3, <3>1, <3>2
         DEF Next, vars, DequeueStep, Dequeue, RecoverStep, Recover, StartStep, Start,
             ExitStep, Exit, OutageStep, Stop, CrashWorker, Detach, workerVars, outcomeVars
  <2>3. ASSUME NEW a \in Apps
        PROVE  /\ IsFiniteSet(Saved(a)') /\ IsFiniteSet(Queued(a)')
               /\ IsFiniteSet(Deliveries(a)')
    <3>1. Saved(a)' = Saved(a) /\ Queued(a)' = Queued(a) BY <2>1, WorkerSets
    <3>2. Deliveries(a)' \subseteq Deliveries(a) \cup {<<h, i>>}
      <4>1. \A r \in Queued(a) :
               written'[r] \subseteq written[r] \cup (IF r = h THEN {i} ELSE {})
        BY <2>2 DEF Queued
      <4> QED BY <3>1, <4>1 DEF Deliveries
    <3> QED BY <3>1, <3>2, FinitePlus DEF Finite
  <2> QED BY <2>3 DEF Finite
<1> QED BY <1>1, <1>2, <1>3 DEF Next, ApiStep

LEMMA BackedExactNext ==
    ASSUME Base, Finite, Backed, Exact, Tally, Finite', Base', ~disturbed' => ~disturbed
    PROVE  Backed' /\ Exact'
<1> USE DEF Base, TypeOK
<1>1. ASSUME NEW a \in Apps
      PROVE  /\ stats'[a].processed <= Cardinality(Processed(a)')
             /\ stats'[a].sent <= Cardinality(Counted(a)')
  <2>1. /\ Behind(stats[a].processed, stats'[a].processed, Processed(a), Processed(a)')
        /\ Behind(stats[a].sent, stats'[a].sent, Counted(a), Counted(a)')
    BY DEF Tally, Lags
  <2>2. IsFiniteSet(Processed(a)') /\ IsFiniteSet(Counted(a)')
    <3>1. IsFiniteSet(Queued(a)') /\ IsFiniteSet(Deliveries(a)') BY DEF Finite
    <3>2. Processed(a)' \subseteq Queued(a)' /\ Counted(a)' \subseteq Deliveries(a)'
      BY DEF Processed, Counted
    <3> QED BY <3>1, <3>2, FS_Subset
  <2>3. /\ stats[a].processed \in Nat /\ stats'[a].processed \in Nat
        /\ stats[a].sent \in Nat /\ stats'[a].sent \in Nat
    BY DEF StoreTypeOK
  <2>4. /\ stats[a].processed <= Cardinality(Processed(a))
        /\ stats[a].sent <= Cardinality(Counted(a))
    BY DEF Backed
  <2>5. stats'[a].processed <= Cardinality(Processed(a)')
    BY <2>1, <2>2, <2>3, <2>4, StaysBehind
  <2>6. stats'[a].sent <= Cardinality(Counted(a)')
    BY <2>1, <2>2, <2>3, <2>4, StaysBehind
  <2> QED BY <2>5, <2>6
<1>2. ASSUME NEW a \in Apps, DatabaseEnable, ~disturbed'
      PROVE  /\ stats'[a].received = Cardinality(Saved(a)')
             /\ stats'[a].processed = Cardinality(Processed(a)')
             /\ stats'[a].sent = Cardinality(Counted(a)')
  <2>1. Follows(a) BY <1>2 DEF Tally
  <2>2. /\ IsFiniteSet(Saved(a)) /\ IsFiniteSet(Processed(a)) /\ IsFiniteSet(Counted(a))
    <3>1. /\ IsFiniteSet(Saved(a)) /\ IsFiniteSet(Queued(a))
          /\ IsFiniteSet(Deliveries(a))
      BY DEF Finite
    <3>2. Processed(a) \subseteq Queued(a) /\ Counted(a) \subseteq Deliveries(a)
      BY DEF Processed, Counted
    <3> QED BY <3>1, <3>2, FS_Subset
  <2>3. /\ stats[a].received = Cardinality(Saved(a))
        /\ stats[a].processed = Cardinality(Processed(a))
        /\ stats[a].sent = Cardinality(Counted(a))
    BY <1>2 DEF Exact
  <2> QED BY <2>1, <2>2, <2>3, StaysInStep DEF Follows
<1> QED BY <1>1, <1>2 DEF Backed, Exact

LEMMA TallyInit == Init => Marked /\ Finite /\ Backed /\ Exact
<1> SUFFICES ASSUME Init PROVE Marked /\ Finite /\ Backed /\ Exact OBVIOUS
<1>1. \A a : /\ Saved(a) = {} /\ Queued(a) = {} /\ Processed(a) = {}
             /\ Deliveries(a) = {} /\ Counted(a) = {}
  BY DEF Init, ApiInit, QueueInit, Saved, Queued, Processed, Deliveries, Counted
<1>2. IsFiniteSet({}) /\ Cardinality({}) = 0 BY FS_EmptySet
<1>3. \A a \in Apps : /\ stats[a].received = 0
                      /\ stats[a].processed = 0
                      /\ stats[a].sent = 0
  BY DEF Init, StoreInit, Zero
<1>4. Marked BY DEF Init, ApiInit, Marked
<1>5. Finite BY <1>1, <1>2 DEF Finite
<1>6. Backed
  <2>1. \A a \in Apps : Cardinality(Processed(a)) = 0 /\ Cardinality(Counted(a)) = 0
    BY <1>1, <1>2
  <2> QED BY <1>3, <2>1 DEF Backed
<1>7. Exact
  <2>1. \A a \in Apps : /\ Cardinality(Saved(a)) = 0
                        /\ Cardinality(Processed(a)) = 0
                        /\ Cardinality(Counted(a)) = 0
    BY <1>1, <1>2
  <2> QED BY <1>3, <2>1 DEF Exact
<1> QED BY <1>4, <1>5, <1>6, <1>7

LEMMA TallyAlways == Spec => []TallyInv
<1>1. Init => TallyInv
  <2>1. Init => Numbered BY DEF Init, WorkerInit, AllIdle, Numbered
  <2> QED BY <2>1, BaseInit, CalmInit, TallyInit DEF TallyInv
<1>2. TallyInv /\ [Next]_vars => TallyInv'
  <2> SUFFICES ASSUME TallyInv, [Next]_vars PROVE TallyInv' OBVIOUS
  <2> USE DEF TallyInv
  <2>1. Base' /\ CalmInv' BY BaseNext, CalmNext
  <2>2. Numbered' BY NumberedNext
  <2>3. Tally /\ Marked' BY TallyNext
  <2>4. Finite' BY FiniteNext
  <2>5. ~disturbed' => ~disturbed BY Undisturbed DEF vars, storeVars
  <2>6. Backed' /\ Exact' BY <2>1, <2>3, <2>4, <2>5, BackedExactNext
  <2> QED BY <2>1, <2>2, <2>3, <2>4, <2>6
<1> QED BY <1>1, <1>2, PTL DEF Spec

-----------------------------------------------------------------------------

\* "processed" never exceeds the tasks the handler has queued, "sent" never the
\* deliveries made, whatever fails, is retried or edited (IncrementStat after the
\* Enqueue, routes.go 290-300, and after the Execute, worker.go 248-258).
THEOREM CountersBacked == Spec => []StatsBacked
<1>1. TallyInv => StatsBacked
  <2> SUFFICES ASSUME TallyInv, NEW a \in Apps
               PROVE  /\ stats[a].processed <= Cardinality(Queued(a))
                      /\ stats[a].sent <= Cardinality(Deliveries(a))
    BY DEF StatsBacked
  <2>1. IsFiniteSet(Queued(a)) /\ IsFiniteSet(Deliveries(a)) BY DEF TallyInv, Finite
  <2>2. Processed(a) \subseteq Queued(a) /\ Counted(a) \subseteq Deliveries(a)
    BY DEF Processed, Counted
  <2>3. /\ Cardinality(Processed(a)) <= Cardinality(Queued(a))
        /\ Cardinality(Counted(a)) <= Cardinality(Deliveries(a))
    BY <2>1, <2>2, FS_Subset
  <2>4. /\ Cardinality(Processed(a)) \in Nat /\ Cardinality(Queued(a)) \in Nat
        /\ Cardinality(Counted(a)) \in Nat /\ Cardinality(Deliveries(a)) \in Nat
    BY <2>1, <2>2, FS_Subset, FS_CardinalityType
  <2>5. /\ stats[a].processed <= Cardinality(Processed(a))
        /\ stats[a].sent <= Cardinality(Counted(a))
        /\ stats[a].processed \in Nat /\ stats[a].sent \in Nat
    BY StatsAreNat DEF TallyInv, Backed, Base, TypeOK
  <2> QED BY <2>3, <2>4, <2>5
<1> QED BY <1>1, TallyAlways, PTL

\* While no fault and no edit has happened, and with nothing in flight, the three
\* counters are exact: each message that was queued has been counted as received
\* and as processed, and each delivery as sent (SaveInput, routes.go 154-162, and
\* the two calls of IncrementStat).
THEOREM CountersExact == Spec => []StatsExact
<1>1. TallyInv => StatsExact
  <2> SUFFICES ASSUME TallyInv, DatabaseEnable, ~disturbed, Quiet, NEW a \in Apps
               PROVE  /\ stats[a].received = Cardinality(Queued(a))
                      /\ stats[a].processed = Cardinality(Queued(a))
                      /\ stats[a].sent = Cardinality(Deliveries(a))
    BY DEF StatsExact
  <2>1. Saved(a) = Queued(a) /\ Processed(a) = Queued(a)
    BY DEF Saved, Counts, Processed, Queued, Quiet
  <2>2. Counted(a) = Deliveries(a) BY DEF Counted, Uncounted, Quiet
  <2> QED BY <2>1, <2>2 DEF TallyInv, Exact
<1> QED BY <1>1, TallyAlways, PTL

\* A target gets a message once per attempt at most, and attempts are the first
\* one, MaxRetry retries (routes.go 260) and those a shutdown cut short.
THEOREM NeverMoreThanAttempts == Spec => []DeliveriesBounded
<1>1. TallyInv /\ AttemptsAddUp => DeliveriesBounded
  <2> SUFFICES ASSUME TallyInv, AttemptsAddUp, NEW r \in Requests
               PROVE  Cardinality(written[r]) <= 1 + MaxRetry + requeued[r]
    BY DEF DeliveriesBounded
  <2> USE DEF TallyInv, Base, TypeOK
  <2>1. attempts[r] \in Nat /\ requeued[r] \in Nat /\ written[r] \subseteq Nat
    BY DEF QueueTypeOK, WorkerTypeOK
  <2>2. attempts[r] <= 1 + MaxRetry + requeued[r]
    BY QueueAssumption DEF AttemptsAddUp, QueueTypeOK, QueueAssumption
  <2>3. written[r] \subseteq 1..attempts[r] BY <2>1 DEF Numbered
  <2>4. /\ IsFiniteSet(1..attempts[r])
        /\ Cardinality(1..attempts[r]) = attempts[r]
    <3>1. /\ IsFiniteSet(1..attempts[r])
          /\ Cardinality(1..attempts[r]) =
                IF 1 > attempts[r] THEN 0 ELSE attempts[r] - 1 + 1
      <4>1. 1 \in Int /\ attempts[r] \in Int BY <2>1
      <4> QED BY <4>1, FS_Interval
    <3> QED BY <2>1, <3>1
  <2>5. /\ Cardinality(written[r]) <= attempts[r]
        /\ Cardinality(written[r]) \in Nat
    BY <2>3, <2>4, FS_Subset, FS_CardinalityType
  <2> QED BY <2>1, <2>2, <2>5, QueueAssumption DEF QueueAssumption
<1> QED BY <1>1, TallyAlways, AllAttemptsUsed, PTL

=============================================================================

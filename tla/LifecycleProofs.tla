--------------------------- MODULE LifecycleProofs ---------------------------
(***************************************************************************)
(* Proofs about the life of the process, for any number of requests and of *)
(* attempts and for every configuration.                                   *)
(*                                                                         *)
(* The argument: what the worker and the server have set up is known from  *)
(* where their goroutines are (WorkerUp, ServerUp), what has been shut     *)
(* down from where main is (WorkerDown, ServerDown); and a shutdown that   *)
(* was not early finds goroutines that set up nothing more (Orderly).      *)
(***************************************************************************)
EXTENDS Lifecycle, TLAPS

Hearing == {"serving", "closing", "draining", "returned"}

\* main has left wrk.redis.Shutdown(), ShutdownAll, repos.Shutdown(), and so on.
PastServer   == {"targets", "repos", "queries", "app", "handlers", "apiRepos", "apiQueries"}
PastTargets  == {"repos", "queries", "app", "handlers", "apiRepos", "apiQueries"}
PastRepos    == {"queries", "app", "handlers", "apiRepos", "apiQueries"}
PastListener == {"handlers", "apiRepos", "apiQueries"}
PastApp      == {"apiRepos", "apiQueries"}
Stopping     == {"stop", "drain"} \cup PastServer

WorkerUp ==
    /\ wrk \in {"targets", "server", "run"} \cup Hearing => WorkerRuns
    /\ main = "worker" => wrk = "none"
    /\ wrk \in {"none", "repos"} => wrkRepos = "nil"
    /\ wrk = "targets" => wrkRepos # "nil"
    /\ wrk \in {"server", "run"} \cup Hearing => wrkRepos # "nil" /\ targets # "none"
    /\ wrk = "failed" => wrkRepos # "open"
    /\ wrk = "off" => ~WorkerRuns
    /\ srv = "nil" <=> wrk \notin {"run"} \cup Hearing
    /\ srv = "new" <=> wrk = "run"
    /\ srv = "closed" => lead \in {"main", "asynq"}
    /\ wrk \notin {"server", "run"} \cup Hearing => targets = "none"
    /\ \A s \in Slots : slot[s] # "idle" => srv \in {"active", "closed"}

WorkerDown ==
    /\ main \in {"drain", "targets", "repos"} => WorkerRuns
    /\ main = "drain" => srv = "closed"
    /\ lead = "main" => main \in {"drain"} \cup PastServer
    /\ main \in PastServer /\ WorkerRuns => srv # "nil"
    /\ main \in PastTargets /\ WorkerRuns => targets = "closed"
    /\ main \in PastRepos /\ WorkerRuns => wrkRepos = "closed"
    /\ targets = "closed" => main \in PastTargets /\ WorkerRuns
    /\ process = "exited" => main \in PastRepos

ServerUp ==
    /\ main \in {"worker", "api"} => api = "none"
    /\ api \in {"repos", "listen", "listening", "returned", "failed"} => cfg.server
    /\ api \in {"none", "client", "repos", "off", "failed"} => apiRepos = "nil"
    /\ api = "failed" => client # "open"
    /\ api = "off" => ~cfg.server
    /\ listening => api = "listening"
    /\ api \in {"listen", "listening", "returned"} => apiRepos # "nil"
    /\ \A r \in Requests : at[r] # "idle" => api \in {"listening", "returned"}
    /\ ~cfg.testing => \A r \in Requests : at[r] # "panicked"

ServerDown ==
    /\ main \in PastListener => cfg.server
    /\ main \notin PastListener =>
         /\ api = "listening" => listening
         /\ api # "returned"
    /\ apiRepos = "closed" => main = "apiQueries"

\* A shutdown that found everything started.
Orderly ==
    ~early /\ main \in Stopping =>
        /\ wrk \in Hearing \cup {"off", "failed"}
        /\ api \in {"listening", "returned", "off", "failed"}
        /\ main \in PastServer /\ WorkerRuns =>
             srv = "closed" /\ (lead = "asynq" \/ attached = {})
        /\ main \in PastListener => ~listening
        /\ main \in PastApp => late \/ Handling = {}

Inv == TypeOK /\ WorkerUp /\ WorkerDown /\ ServerUp /\ ServerDown /\ Orderly

-----------------------------------------------------------------------------
(* Types.                                                                    *)

LEMMA GotoType ==
    ASSUME MainTypeOK, NEW call \in Calls, Goto(call)
    PROVE  MainTypeOK'
BY DEF MainTypeOK, Goto

LEMMA EndsType ==
    ASSUME MainTypeOK, NEW how \in {"exited", "failed"}, Ends(how)
    PROVE  MainTypeOK'
BY DEF MainTypeOK, Ends

LEMMA MainTypeKept ==
    ASSUME Inv, Next
    PROVE  MainTypeOK'
<1> USE DEF Inv, TypeOK, mainVars
<1>1. CASE StartWorker
  BY <1>1, GotoType, EndsType DEF Calls, StartWorker
<1>2. CASE StartApi
  <2>1. CASE Goto("notify") \/ Ends("failed") BY <2>1, GotoType, EndsType DEF Calls
  <2>2. CASE /\ abort' = TRUE /\ main' = "stop" /\ early' = ~Settled
             /\ UNCHANGED <<cfg, process, told>>
    <3>1. main' \in Calls BY <2>2 DEF Calls
    <3> QED BY <2>2, <3>1 DEF MainTypeOK
  <2> QED BY <1>2, <2>1, <2>2 DEF StartApi
<1>3. CASE Notify
  BY <1>3, GotoType, EndsType DEF Calls, Notify
<1>4. CASE Receive
  BY <1>4, GotoType, EndsType DEF Calls, Receive
<1>5. CASE \E sig \in Signals : Signal(sig)
  <2>1. PICK sig \in Signals : Signal(sig) BY <1>5
  <2>2. /\ process' \in {process, "killed"} /\ main' \in {main, "stop"}
        /\ told' = told \cup {sig} /\ UNCHANGED <<cfg, abort>>
    BY <2>1 DEF Signal
  <2>3. early' \in BOOLEAN BY <2>1 DEF Signal, MainTypeOK
  <2>4. told' \in SUBSET Signals BY <2>2 DEF MainTypeOK
  <2>5. process' \in {"up", "exited", "failed", "killed"} /\ main' \in Calls
    BY <2>2 DEF MainTypeOK, Calls
  <2> QED BY <2>2, <2>3, <2>4, <2>5 DEF MainTypeOK
<1>6. CASE StopServer
  BY <1>6, GotoType, EndsType DEF Calls, StopServer, AfterWorker
<1>7. CASE Drained
  BY <1>7, GotoType, EndsType DEF Calls, Drained
<1>8. CASE CloseTargets
  BY <1>8, GotoType, EndsType DEF Calls, CloseTargets
<1>9. CASE CloseWorkerRepos
  BY <1>9, GotoType, EndsType DEF Calls, CloseWorkerRepos
<1>10. CASE WorkerReposClosed
  BY <1>10, GotoType, EndsType DEF Calls, WorkerReposClosed, AfterWorker
<1>11. CASE StopApp
  BY <1>11, GotoType, EndsType DEF Calls, StopApp
<1>12. CASE HandlersDone
  BY <1>12, GotoType, EndsType DEF Calls, HandlersDone
<1>13. CASE CloseApiRepos
  BY <1>13, GotoType, EndsType DEF Calls, CloseApiRepos
<1>14. CASE ReturnMain
  BY <1>14, GotoType, EndsType DEF Calls, ReturnMain
<1>15. CASE RunTargets
  <2>1. UNCHANGED mainVars \/ Ends("failed") BY <1>15 DEF RunTargets
  <2> QED BY <2>1, EndsType DEF MainTypeOK
<1>16. CASE Listen
  <2>1. UNCHANGED mainVars \/ Ends("failed") BY <1>16 DEF Listen
  <2> QED BY <2>1, EndsType DEF MainTypeOK
<1>17. CASE \E r \in Requests : Lookup(r)
  <2>1. UNCHANGED mainVars \/ Ends("failed") BY <1>17 DEF Lookup, Answer, Crash
  <2> QED BY <2>1, EndsType DEF MainTypeOK
<1>18. CASE \E r \in Requests : CallWorker(r)
  <2>1. UNCHANGED mainVars \/ Ends("failed") BY <1>18 DEF CallWorker, Answer, Crash
  <2> QED BY <2>1, EndsType DEF MainTypeOK
<1>19. CASE UNCHANGED <<cfg, process, main, abort, told, early>> BY <1>19 DEF
     MainTypeOK
<1>20. CASE RunServer
  <2>1. UNCHANGED mainVars \/ Ends("failed") BY <1>20 DEF RunServer
  <2> QED BY <2>1, EndsType DEF MainTypeOK
<1> QED BY <1>1, <1>2, <1>3, <1>4, <1>5, <1>6, <1>7, <1>8, <1>9, <1>10, <1>11,
     <1>12, <1>13, <1>14, <1>15, <1>16, <1>17, <1>18, <1>19, <1>20 DEF Next,
     MainStep, WorkerStep, ApiStep, Handle, WorkerNewRepos, NewServer,
     AsynqShutdown, AsynqDrained, Take, AttemptStep, Abandon, NewClient,
     ApiNewRepos, ApiReturn, Accept, Found, Enqueue, Outcomes, Finish,
     Deferred, Answer

LEMMA WorkerTypeKept ==
    ASSUME Inv, Next
    PROVE  WorkerTypeOK'
<1> USE DEF Inv, TypeOK, WorkerTypeOK, Handles, Up, Goto, Ends, mainVars,
     wrkVars, tryVars, apiVars, reqVars
<1>1. CASE StartWorker BY <1>1 DEF StartWorker
<1>2. CASE \E sig \in Signals : Signal(sig) BY <1>2 DEF Signal
<1>3. CASE StopServer BY <1>3 DEF StopServer, AfterWorker
<1>4. CASE CloseTargets BY <1>4 DEF CloseTargets
<1>5. CASE CloseWorkerRepos BY <1>5 DEF CloseWorkerRepos
<1>6. CASE WorkerNewRepos BY <1>6 DEF WorkerNewRepos, Outcomes
<1>7. CASE RunTargets BY <1>7 DEF RunTargets
<1>8. CASE NewServer BY <1>8 DEF NewServer
<1>9. CASE RunServer BY <1>9 DEF RunServer
<1>10. CASE AsynqShutdown BY <1>10 DEF AsynqShutdown
<1>11. CASE AsynqDrained BY <1>11 DEF AsynqDrained
<1>12. CASE \E s \in Slots : Take(s) BY <1>12 DEF Take
<1>13. CASE \E s \in Slots : AttemptStep(s) BY <1>13 DEF AttemptStep, Finish
<1>14. CASE \E s \in Slots : Abandon(s) BY <1>14 DEF Abandon
<1>15. CASE UNCHANGED <<wrk, srv, lead, wrkRepos, targets, slot, attached>> BY
     <1>15
<1> QED BY <1>1, <1>2, <1>3, <1>4, <1>5, <1>6, <1>7, <1>8, <1>9, <1>10, <1>11,
     <1>12, <1>13, <1>14, <1>15 DEF Next, MainStep, WorkerStep, ApiStep,
     Handle, StartApi, Notify, Receive, Drained, WorkerReposClosed, StopApp,
     HandlersDone, CloseApiRepos, ReturnMain, NewClient, ApiNewRepos, Listen,
     ApiReturn, Accept, Lookup, Found, Enqueue, CallWorker, Outcomes, Deferred,
     Answer, Crash

LEMMA ServerTypeKept ==
    ASSUME Inv, Next
    PROVE  ServerTypeOK'
<1> USE DEF Inv, TypeOK, ServerTypeOK, Handles, Up, Goto, Ends, mainVars,
     wrkVars, tryVars, apiVars, reqVars
<1>1. CASE StartApi BY <1>1 DEF StartApi
<1>2. CASE StopApp BY <1>2 DEF StopApp
<1>3. CASE HandlersDone BY <1>3 DEF HandlersDone
<1>4. CASE CloseApiRepos BY <1>4 DEF CloseApiRepos
<1>5. CASE NewClient BY <1>5 DEF NewClient
<1>6. CASE ApiNewRepos BY <1>6 DEF ApiNewRepos, Outcomes, Deferred
<1>7. CASE Listen BY <1>7 DEF Listen
<1>8. CASE ApiReturn BY <1>8 DEF ApiReturn, Deferred
<1>9. CASE \E r \in Requests : Accept(r) BY <1>9 DEF Accept, Answer
<1>10. CASE \E r \in Requests : Lookup(r) BY <1>10 DEF Lookup, Answer, Crash
<1>11. CASE \E r \in Requests : Found(r) BY <1>11 DEF Found, Answer
<1>12. CASE \E r \in Requests : Enqueue(r) BY <1>12 DEF Enqueue, Answer
<1>13. CASE \E r \in Requests : CallWorker(r)
  BY <1>13 DEF CallWorker, Answer, Crash, Outcomes
<1>14. CASE UNCHANGED <<api, client, apiRepos, listening, late, at>> BY
     <1>14
<1> QED BY <1>1, <1>2, <1>3, <1>4, <1>5, <1>6, <1>7, <1>8, <1>9, <1>10, <1>11,
     <1>12, <1>13, <1>14 DEF Next, MainStep, WorkerStep, ApiStep, Handle,
     StartWorker, Notify, Receive, Signal, StopServer, Drained, CloseTargets,
     CloseWorkerRepos, WorkerReposClosed, ReturnMain, WorkerNewRepos,
     RunTargets, NewServer, RunServer, AsynqShutdown, AsynqDrained, Take,
     AttemptStep, Abandon, Outcomes, Finish

-----------------------------------------------------------------------------
(* What runs and what is closed.                                             *)

LEMMA WorkerUpKept ==
    ASSUME Inv, Next
    PROVE  WorkerUp'
<1> USE DEF Inv, TypeOK, WorkerTypeOK, WorkerUp, WorkerRuns, Hearing, Up, Goto,
     Ends, mainVars, wrkVars, tryVars, apiVars, reqVars
<1>1. CASE StartWorker BY <1>1 DEF StartWorker
<1>2. CASE StartApi BY <1>2 DEF StartApi
<1>3. CASE Notify BY <1>3 DEF Notify
<1>4. CASE Receive BY <1>4 DEF Receive
<1>5. CASE \E sig \in Signals : Signal(sig) BY <1>5 DEF Signal
<1>6. CASE StopServer BY <1>6 DEF StopServer, AfterWorker
<1>7. CASE Drained BY <1>7 DEF Drained
<1>8. CASE CloseTargets
  BY <1>8 DEF CloseTargets, WorkerDown, PastServer
<1>9. CASE CloseWorkerRepos
  BY <1>9 DEF CloseWorkerRepos, WorkerDown, PastServer
<1>10. CASE WorkerReposClosed BY <1>10 DEF WorkerReposClosed, AfterWorker
<1>11. CASE StopApp BY <1>11 DEF StopApp
<1>12. CASE HandlersDone BY <1>12 DEF HandlersDone
<1>13. CASE CloseApiRepos BY <1>13 DEF CloseApiRepos
<1>14. CASE WorkerNewRepos BY <1>14 DEF WorkerNewRepos, Outcomes
<1>15. CASE RunTargets BY <1>15 DEF RunTargets
<1>16. CASE NewServer BY <1>16 DEF NewServer
<1>17. CASE RunServer BY <1>17 DEF RunServer
<1>18. CASE AsynqShutdown BY <1>18 DEF AsynqShutdown
<1>19. CASE AsynqDrained BY <1>19 DEF AsynqDrained
<1>20. CASE \E s \in Slots : Take(s) BY <1>20 DEF Take
<1>21. CASE \E s \in Slots : AttemptStep(s) BY <1>21 DEF AttemptStep, Finish
<1>22. CASE UNCHANGED <<cfg, main, wrk, srv, lead, wrkRepos, targets, slot>> BY
     <1>22
<1> QED BY <1>1, <1>2, <1>3, <1>4, <1>5, <1>6, <1>7, <1>8, <1>9, <1>10, <1>11,
     <1>12, <1>13, <1>14, <1>15, <1>16, <1>17, <1>18, <1>19, <1>20, <1>21,
     <1>22 DEF Next, MainStep, WorkerStep, ApiStep, Handle, ReturnMain,
     Abandon, NewClient, ApiNewRepos, Listen, ApiReturn, Accept, Lookup, Found,
     Enqueue, CallWorker, Outcomes, Deferred, Answer, Crash

LEMMA WorkerDownKept ==
    ASSUME Inv, Next
    PROVE  WorkerDown'
<1> USE DEF Inv, WorkerDown, WorkerUp, WorkerRuns, Hearing, PastServer,
     PastTargets, PastRepos, Up, Goto, Ends, mainVars, wrkVars, tryVars,
     apiVars, reqVars
<1>1. CASE StartWorker BY <1>1 DEF StartWorker
<1>2. CASE StartApi BY <1>2 DEF StartApi
<1>3. CASE Notify BY <1>3 DEF Notify
<1>4. CASE Receive BY <1>4 DEF Receive
<1>5. CASE \E sig \in Signals : Signal(sig) BY <1>5 DEF Signal
<1>6. CASE StopServer BY <1>6 DEF StopServer, AfterWorker
<1>7. CASE Drained BY <1>7 DEF Drained
<1>8. CASE CloseTargets BY <1>8 DEF CloseTargets
<1>9. CASE CloseWorkerRepos BY <1>9 DEF CloseWorkerRepos
<1>10. CASE WorkerReposClosed BY <1>10 DEF WorkerReposClosed, AfterWorker
<1>11. CASE StopApp BY <1>11 DEF StopApp
<1>12. CASE HandlersDone BY <1>12 DEF HandlersDone
<1>13. CASE CloseApiRepos BY <1>13 DEF CloseApiRepos
<1>14. CASE ReturnMain BY <1>14 DEF ReturnMain
<1>15. CASE WorkerNewRepos BY <1>15 DEF WorkerNewRepos, Outcomes
<1>16. CASE RunTargets BY <1>16 DEF RunTargets
<1>17. CASE NewServer BY <1>17 DEF NewServer
<1>18. CASE RunServer BY <1>18 DEF RunServer
<1>19. CASE AsynqShutdown BY <1>19 DEF AsynqShutdown
<1>20. CASE AsynqDrained BY <1>20 DEF AsynqDrained
<1>21. CASE Listen BY <1>21 DEF Listen
<1>22. CASE \E r \in Requests : Lookup(r) BY <1>22 DEF Lookup, Answer, Crash
<1>23. CASE \E r \in Requests : CallWorker(r)
  BY <1>23 DEF CallWorker, Answer, Crash, Outcomes
<1>24. CASE UNCHANGED <<cfg, process, main, wrk, srv, lead, targets, wrkRepos>>
     BY <1>24
<1> QED BY <1>1, <1>2, <1>3, <1>4, <1>5, <1>6, <1>7, <1>8, <1>9, <1>10, <1>11,
     <1>12, <1>13, <1>14, <1>15, <1>16, <1>17, <1>18, <1>19, <1>20, <1>21,
     <1>22, <1>23, <1>24 DEF Next, MainStep, WorkerStep, ApiStep, Handle, Take,
     AttemptStep, Abandon, NewClient, ApiNewRepos, ApiReturn, Accept, Found,
     Enqueue, Finish, Outcomes, Deferred, Answer

LEMMA ServerUpKept ==
    ASSUME Inv, Next
    PROVE  ServerUp'
<1> USE DEF Inv, TypeOK, ServerTypeOK, ServerUp, Up, Goto, Ends, mainVars,
     wrkVars, tryVars, apiVars, reqVars
<1>1. CASE StartWorker BY <1>1 DEF StartWorker
<1>2. CASE StartApi BY <1>2 DEF StartApi
<1>3. CASE Notify BY <1>3 DEF Notify
<1>4. CASE Receive BY <1>4 DEF Receive
<1>5. CASE \E sig \in Signals : Signal(sig) BY <1>5 DEF Signal
<1>6. CASE StopServer BY <1>6 DEF StopServer, AfterWorker
<1>7. CASE Drained BY <1>7 DEF Drained
<1>8. CASE CloseTargets BY <1>8 DEF CloseTargets
<1>9. CASE CloseWorkerRepos BY <1>9 DEF CloseWorkerRepos
<1>10. CASE WorkerReposClosed BY <1>10 DEF WorkerReposClosed, AfterWorker
<1>11. CASE StopApp BY <1>11 DEF StopApp
<1>12. CASE HandlersDone BY <1>12 DEF HandlersDone
<1>13. CASE CloseApiRepos BY <1>13 DEF CloseApiRepos
<1>14. CASE NewClient BY <1>14 DEF NewClient
<1>15. CASE ApiNewRepos BY <1>15 DEF ApiNewRepos, Outcomes, Deferred
<1>16. CASE Listen BY <1>16 DEF Listen
<1>17. CASE ApiReturn BY <1>17 DEF ApiReturn, Deferred
<1>18. CASE \E r \in Requests : Accept(r) BY <1>18 DEF Accept, Answer
<1>19. CASE \E r \in Requests : Lookup(r) BY <1>19 DEF Lookup, Answer, Crash
<1>20. CASE \E r \in Requests : Found(r) BY <1>20 DEF Found, Answer
<1>21. CASE \E r \in Requests : Enqueue(r) BY <1>21 DEF Enqueue, Answer
<1>22. CASE \E r \in Requests : CallWorker(r)
  <2>1. PICK r \in Requests : CallWorker(r) BY <1>22
  <2>2. /\ cfg.testing /\ at[r] = "send"
        /\ at' \in {[at EXCEPT ![r] = "panicked"], [at EXCEPT ![r] = "ok"]}
        /\ UNCHANGED <<cfg, main, early, wrkVars, tryVars, apiVars, late>>
    BY <2>1 DEF CallWorker, Answer, Crash
  <2> QED BY <2>2
<1>23. CASE UNCHANGED <<cfg, main, api, apiRepos, client, listening, at>> BY
     <1>23
<1> QED BY <1>1, <1>2, <1>3, <1>4, <1>5, <1>6, <1>7, <1>8, <1>9, <1>10, <1>11,
     <1>12, <1>13, <1>14, <1>15, <1>16, <1>17, <1>18, <1>19, <1>20, <1>21,
     <1>22, <1>23 DEF Next, MainStep, WorkerStep, ApiStep, Handle, ReturnMain,
     WorkerNewRepos, RunTargets, NewServer, RunServer, AsynqShutdown,
     AsynqDrained, Take, AttemptStep, Abandon, Outcomes, Finish

LEMMA ServerDownKept ==
    ASSUME Inv, Next
    PROVE  ServerDown'
<1> USE DEF Inv, ServerDown, ServerUp, PastListener, Up, Goto, Ends, mainVars,
     wrkVars, tryVars, apiVars, reqVars
<1>1. CASE StartWorker BY <1>1 DEF StartWorker
<1>2. CASE StartApi BY <1>2 DEF StartApi
<1>3. CASE Notify BY <1>3 DEF Notify
<1>4. CASE Receive BY <1>4 DEF Receive
<1>5. CASE \E sig \in Signals : Signal(sig) BY <1>5 DEF Signal
<1>6. CASE StopServer BY <1>6 DEF StopServer, AfterWorker
<1>7. CASE Drained BY <1>7 DEF Drained
<1>8. CASE CloseTargets BY <1>8 DEF CloseTargets
<1>9. CASE CloseWorkerRepos BY <1>9 DEF CloseWorkerRepos
<1>10. CASE WorkerReposClosed BY <1>10 DEF WorkerReposClosed, AfterWorker
<1>11. CASE StopApp BY <1>11 DEF StopApp
<1>12. CASE HandlersDone BY <1>12 DEF HandlersDone
<1>13. CASE CloseApiRepos BY <1>13 DEF CloseApiRepos
<1>14. CASE NewClient BY <1>14 DEF NewClient
<1>15. CASE ApiNewRepos BY <1>15 DEF ApiNewRepos, Outcomes, Deferred
<1>16. CASE Listen BY <1>16 DEF Listen
<1>17. CASE ApiReturn BY <1>17 DEF ApiReturn, Deferred
<1>18. CASE UNCHANGED <<cfg, main, api, listening, apiRepos>> BY <1>18
<1> QED BY <1>1, <1>2, <1>3, <1>4, <1>5, <1>6, <1>7, <1>8, <1>9, <1>10, <1>11,
     <1>12, <1>13, <1>14, <1>15, <1>16, <1>17, <1>18 DEF Next, MainStep,
     WorkerStep, ApiStep, Handle, ReturnMain, WorkerNewRepos, RunTargets,
     NewServer, RunServer, AsynqShutdown, AsynqDrained, Take, AttemptStep,
     Abandon, Accept, Lookup, Found, Enqueue, CallWorker, Outcomes, Finish,
     Answer, Crash

LEMMA OrderlyKept ==
    ASSUME Inv, Next
    PROVE  Orderly'
<1> USE DEF Inv, Orderly, WorkerUp, WorkerDown, ServerUp, ServerDown,
     WorkerRuns, Hearing, PastServer, PastListener, PastApp, Stopping,
     Handling, Up, Goto, Ends, mainVars, wrkVars, tryVars, apiVars, reqVars
<1>1. CASE StartWorker BY <1>1 DEF StartWorker
<1>2. CASE StartApi
  BY <1>2 DEF StartApi, Settled, AsynqHears
<1>3. CASE Notify BY <1>3 DEF Notify
<1>4. CASE Receive BY <1>4 DEF Receive
<1>5. CASE \E sig \in Signals : Signal(sig)
  <2>1. PICK sig \in Signals : Signal(sig) BY <1>5
  <2>2. CASE process' = "killed" /\ UNCHANGED <<wrk, main, early>>
    BY <2>1, <2>2 DEF Signal
  <2>3. CASE AsynqHears \/ (sig = "INT" /\ MainHears)
    <3>1. /\ wrk' = IF wrk = "serving" THEN "closing" ELSE wrk
          /\ main' = IF sig = "INT" /\ main = "wait" THEN "stop" ELSE main
          /\ early' = (early \/ (sig = "INT" /\ main = "wait" /\ ~Settled))
          /\ UNCHANGED <<cfg, srv, lead, wrkRepos, targets, slot, attached, api,
                         client, apiRepos, listening, late, at>>
      BY <2>1, <2>3 DEF Signal
    <3>2. wrk \in Hearing \cup {"off", "failed"}
             => wrk' \in Hearing \cup {"off", "failed"}
      BY <3>1
    <3>3. CASE sig = "INT" /\ main = "wait" BY <3>1, <3>2, <3>3 DEF Settled, AsynqHears
    <3>4. CASE ~(sig = "INT" /\ main = "wait") BY <3>1, <3>2, <3>4
    <3> QED BY <3>3, <3>4
  <2> QED BY <2>1, <2>2, <2>3 DEF Signal
<1>6. CASE StopServer
  <2>1. CASE ~WorkerRuns BY <1>6, <2>1 DEF StopServer, AfterWorker
  <2>2. CASE WorkerRuns /\ srv = "active" BY <1>6, <2>2 DEF StopServer
  <2>3. CASE WorkerRuns /\ srv # "active"
    BY <1>6, <2>3 DEF StopServer, TypeOK, WorkerTypeOK
  <2> QED BY <2>1, <2>2, <2>3
<1>7. CASE Drained BY <1>7 DEF Drained
<1>8. CASE CloseTargets BY <1>8 DEF CloseTargets
<1>9. CASE CloseWorkerRepos BY <1>9 DEF CloseWorkerRepos
<1>10. CASE WorkerReposClosed BY <1>10 DEF WorkerReposClosed, AfterWorker
<1>11. CASE StopApp BY <1>11 DEF StopApp
<1>12. CASE HandlersDone BY <1>12 DEF HandlersDone
<1>13. CASE CloseApiRepos BY <1>13 DEF CloseApiRepos
<1>14. CASE WorkerNewRepos BY <1>14 DEF WorkerNewRepos, Outcomes
<1>15. CASE RunTargets BY <1>15 DEF RunTargets
<1>16. CASE NewServer BY <1>16 DEF NewServer
<1>17. CASE RunServer BY <1>17 DEF RunServer
<1>18. CASE AsynqShutdown
  BY <1>18 DEF AsynqShutdown, TypeOK, WorkerTypeOK
<1>19. CASE AsynqDrained BY <1>19 DEF AsynqDrained
<1>20. CASE \E s \in Slots : Take(s) BY <1>20 DEF Take
<1>21. CASE \E s \in Slots : AttemptStep(s)
  BY <1>21 DEF AttemptStep, Finish
<1>22. CASE \E s \in Slots : Abandon(s) BY <1>22 DEF Abandon
<1>23. CASE NewClient BY <1>23 DEF NewClient
<1>24. CASE ApiNewRepos BY <1>24 DEF ApiNewRepos, Outcomes, Deferred
<1>25. CASE Listen BY <1>25 DEF Listen
<1>26. CASE ApiReturn BY <1>26 DEF ApiReturn, Deferred
<1>27. CASE \E r \in Requests : Accept(r) BY <1>27 DEF Accept, Answer
<1>28. CASE \E r \in Requests : Lookup(r) BY <1>28 DEF Lookup, Answer, Crash
<1>29. CASE \E r \in Requests : Found(r) BY <1>29 DEF Found, Answer
<1>30. CASE \E r \in Requests : Enqueue(r) BY <1>30 DEF Enqueue, Answer
<1>31. CASE \E r \in Requests : CallWorker(r)
  <2>1. PICK r \in Requests : CallWorker(r) BY <1>31
  <2>2. /\ cfg.testing /\ at[r] = "send"
        /\ at' \in {[at EXCEPT ![r] = "panicked"], [at EXCEPT ![r] = "ok"]}
        /\ UNCHANGED <<cfg, main, early, wrkVars, tryVars, apiVars, late>>
    BY <2>1 DEF CallWorker, Answer, Crash
  <2> QED BY <2>2 DEF TypeOK, ServerTypeOK
<1>32. CASE UNCHANGED <<cfg, early, main, wrk, srv, lead, attached, api,
     listening, late, at>> BY <1>32
<1> QED BY <1>1, <1>2, <1>3, <1>4, <1>5, <1>6, <1>7, <1>8, <1>9, <1>10, <1>11,
     <1>12, <1>13, <1>14, <1>15, <1>16, <1>17, <1>18, <1>19, <1>20, <1>21,
     <1>22, <1>23, <1>24, <1>25, <1>26, <1>27, <1>28, <1>29, <1>30, <1>31,
     <1>32 DEF Next, MainStep, WorkerStep, ApiStep, Handle, ReturnMain

LEMMA LifecycleInductive == Spec => []Inv
<1>1. ASSUME Init
      PROVE  Inv
  <2>1. TypeOK
    BY <1>1 DEF Init, TypeOK, MainTypeOK, WorkerTypeOK, ServerTypeOK, Calls, Handles
  <2>2. WorkerUp /\ WorkerDown
    BY <1>1 DEF Init, WorkerUp, WorkerDown, Hearing, PastServer, PastTargets, PastRepos
  <2>3. ServerUp /\ ServerDown
    BY <1>1 DEF Init, ServerUp, ServerDown, PastListener
  <2>4. Orderly BY <1>1 DEF Init, Orderly, Stopping, PastServer
  <2> QED BY <2>1, <2>2, <2>3, <2>4 DEF Inv
<1>2. ASSUME Inv, [Next]_vars
      PROVE  Inv'
  <2>1. CASE Next
    BY <1>2, <2>1, MainTypeKept, WorkerTypeKept, ServerTypeKept, WorkerUpKept,
       WorkerDownKept, ServerUpKept, ServerDownKept, OrderlyKept DEF Inv, TypeOK
  <2>2. CASE UNCHANGED vars
    <3> USE <2>2 DEF vars, mainVars, wrkVars, tryVars, apiVars, reqVars
    <3>1. TypeOK'
      BY <1>2 DEF Inv, TypeOK, MainTypeOK, WorkerTypeOK, ServerTypeOK
    <3>2. WorkerUp' /\ WorkerDown'
      BY <1>2 DEF Inv, WorkerUp, WorkerDown, WorkerRuns
    <3>3. ServerUp' /\ ServerDown' BY <1>2 DEF Inv, ServerUp, ServerDown
    <3>4. Orderly' BY <1>2 DEF Inv, Orderly, WorkerRuns, Handling
    <3> QED BY <3>1, <3>2, <3>3, <3>4 DEF Inv
  <2> QED BY <1>2, <2>1, <2>2
<1> QED BY <1>1, <1>2, PTL DEF Spec

-----------------------------------------------------------------------------

\* Every variable of the process keeps its type, for any requests and slots.
THEOREM LifecycleTypeCorrect == Spec => []TypeOK
BY LifecycleInductive, PTL DEF Inv

\* Nothing is worked on before it is set up (api.go 212-232, worker.go 53-139):
\* a listening server has repositories, a server of asynq has targets.
THEOREM NothingUsedBeforeSetUp == Spec => []NobodyMeetsNil
<1>1. Inv => NobodyMeetsNil
  BY DEF Inv, TypeOK, WorkerTypeOK, WorkerUp, ServerUp, NobodyMeetsNil, Hearing
<1> QED BY <1>1, LifecycleInductive, PTL

\* A shutdown that waited for the start meets nil only after a Run that has given
\* up, whose error nobody reads (overpush.go 59-93, worker.go 145-163, api.go 245-255).
THEOREM NilNeedsFailure == Spec => []NilOnlyWithoutStart
<1>1. Inv => NilOnlyWithoutStart
  BY DEF Inv, WorkerUp, ServerUp, ServerDown, Orderly, NilOnlyWithoutStart, WorkerRuns,
         Hearing, PastServer, PastListener, Stopping
<1> QED BY <1>1, LifecycleInductive, PTL

\* Worker.Shutdown closes the targets after the last attempt that counts, unless
\* asynq was first or the worker was still starting (worker.go 145-164).
THEOREM TargetsClosedLast == Spec => []TargetsOutliveAttempts
<1>1. Inv => TargetsOutliveAttempts
  BY DEF Inv, WorkerDown, Orderly, TargetsOutliveAttempts, PastServer, PastTargets,
         Stopping
<1> QED BY <1>1, LifecycleInductive, PTL

\* API.Shutdown closes the repositories after the last handler, unless it gave up
\* waiting or the server was still starting (api.go 245-255).
THEOREM ReposClosedLast == Spec => []ReposOutliveHandlers
<1>1. Inv => ReposOutliveHandlers
  BY DEF Inv, ServerDown, Orderly, ReposOutliveHandlers, PastServer, PastApp, Stopping
<1> QED BY <1>1, LifecycleInductive, PTL

\* A goroutine that gives up cleans up after itself, and an orderly end after the
\* worker (worker.go 57-81 and 145-164, api.go 209-221).
THEOREM NothingStaysOpen == Spec => []NothingLeftOpen
<1>1. Inv => NothingLeftOpen
  BY DEF Inv, WorkerUp, WorkerDown, ServerUp, NothingLeftOpen, PastTargets, PastRepos
<1> QED BY <1>1, LifecycleInductive, PTL
=============================================================================

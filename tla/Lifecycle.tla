------------------------------ MODULE Lifecycle ------------------------------
(***************************************************************************)
(* The life of the process: main starts the worker and the API server as   *)
(* goroutines, waits for an interrupt and shuts both down.  Nobody reads   *)
(* what Worker.Run and API.Run return, and main does not wait for them:    *)
(* an interrupt may meet fields they have not set yet.                     *)
(*                                                                         *)
(* asynq.Server.Run waits for SIGINT and SIGTERM on its own and then shuts *)
(* itself down; main asks for SIGINT only.  Shutdown of a server that does *)
(* not run, or that somebody else shuts down, returns at once; otherwise   *)
(* it waits for the attempts, and puts those back that take too long.      *)
(* pgxpool's Close turns new queries away and waits for those under way;   *)
(* without a database there is no pool, and nothing to close.              *)
(***************************************************************************)
CONSTANTS Requests,  \* HTTP requests; bound: each is made once
          Slots      \* goroutines of the asynq server

VARIABLES cfg,        \* Server.Enable, Worker.Enable, Testing, Database.Enable
          process,    \* "up", or how it ended
          main,       \* the call main makes next
          abort,      \* main is on its way to panic(err)
          told,       \* history: the signals sent; bound: each is sent once
          early,      \* history: the shutdown began before the start was over
          wrk,        \* the call Worker.Run makes next, or how it ended
          srv,        \* wrk.redis: "nil", "new", "active", "closed"
          lead,       \* history: who shut it down
          wrkRepos,   \* wrk.repos: "nil", "open", "closed"
          targets,    \* wrk.ts: "none", "running", "closed"
          slot,       \* the call each attempt makes next, or "idle"
          attached,   \* the slots whose attempt still counts
          api,        \* the call API.Run makes next, or how it ended
          client,     \* api.redis: "nil", "open", "closed"
          apiRepos,   \* api.repos: "nil", "open", "closed"
          listening,  \* the HTTP server accepts connections
          late,       \* history: ShutdownWithTimeout gave up
          at          \* what each request's handler does next, or its answer

mainVars == <<cfg, process, main, abort, told, early>>
wrkVars  == <<wrk, srv, lead, wrkRepos, targets>>
tryVars  == <<slot, attached>>
apiVars  == <<api, client, apiRepos, listening>>
reqVars  == <<late, at>>
vars     == <<mainVars, wrkVars, tryVars, apiVars, reqVars>>

Config  == [server: BOOLEAN, worker: BOOLEAN, testing: BOOLEAN, database: BOOLEAN]
Signals == {"INT", "TERM"}
Handles == {"nil", "open", "closed"}

Calls   == {"worker", "api", "notify", "ready", "wait", "stop", "drain", "targets",
            "repos", "queries", "app", "handlers", "apiRepos", "apiQueries"}

MainTypeOK ==
    /\ cfg \in Config
    /\ process \in {"up", "exited", "failed", "killed"}
    /\ main \in Calls
    /\ abort \in BOOLEAN /\ told \in SUBSET Signals /\ early \in BOOLEAN

WorkerTypeOK ==
    /\ wrk \in {"none", "repos", "targets", "server", "run", "serving", "closing",
                "draining", "returned", "off", "failed"}
    /\ srv \in {"nil", "new", "active", "closed"}
    /\ lead \in {"none", "main", "asynq"}
    /\ wrkRepos \in Handles
    /\ targets \in {"none", "running", "closed"}
    /\ slot \in [Slots -> {"idle", "lookup", "query", "execute"}]
    /\ attached \in SUBSET Slots

ServerTypeOK ==
    /\ api \in {"none", "client", "repos", "listen", "listening", "returned", "off", "failed"}
    /\ client \in Handles /\ apiRepos \in Handles
    /\ listening \in BOOLEAN /\ late \in BOOLEAN
    /\ at \in [Requests -> {"idle", "lookup", "query", "send",
                           "ok", "notfound", "error", "panicked"}]

TypeOK == MainTypeOK /\ WorkerTypeOK /\ ServerTypeOK

Init ==
    /\ cfg \in Config
    /\ process = "up" /\ main = "worker"
    /\ abort = FALSE /\ told = {} /\ early = FALSE
    /\ wrk = "none" /\ srv = "nil" /\ lead = "none"
    /\ wrkRepos = "nil" /\ targets = "none"
    /\ slot = [s \in Slots |-> "idle"] /\ attached = {}
    /\ api = "none" /\ client = "nil" /\ apiRepos = "nil"
    /\ listening = FALSE /\ late = FALSE
    /\ at = [r \in Requests |-> "idle"]

-----------------------------------------------------------------------------

Up == process = "up"

\* A call against PostgreSQL may fail, one against the configuration does not.
Outcomes == IF cfg.database THEN BOOLEAN ELSE {TRUE}

\* A query can begin.
Serves(repos) == repos = "open" \/ (repos = "closed" /\ ~cfg.database)

WorkerRuns == cfg.worker /\ ~cfg.testing

\* asynq's own handler for SIGINT and SIGTERM is installed, for good.
AsynqHears == wrk \in {"serving", "closing", "draining", "returned"}
MainHears  == main \notin {"worker", "api", "notify"} /\ ~abort

Settled == /\ AsynqHears \/ wrk \in {"off", "failed"}
           /\ api \in {"listening", "returned", "off", "failed"}

Handling == {r \in Requests : at[r] \in {"lookup", "query", "send"}}

Ends(how) == process' = how /\ UNCHANGED <<cfg, main, abort, told, early>>
Goto(call) == main' = call /\ UNCHANGED <<cfg, process, abort, told, early>>

-----------------------------------------------------------------------------
(* main, up to the interrupt.                                                *)

StartWorker ==
    /\ Up /\ main = "worker"
    /\ Goto("api")
    /\ wrk' = "repos"
    /\ UNCHANGED <<srv, lead, wrkRepos, targets, tryVars, apiVars, reqVars>>

\* LoadMiddlewares may return an error (an address of Redis for the limiter
\* that cannot be parsed) or panic (a Redis that cannot be reached).
StartApi ==
    /\ Up /\ main = "api"
    /\ \/ Goto("notify") /\ api' = "client"
       \/ /\ cfg.server
          /\ abort' = TRUE /\ main' = "stop" /\ early' = ~Settled
          /\ UNCHANGED <<cfg, process, told, api>>
       \/ cfg.server /\ Ends("failed") /\ UNCHANGED api
    /\ UNCHANGED <<wrkVars, tryVars, client, apiRepos, listening, reqVars>>

Notify ==
    /\ Up /\ main = "notify"
    /\ Goto("ready")
    /\ UNCHANGED <<wrkVars, tryVars, apiVars, reqVars>>

Receive ==
    /\ Up /\ main = "ready"
    /\ Goto("wait")
    /\ UNCHANGED <<wrkVars, tryVars, apiVars, reqVars>>

\* quit is unbuffered: a signal that finds nobody receiving is dropped.  One
\* that nobody asked for kills the process.
Signal(s) ==
    /\ Up /\ s \notin told
    /\ told' = told \cup {s}
    /\ IF AsynqHears \/ (s = "INT" /\ MainHears)
       THEN /\ wrk' = IF wrk = "serving" THEN "closing" ELSE wrk
            /\ main' = IF s = "INT" /\ main = "wait" THEN "stop" ELSE main
            /\ early' = (early \/ (s = "INT" /\ main = "wait" /\ ~Settled))
            /\ UNCHANGED process
       ELSE process' = "killed" /\ UNCHANGED <<wrk, main, early>>
    /\ UNCHANGED <<cfg, abort, srv, lead, wrkRepos, targets, tryVars, apiVars, reqVars>>

-----------------------------------------------------------------------------
(* Worker.Shutdown and API.Shutdown, called by main.                         *)

AfterWorker == IF abort THEN Ends("failed") ELSE Goto("app")

\* Mutant: the targets are closed first.
StopTargetsFirst ==
    /\ Up /\ main = "stop"
    /\ IF ~WorkerRuns THEN AfterWorker
       ELSE IF srv = "nil" THEN Ends("failed") ELSE Goto("targets")
    /\ UNCHANGED <<wrkVars, tryVars, apiVars, reqVars>>

\* Mutant: waits for a server to shut down.
StopServerOnceActive ==
    /\ Up /\ main = "stop"
    /\ IF ~WorkerRuns THEN AfterWorker /\ UNCHANGED <<srv, lead>>
       ELSE /\ srv \in {"active", "closed"}
            /\ Goto("drain") /\ srv' = "closed"
            /\ lead' = IF srv = "active" THEN "main" ELSE lead
    /\ UNCHANGED <<wrk, wrkRepos, targets, tryVars, apiVars, reqVars>>

\* wrk.redis.Shutdown()
StopServer ==
    /\ Up /\ main = "stop"
    /\ IF ~WorkerRuns THEN AfterWorker /\ UNCHANGED <<srv, lead>>
       ELSE IF srv = "active" THEN Goto("drain") /\ srv' = "closed" /\ lead' = "main"
       ELSE /\ IF srv = "nil" THEN Ends("failed") ELSE Goto("targets")
            /\ UNCHANGED <<srv, lead>>
    /\ UNCHANGED <<wrk, wrkRepos, targets, tryVars, apiVars, reqVars>>

Drained ==
    /\ Up /\ main = "drain"
    /\ attached = {}
    /\ Goto("targets")
    /\ UNCHANGED <<wrkVars, tryVars, apiVars, reqVars>>

\* ShutdownAll panics if an XMPP target has lost its client (module Targets).
CloseTargets ==
    /\ Up /\ main = "targets"
    /\ \/ Goto("repos") /\ targets' = "closed"
       \/ Ends("failed") /\ UNCHANGED targets
    /\ UNCHANGED <<wrk, srv, lead, wrkRepos, tryVars, apiVars, reqVars>>

CloseWorkerRepos ==
    /\ Up /\ main = "repos"
    /\ wrkRepos' = "closed"
    /\ Goto("queries")
    /\ UNCHANGED <<wrk, srv, lead, targets, tryVars, apiVars, reqVars>>

WorkerReposClosed ==
    /\ Up /\ main = "queries"
    /\ cfg.database => \A s \in Slots : slot[s] # "query"
    /\ AfterWorker
    /\ UNCHANGED <<wrkVars, tryVars, apiVars, reqVars>>

\* Mutant: the repositories are closed before the HTTP server.
StopAppLast ==
    /\ Up /\ main = "app"
    /\ IF ~cfg.server THEN Ends("exited") ELSE Goto("apiRepos")
    /\ UNCHANGED <<wrkVars, tryVars, apiVars, reqVars>>

\* app.ShutdownWithTimeout closes the listener, if there is one, and waits.
StopApp ==
    /\ Up /\ main = "app"
    /\ IF ~cfg.server THEN Ends("exited")
       ELSE Goto(IF listening THEN "handlers" ELSE "apiRepos")
    /\ listening' = FALSE
    /\ UNCHANGED <<wrkVars, tryVars, api, client, apiRepos, reqVars>>

HandlersDone ==
    /\ Up /\ main = "handlers"
    /\ late' = (late \/ Handling # {})
    /\ Goto("apiRepos")
    /\ UNCHANGED <<wrkVars, tryVars, apiVars, at>>

CloseApiRepos ==
    /\ Up /\ main = "apiRepos"
    /\ IF apiRepos = "nil" THEN Ends("failed") /\ UNCHANGED apiRepos
       ELSE Goto("apiQueries") /\ apiRepos' = "closed"
    /\ UNCHANGED <<wrkVars, tryVars, api, client, listening, reqVars>>

ReturnMain ==
    /\ Up /\ main = "apiQueries"
    /\ cfg.database => \A r \in Requests : at[r] # "query"
    /\ Ends("exited")
    /\ UNCHANGED <<wrkVars, tryVars, apiVars, reqVars>>

MainStep == \/ StartWorker \/ StartApi \/ Notify \/ Receive
            \/ StopServer \/ Drained \/ CloseTargets
            \/ CloseWorkerRepos \/ WorkerReposClosed
            \/ StopApp \/ HandlersDone \/ CloseApiRepos \/ ReturnMain

-----------------------------------------------------------------------------
(* Worker.Run.                                                               *)

\* database.New closes its pool if the first query fails.
WorkerNewRepos ==
    /\ Up /\ wrk = "repos"
    /\ IF ~cfg.worker /\ ~cfg.testing THEN wrk' = "off" /\ UNCHANGED wrkRepos
       ELSE \E ok \in Outcomes :
              /\ wrkRepos' = IF ok THEN "open" ELSE "nil"
              /\ wrk' = IF ~ok THEN "failed" ELSE IF WorkerRuns THEN "targets" ELSE "off"
    /\ UNCHANGED <<mainVars, srv, lead, targets, tryVars, apiVars, reqVars>>

\* Mutant: returns without db.Shutdown().
RunTargetsOrReturn ==
    /\ Up /\ wrk = "targets"
    /\ \/ wrk' = "server" /\ targets' = "running"
       \/ wrk' = "failed" /\ UNCHANGED targets
    /\ UNCHANGED <<mainVars, srv, lead, wrkRepos, tryVars, apiVars, reqVars>>

\* GetTargets and targets.New return their errors; one of LoadAll or RunAll is
\* log.Fatal, which ends the process.
RunTargets ==
    /\ Up /\ wrk = "targets"
    /\ \/ /\ wrk' = "server" /\ targets' = "running"
          /\ UNCHANGED <<mainVars, wrkRepos>>
       \/ /\ wrk' = "failed" /\ wrkRepos' = "closed"
          /\ UNCHANGED <<mainVars, targets>>
       \/ Ends("failed") /\ UNCHANGED <<wrk, wrkRepos, targets>>
    /\ UNCHANGED <<srv, lead, tryVars, apiVars, reqVars>>

NewServer ==
    /\ Up /\ wrk = "server"
    /\ wrk' = "run" /\ srv' = "new"
    /\ UNCHANGED <<mainVars, lead, wrkRepos, targets, tryVars, apiVars, reqVars>>

\* wrk.redis.Run starts the server and waits for a signal; an error of it is
\* log.Fatal, which ends the process.
RunServer ==
    /\ Up /\ wrk = "run"
    /\ \/ wrk' = "serving" /\ srv' = "active" /\ UNCHANGED mainVars
       \/ Ends("failed") /\ UNCHANGED <<wrk, srv>>
    /\ UNCHANGED <<lead, wrkRepos, targets, tryVars, apiVars, reqVars>>

AsynqShutdown ==
    /\ Up /\ wrk = "closing"
    /\ IF srv = "active" THEN wrk' = "draining" /\ srv' = "closed" /\ lead' = "asynq"
       ELSE wrk' = "returned" /\ UNCHANGED <<srv, lead>>
    /\ UNCHANGED <<mainVars, wrkRepos, targets, tryVars, apiVars, reqVars>>

AsynqDrained ==
    /\ Up /\ wrk = "draining" /\ attached = {}
    /\ wrk' = "returned"
    /\ UNCHANGED <<mainVars, srv, lead, wrkRepos, targets, tryVars, apiVars, reqVars>>

WorkerStep == \/ WorkerNewRepos \/ RunTargets \/ NewServer \/ RunServer
              \/ AsynqShutdown \/ AsynqDrained

-----------------------------------------------------------------------------
(* The attempts: what HandleMessage touches, module Worker has the rest.     *)

Take(s) ==
    /\ Up /\ srv = "active" /\ slot[s] = "idle"
    /\ slot' = [slot EXCEPT ![s] = "lookup"]
    /\ attached' = attached \cup {s}
    /\ UNCHANGED <<mainVars, wrkVars, apiVars, reqVars>>

Finish(s) == slot' = [slot EXCEPT ![s] = "idle"] /\ attached' = attached \ {s}

AttemptStep(s) ==
    /\ Up /\ slot[s] # "idle"
    /\ \/ /\ slot[s] = "lookup" /\ Serves(wrkRepos)
          /\ slot' = [slot EXCEPT ![s] = "query"] /\ UNCHANGED attached
       \/ /\ slot[s] = "query"
          /\ slot' = [slot EXCEPT ![s] = "execute"] /\ UNCHANGED attached
       \/ Finish(s)
    /\ UNCHANGED <<mainVars, wrkVars, apiVars, reqVars>>

\* A server that shuts down gives up attempts after eight seconds.
Abandon(s) ==
    /\ Up /\ srv = "closed" /\ s \in attached
    /\ attached' = attached \ {s}
    /\ UNCHANGED <<slot, mainVars, wrkVars, apiVars, reqVars>>

-----------------------------------------------------------------------------
(* API.Run.                                                                  *)

NewClient ==
    /\ Up /\ api = "client"
    /\ api' = IF cfg.server THEN "repos" ELSE "off"
    /\ client' = IF cfg.server /\ ~cfg.testing THEN "open" ELSE client
    /\ UNCHANGED <<mainVars, wrkVars, tryVars, apiRepos, listening, reqVars>>

Deferred == client' = IF client = "open" THEN "closed" ELSE client

\* Mutant: listens while the repositories are being set up.
ListenFirst ==
    /\ Up /\ api = "repos"
    /\ api' = "listen" /\ listening' = TRUE
    /\ UNCHANGED <<mainVars, wrkVars, tryVars, client, apiRepos, reqVars>>

ApiNewRepos ==
    /\ Up /\ api = "repos"
    /\ \/ api' = "listen" /\ apiRepos' = "open" /\ UNCHANGED client
       \/ FALSE \in Outcomes /\ api' = "failed" /\ Deferred /\ UNCHANGED apiRepos
    /\ UNCHANGED <<mainVars, wrkVars, tryVars, listening, reqVars>>

\* app.Listen; log.Fatal if the address is in use.
Listen ==
    /\ Up /\ api = "listen"
    /\ \/ api' = "listening" /\ listening' = TRUE /\ UNCHANGED mainVars
       \/ Ends("failed") /\ UNCHANGED <<api, listening>>
    /\ UNCHANGED <<wrkVars, tryVars, client, apiRepos, reqVars>>

\* Listen returns as soon as the listener is closed, and the deferred Close of
\* the client runs while handlers may still need it.
ApiReturn ==
    /\ Up /\ api = "listening" /\ ~listening
    /\ api' = "returned" /\ Deferred
    /\ UNCHANGED <<mainVars, wrkVars, tryVars, apiRepos, listening, reqVars>>

ApiStep == NewClient \/ ApiNewRepos \/ Listen \/ ApiReturn

-----------------------------------------------------------------------------
(* The handler of a request.                                                 *)

Answer(r, how) == at' = [at EXCEPT ![r] = how]

\* A panic in a handler ends the process: nothing recovers it.
Crash(r) == Answer(r, "panicked") /\ Ends("failed")

Accept(r) ==
    /\ Up /\ listening /\ at[r] = "idle"
    /\ Answer(r, "lookup")
    /\ UNCHANGED <<mainVars, wrkVars, tryVars, apiVars, late>>

Lookup(r) ==
    /\ Up /\ at[r] = "lookup"
    /\ \/ apiRepos = "nil" /\ Crash(r)
       \/ Serves(apiRepos) /\ Answer(r, "query") /\ UNCHANGED mainVars
       \/ apiRepos = "closed" /\ Answer(r, "notfound") /\ UNCHANGED mainVars
    /\ UNCHANGED <<wrkVars, tryVars, apiVars, late>>

Found(r) ==
    /\ Up /\ at[r] = "query"
    /\ Answer(r, "send") \/ Answer(r, "notfound")
    /\ UNCHANGED <<mainVars, wrkVars, tryVars, apiVars, late>>

Enqueue(r) ==
    /\ Up /\ at[r] = "send" /\ ~cfg.testing
    /\ \/ client = "open" /\ Answer(r, "ok")
       \/ Answer(r, "error")
    /\ UNCHANGED <<mainVars, wrkVars, tryVars, apiVars, late>>

\* Testing: a worker of its own, whose Run sets up repositories but no targets,
\* and which nobody shuts down.  HandleMessage then uses a nil repository, or
\* finds nothing to send, or calls a nil target.
CallWorker(r) ==
    /\ Up /\ at[r] = "send" /\ cfg.testing
    /\ \/ Crash(r)
       \/ Answer(r, "ok") /\ UNCHANGED mainVars
    /\ UNCHANGED <<wrkVars, tryVars, apiVars, late>>

Handle(r) == Lookup(r) \/ Found(r) \/ Enqueue(r) \/ CallWorker(r)

-----------------------------------------------------------------------------

Next ==
    \/ MainStep \/ WorkerStep \/ ApiStep
    \/ \E s \in Signals : Signal(s)
    \/ \E s \in Slots : Take(s) \/ AttemptStep(s) \/ Abandon(s)
    \/ \E r \in Requests : Accept(r) \/ Handle(r)

Spec == Init /\ [][Next]_vars

(* Every goroutine goes on; attempts and handlers end (queries after five  *)
(* seconds, programs after ten), or are given up by whoever waits for them. *)
Fairness ==
    /\ WF_vars(MainStep) /\ WF_vars(WorkerStep) /\ WF_vars(ApiStep)
    /\ \A s \in Slots : WF_vars(AttemptStep(s)) /\ WF_vars(Abandon(s))
    /\ \A r \in Requests : WF_vars(Handle(r))

FairSpec == Spec /\ Fairness

-----------------------------------------------------------------------------
(* Properties.                                                               *)

\* No request and no attempt is worked on before the repositories and targets
\* it needs are there: nothing but testing mode makes a handler panic.
NobodyMeetsNil ==
    /\ ~cfg.testing => \A r \in Requests : at[r] # "panicked"
    /\ \A s \in Slots : slot[s] # "idle" => wrkRepos # "nil" /\ targets # "none"

\* main shuts down a server or repositories it has never been given only if it
\* was interrupted during the start, or after a Run whose error nobody read.
NilOnlyWithoutStart ==
    /\ main = "stop" /\ WorkerRuns /\ srv = "nil" => early \/ wrk = "failed"
    /\ main = "apiRepos" /\ apiRepos = "nil" => early \/ api = "failed"

\* The targets are closed under an attempt that counts only if asynq got the
\* signal first, so that wrk.redis.Shutdown returns at once, or if the worker
\* was still starting.
TargetsOutliveAttempts ==
    targets = "closed" /\ attached # {} => lead = "asynq" \/ early

\* The API's pool is closed under a handler only if the handler did not end
\* within five seconds or the server was still starting.
ReposOutliveHandlers ==
    apiRepos = "closed" /\ Handling # {} => late \/ early

\* A worker or server that gives up leaves no pool and no client open, and an
\* orderly end closes what the worker has opened.
NothingLeftOpen ==
    /\ wrk = "failed" => wrkRepos # "open"
    /\ api = "failed" => client # "open" /\ apiRepos # "open"
    /\ process = "exited" /\ WorkerRuns => wrkRepos # "open" /\ targets # "running"

\* An interrupt that main receives ends the process, also if asynq takes it at
\* the same time, and whatever handlers and attempts are doing.
InterruptEnds == main = "stop" ~> ~Up

\* The service managers stop the process with SIGTERM; it should end.
TerminationEnds == "TERM" \in told ~> ~Up

=============================================================================

# Overpush in TLA+

TLA+ specifications of [Overpush](https://github.com/mrusme/overpush), a bridge
from Pushover-style HTTP requests to XMPP and Apprise, with TLC runs and TLAPS
proofs. Paths below are relative to the repository's root.

## 1. The system

    client --HTTP--> API handler --enqueue--> asynq queue (Redis) --> worker --> target
                        |  ^                                          |  ^        XMPP
                     counts rows                                  counts rows     Apprise
                        v  |                                          v  |
                     PostgreSQL, or the configuration file (in memory)

| Component | Source | State | Operations |
|---|---|---|---|
| HTTP handler | `api/routes.go` | one request's progress | look up user and application, save the input, enqueue, count, answer |
| Message | `models/message/message.go` | the fields; the `_internal.via_submit` flag | `ClearInternal`, `SetViaSubmit`, `IsViaSubmit` |
| Queue | asynq, used in `api/routes.go`, `worker/worker.go` | tasks: pending, active, completed, archived; retries | enqueue, dequeue, done, retry, archive, requeue, recover |
| Worker | `worker/worker.go` | the asynq server, the registry of targets | `Run`, `Shutdown`, `HandleMessage`, `EncryptWithAge` |
| Rows, counters | `database/`, `repositories/`, `config/config.go` | users, applications, targets, `stat_*` | lookups, `SaveInput`, `IncrementStat` |
| Targets | `worker/targets/targets.go` | map of targets | `LoadAll`, `RunAll`, `Execute`, `ShutdownAll` |
| XMPP target | `worker/targets/xmpp/xmpp.go` | one client shared by all callers | keep-alive, reconnect, send, close |
| Apprise target | `worker/targets/apprise/apprise.go` | none | run a program, ten seconds |
| Custom formats | `models/application/cformat.go` | none | templates over the request's body |
| Process | `overpush.go`, `api/api.go`, `worker/worker.go` | goroutines for worker and API, pools, clients | start, signals, shutdown |
| Limiter, request log, Lambda adapter | `api/api.go`, `fiberzap/`, `fiberadapter/`, `api/aws.go` | none that matters | |

How they interact: the handler and the worker never talk directly. They share
the queue (the message travels as JSON) and the rows, which a third party (the
web front end of a hosted setup, an administrator) edits at any time. The
worker's goroutines share the targets. Every call that leaves a process may
fail or lose its answer.

What makes each component correct:

* handler: the answer tells the truth about the queue; a failure of a call
  that does not matter (saving, counting) does not change the outcome; nothing
  a client claims in its body bypasses an enable flag;
* queue and worker: an accepted message ends up delivered, dismissed because a
  row is disabled, or given up after all retries; never silently lost; sent
  twice only if the worker could not know better; one attempt that counts at
  a time;
* rows: each decision about a delivery is backed by rows as they were during
  the attempt; counters do not claim more than happened;
* targets: no leaked connection, an honest result, recovery after an outage;
* contents: what arrives is what was sent, encrypted once where that was asked;
* process: nothing is used before it is set up or closed while it is used,
  nothing stays open, an interrupt ends it.

`PROJECT.json` lists the hazards, each at its line with the properties that
would catch it.

## 2. Modules

    Store <- Queue <- Api ----+
               ^              +-- Overpush <- OverpushProofs <- CauseProofs <- StatsProofs <- CalmProofs
               +---- Worker --+      |  \
                                     |   MCOverpush (*.cfg)
          Delivery <-- INSTANCE -----+
    Targets <- MCTargets (*.cfg), TargetsProofs
    Content <- MCContent (*.cfg), ContentProofs
    Lifecycle <- MCLifecycle (*.cfg), LifecycleProofs

`A <- B`: B extends A. Lower modules declare the variables of their component
and one operator per operation; `Overpush` composes the steps of the API, the
worker and the outside world into `Next`.

| Module | Models | Variables and how they correspond to the code |
|---|---|---|
| `Store` | lookups, counters, edits | `app`, `target`, `userEnable`: the columns that steer control; a row that is not `live` is one the query does not find. `stats`: the `stat_` columns. `DatabaseEnable` chooses PostgreSQL (a query may fail; the user key is ignored) or the file (never fails; `GetApplication` needs the owner's key) |
| `Queue` | asynq in Redis (external) | `state`, `payload`, `retried` per request; `pending` includes waiting for a retry. A task is archived when a failure finds `retried = MaxRetry` |
| `Api` | the handler | `pc`: the call a request's handler makes next. One action per call: `ApiGetUser`, `ApiGetApplication`, `SaveInput`, `Enqueue`, `IncrementProcessed`; local computation belongs to the call before it. `CrashApi` loses the requests in flight. `doubted`: history, the requests whose task Redis stored and reported an error |
| `Worker` | `HandleMessage`, `Run`, `Shutdown`, the asynq server around them | `at`: the call each goroutine makes next; `attached`: asynq still waits for it; `registry`: the targets loaded by `Run`. `Detach`, `Recover`, `Stop`, `Exit`, `CrashWorker`: timeout, lost lease, recoverer, shutdown, crash |
| `Overpush` | the whole at run time | adds two history variables, which rows were enabled during an attempt; states the properties |
| `Delivery` | what Overpush promises for a message | abstract: a message's fate (`promised`, then `kept`, `dismissed` or `givenup`, decided once) and whether a copy went out |
| `OverpushProofs`, `CauseProofs`, `StatsProofs`, `CalmProofs` | theorems about `Overpush` | |
| `MCOverpush` | instances for TLC | |
| `Targets` | `targets.go`, `xmpp.go`, `apprise.go` | `jabber`: `t.jabber`; `link`: the connection of each client; `phase`, `next`: where `RunAll` and `ShutdownAll` are; `reach`: the targets whose server can be reached; `at`, `dest`: the call each caller of `Execute` makes next, and its target; `handed`: history, what became of its message (`Fates`); `refused`, `raced`: history, a reconnect has met a server that was away or would not have it, or another reconnect of its target |
| `TargetsProofs` | theorems about `Targets` | |
| `MCTargets` | instances for TLC | |
| `Content` | what becomes of a message's contents: binding the body or the custom format with its templates, validation, marshalling, the attempts, each of which encrypts part after part in place and calls the target | `app`: encryption, format; `body`: what the client sends; `at`: the part or call that comes next; `task`: the message in the payload; `msg`: the attempt's own copy; `tries`: failed attempts; `out`: what reached the target. A text is empty, plain, marked (it has a character HTML reserves), escaped, sealed or sealed twice |
| `ContentProofs` | theorems about `Content` | |
| `MCContent` | instances for TLC | |
| `Lifecycle` | `overpush.go`, `Run` and `Shutdown` of worker and API, the signals of main and asynq, testing mode | `main`, `wrk`, `api`: the call each goroutine makes next; `srv`, `wrkRepos`, `targets`, `client`, `apiRepos`, `listening`: the fields they share, unset, open or closed; `slot`, `at`: attempts and handlers, as far as they use these; `told`, `early`, `late`, `lead`: history |
| `LifecycleProofs` | theorems about `Lifecycle` | |
| `MCLifecycle` | instances for TLC | |

Decisions a reader should know:

* **Granularity.** A step is one call that leaves the process plus the local
  code up to the next one. Nothing else is shared between goroutines except
  `t.jabber`, for which `Targets` splits `reconnect` between the close and the
  assignment.
* **Faults are nondeterministic.** A query fails (`Outcomes`), an UPDATE before or
  after it took effect (`Count`); the answer to an
  enqueue or an acknowledgement is lost after the effect; a target reports an
  error before or after it delivered; asynq gives an attempt up at any moment.
  `HandleMessage` ignores its context, so that an attempt that was given up
  goes on, detached, and may still deliver.
* **`disturbed`** remembers that a fault or an edit has happened. Properties
  about the undisturbed system use it as their condition.
* **A missing registry entry** is a nil interface: `ts.targets[id].Execute`
  panics, asynq recovers and counts an error (`Execute`, third disjunct).
* **asynq, go-xmpp, TCP and PostgreSQL** are not part of the repository; their
  operators are marked external and promise only what the code relies on.
* **One message in `Content`.** Which steps exist, and in which order, is the
  business of `Overpush`; `Content` follows one message and repeats its attempts
  at will, since all an attempt shares with the next one is the task's payload.
  An attempt may fail at any part it encrypts, with the parts before it sealed in
  its copy. `EncryptWithAge` chains `==` over two flags; `Skips` says what Go makes
  of that. `Found` is empty because a comma follows the `json` key in each struct
  tag; `Marshalled` drops the attachment because two fields share its name.
* **Mutants.** An operator whose comment begins with "Mutant:" is a plausible
  bug. No specification uses it; `PROJECT.json` says which definition it
  replaces and which property then fails.

## 3. Runs

| Run | Configuration | Question | Properties |
|---|---|---|---|
| `edits` | `Edits.cfg` | do retries, timeouts, leases, requeues, crashes and counters add up, and every decision stay backed by rows, for every kind of request, with rows edited under it? | `TypeOK`, `AnswersAreHonest`, `DoneMeansDelivered`, `GivenUpWithCause`, `AttemptsAddUp`, `DuplicatesExcused`, `OneOwner`, `DeliveriesBounded`, `StatsBacked`, `StatsExact`, `WritesOnlyWhileEnabled`, `PromisedSafely` |
| `config_file` | `ConfigFile.cfg` | does it hold without a database, and with two requests in two slots; and, when nothing disturbs it, do answers and deliveries follow the rows, whichever of them is missing or disabled? | `AttemptsAddUp`, `OneOwner`, `GivenUpWithCause`, `AnswersFitRows`, `OnceUnlessDisturbed`, `PromisedSafely` |
| `progress` | `Progress.cfg` | is every message that was queued settled, whether or not its client got an answer, and is `Delivery` implemented with its liveness? | `AcceptedIsSettled`, `Promised` |
| `targets` | `Targets.cfg` | do targets start, reconnect, recover and stop cleanly around outages, with two callers? | `TypeOK`, `LeaksNeedARace`, `StartupCleansUp`, `ResultsAreHonest`, `ShutdownReachesAllUnlessRefused`, `RecoversUnlessRefused` |
| `content` | `Content.cfg` | do encryption, which may stop between any two parts, and retries leave contents intact and closed, for every combination of settings and bodies? | `SealedOnce`, `FailsClosed`, `TextsSurvive` |
| `lifecycle` | `Lifecycle.cfg` | do start and shutdown fit together, in every configuration and with signals at any moment, and does an interrupt end the process? | `NobodyMeetsNil`, `NilOnlyWithoutStart`, `TargetsOutliveAttempts`, `ReposOutliveHandlers`, `NothingLeftOpen`, `InterruptEnds` |
| `wedged` | `Wedged.cfg` | does an XMPP target recover if a reconnect was refused? **No** | `Recovers` (violated) |
| `race` | `Race.cfg` | and if two callers reconnect at once? **They leak a connection** | `NothingLeaks` (violated) |
| `tags` | `Tags.cfg` | does the validation enforce the tags of `message.go`? **No** | `TagsHold` (violated) |
| `flags` | `Flags.cfg` | is each part encrypted whose flag is on? **No** | `FlagsHold` (violated) |
| `templates` | `Templates.cfg` | does a custom format insert texts as they are, as `text/template` does? **No** | `TemplatesAreText` (violated) |
| `termination` | `Termination.cfg` | does SIGTERM end the process? **No** | `TerminationEnds` (violated) |

The violated ones are findings:

1. `wedged`. `NewClient` leaves `t.jabber` nil when it fails. The next
   `SendKeepAlive` is called on a nil client and panics, so the reconnect
   announced by the log line ("attempting reconnect ...", `xmpp.go:105`) is
   never tried again: the target is dead until the process restarts, and the
   shutdown panics when it comes to it (`xmpp.go:132`), before the targets after
   it, the pool and the API server are shut down. `targets` shows that this is
   the only way: without such a refusal a shutdown reaches the last target
   (`ShutdownReachesAllUnlessRefused`, proved), and without it and without the race
   below a target always recovers (`RecoversUnlessRefused`).
2. `race`. With `Redis.Concurrency` above 1, or with one attempt that outlived
   its timeout, two goroutines reconnect one target. Each closes the old client
   and assigns a new one; one of them is never closed (`xmpp.go:78-85`). That is the
   only leak there is (`LeaksNeedARace`, proved). Nor need such callers ever come
   to an end of it: each may close the client the other has just opened, which is
   why `RecoversUnlessRefused` excludes them.
3. `templates`. The repository's README (54-56) promises custom templates in Go's
   `text/template` syntax; `cformat.go:5` imports `html/template`, so that a text with
   a quote, an ampersand or a plus sign reaches the target as character references.
   `TextsSurvive` shows that without templates texts stay as they are.
4. `tags`. `json:"message",validate:"required"` is not two keys but one
   (`message.go:6-22`): the validator finds no rule and accepts a message without
   text or with any priority.
5. `flags`. With the title's flag off, the message's and the attachment's on,
   `EncryptWithAge` returns early and the message leaves in the clear
   (`worker.go:271`). `FailsClosed` shows that no other combination of flags has
   this effect, wherever among the parts an error of age strikes.
6. `termination`. `main` asks for `os.Interrupt` only (`overpush.go:88`); the
   service scripts under `examples/` stop it with SIGTERM. Once asynq's server
   runs it catches SIGTERM too, and shuts itself down; the process goes on with an
   HTTP server that accepts messages nobody delivers. The run also shows what the
   passing `InterruptEnds` leaves out: an interrupt that arrives between `Notify`
   and the receive on the unbuffered channel is dropped.

Behaviours the passing runs contain, though no property refutes them:

* `application.Format` is read before the application is looked up
  (`routes.go:70`, `:105`): the route alone decides how a body is read, and a
  pushover application that is called by the path of its token gets a message
  without its text, answered with status 1 (`Value`).
* `helpers.go` fills an Apprise target's connection with `html/template` too, so
  that a message's field arrives escaped in its URL. That is not modelled: the
  repository does not say what such a URL may contain.
* Any error of a lookup, a database timeout included, is answered 404 "No active
  user with supplied token" (`routes.go:92-96`): `ApiGetUser` and
  `ApiGetApplication` with a failed `Read`. `AnswersFitRows` says that nothing but
  such a fault, or an edit, makes a 404 of a request whose rows are all there.
* A target created while the worker runs is not in the registry: every attempt on
  it panics until a restart, and the message is archived (`Execute`, third
  disjunct).
* In testing mode the worker made for a request has no targets, and its `Run`'s
  error is dropped: a message with somewhere to go ends the process
  (`CallWorker`).
* The health checks answer 200 whenever the server listens, also in a process
  whose `wrk.Run()` has returned an error nobody reads (`wrk = "failed"`).
* A write on a connection the server has dropped is a success until the system
  notices (`Writable`): XMPP gives Overpush no receipt.
* An error of `redis.Run` is `log.Fatal` (`worker.go:139-141`): the process ends at
  once, whatever handlers and pools are open (`RunServer`).

**Bounds.** `edits`: one request, two targets, one edit, one outage, one retry;
an attempt sees at most the state before and after an edit between any two of
its calls, which takes one edit, and the second target is there so that the
edit can redirect the application; six inputs, one for each way through the
handler; two slots, so that an attempt that was given up may go on beside one or
two that count. One retry gives a first, a
last and (after a requeue) an uncounted attempt; that the accounts stay right
with more is proved. `config_file`: two requests with two slots, so that two
attempts run side by side; no outages, which `edits` covers, and no edits, which
a file cannot have. `AnswersFitRows` and `OnceUnlessDisturbed` speak of behaviours
in which no call fails and no attempt is given up; for them the rows are all
enabled but for one thing, or there is no application (`FileRows`). `progress`: one request; no edits, which do not disable a fair
step. The inputs are named in `MCOverpush`. The targets' runs have no bound on
faults or calls, only on clients that exist at one time: three for two targets,
since a caller that reconnects alone dials only after it has closed. Where callers
race, a connection that leaked stays open, and a caller that finds no client left
waits; the states before that are the ones the run is about, and the proofs have
no such bound.

`content`: two retries, so that a second encryption could be encrypted again, and
a failure at each part be followed by one at another;
priorities on both sides of either limit; all settings and bodies with texts
that are empty or have a character to escape. `lifecycle`: each signal once,
since asynq's server ends at its first and `main` at the first it receives; one
request and two attempts, so that one attempt can end while the other is given
up; the proofs cover any number. `termination`: server, worker and database in
one process.

Deadlock is not checked: a system with nothing in its queue and no requests
left may stop.

**Symmetry** of handlers and, where two, requests is used in the safety runs
only.

**Fairness.** `Overpush!Fairness` is weak fairness of the worker's own steps:
each goroutine takes its next step (queries have a five second timeout, Apprise
ten; an XMPP write ends when the connection does), the server polls the queue
and recovers expired leases (asynq does both for as long as it runs), a server
that is stopping exits, and one that ended is started again (`Restart=on-failure`
in the systemd unit, or an administrator; `Start` is a start that succeeds). No
fairness is assumed of the API, of edits or of faults: a fault may always be
followed by another, up to `MaxRetry` and `MaxOutages`. `Targets!Fairness`:
`RunAll`, `ShutdownAll` and callers proceed; messages keep coming for every
target, to whichever caller is free (strong, because a target shares its callers
with the others); the operating system notices a dead connection. The servers' return
is not fair; the properties ask about behaviours in which they stay. `Lifecycle!Fairness`:
`main`, `Worker.Run` and `API.Run` go on; attempts and handlers end, since their
queries and programs have timeouts, or are given up by whoever waits for them
(asynq after eight seconds, fiber after five). Signals are not fair.

## 4. Proofs

`OverpushProofs`, `CauseProofs`, `StatsProofs` and `CalmProofs` prove, for any sets of
users, applications, targets, requests and handlers, any `MaxRetry`, `MaxOutages`,
`MaxEdits` and both kinds of setup:

| Theorem | States |
|---|---|
| `TypeCorrect` | `Spec => []TypeOK` |
| `HonestAnswers` | `Spec => []AnswersAreHonest` |
| `OwnedOnce` | `Spec => []OneOwner` |
| `AllAttemptsUsed` | `Spec => []AttemptsAddUp` |
| `NoSilentLoss` | `Spec => []DoneMeansDelivered` |
| `NoNeedlessDuplicates` | `Spec => []DuplicatesExcused` |
| `EnabledWhenWritten` | `Spec => WritesOnlyWhileEnabled` |
| `ImplementsDelivery` | `Spec => PromisedSafely` |
| `CauseKnown` | `Spec => []GivenUpWithCause` |
| `CountersBacked` | `Spec => []StatsBacked` |
| `CountersExact` | `Spec => []StatsExact` |
| `NeverMoreThanAttempts` | `Spec => []DeliveriesBounded` |
| `AnswersAreRight` | `Spec => []AnswersFitRows` |
| `SentOnceOrNotAtAll` | `Spec => []OnceUnlessDisturbed` |

The only assumptions are the named `ASSUME`s of `Store`, `Queue`, `Api` and
`Worker`; every run evaluates them.

None of the properties is inductive. The argument goes in layers:

* `Base` = `TypeOK` with `ApiInv` (what a request's `pc` says about its task:
  nothing is queued before "stat" except on a lost answer, and a queued message
  repeats the request's token and route), `TaskInv` (what a task's state says
  about its payload and its attempts), `HandlerInv` (a busy handler has a task
  that was queued; an attached one has an active task and its newest attempt;
  no two attached ones share a task) and `AnswersAreHonest`. A request that has not
  come to its enqueue is not in `doubted`, and one that was answered 500 is exactly
  if its task was stored. `OneOwner` and
  `AttemptsAddUp` are parts of it.
* `CopyInv`, on top of `Base`: a written attempt that is not in `unsure` is the
  newest, and its handler has gone past the delivery, or the task is completed.
  This is what makes a second attempt impossible after a success nobody lost.
  `DoneMeansDelivered` and `DuplicatesExcused` follow.
* `LitInv`: a handler past the application's lookup has seen the application
  enabled, one past the target's lookup has seen its target enabled, unless the
  message came by the submit route. `WritesOnlyWhileEnabled` follows.
* `DismissedInv`: a dismissed task is completed. With it each step maps to a
  step of `Delivery` or to a stutter.
* `Calm`, in `CauseProofs`, holds as long as nothing has disturbed the system:
  a live application's target is live, the registry is complete, a request past
  the first lookup names a live application, no attempt is detached, and each
  active task has a handler, so that nothing is ever left to recover. An attempt
  can then fail in one place only, the lookup of the application by the message's
  user key in a setup without a database (`LookupFails`), which is what
  `GivenUpWithCause` says.

* `TallyInv`, in `StatsProofs`, compares each counter with the set it counts. A
  counter lags behind by what is about to be counted: `Saved`, `Processed` and
  `Counted` are the messages and deliveries less the requests at "stat" and the
  attempts at "stat". For a step that counts, the set and the counter must grow by
  one, or only the set (a failed query, a crash): `Lags`. As long as nothing has
  disturbed the system they grow together: `Follows`. That the set grows by exactly
  one takes `Numbered`: an attempt that has not delivered is not in `written`, and
  no two handlers work on the same attempt of a task. The sets are finite because
  each step adds at most one element (`Finite`), so that nothing is assumed of the
  number of requests. `Deliveries` is a set of pairs rather than a sum over
  requests, since the library's theorems about sums take an operator as parameter.
  `DeliveriesBounded` follows from `Numbered` and `AttemptsAddUp`.
* `FitInv` and `AimInv`, in `CalmProofs`, also hold as long as nothing has
  disturbed the system. `FitInv` says what each value of a request's `pc` has
  learned about rows and body, so that the answer at its end is the right one;
  `AimInv` that a handler past a lookup works on the rows as they still are, so
  that a message that went out could go out and a dismissed one could not. With
  `CopyInv` and no attempt in `unsure`, a message that went out is never tried
  again.

Each preservation proof has one step per action; lemmas about `Put`, `Take`,
`Ack`, `Nack`, `Requeue`, `Count` and `Read` are shared.

`TargetsProofs` proves, for any sequence of targets, any callers and any faults:

| Theorem | States |
|---|---|
| `TargetsTypeCorrect` | `Spec => []TypeOK` |
| `CleanStart` | `Spec => []StartupCleansUp` |
| `HonestResults` | `Spec => []ResultsAreHonest` |
| `PanicHasCause` | `Spec => []ShutdownReachesAllUnlessRefused` |
| `OnlyRacesLeak` | `Spec => []LeaksNeedARace` |
| `OneCallerLeaksNothing` | with one caller, `Spec => []NothingLeaks` |

`StartInv` says that while `RunAll` is at work nobody calls, a target whose turn
has not come has no client, and every open connection is a target's; `CallInv`
that a caller works on a target of the kind its call belongs to. `ClientInv` says
that, as long as no reconnect was refused, each XMPP target that `RunAll` has
passed has a client, also between the two halves of a reconnect.
`LeakInv` says what holds until two callers reconnect the same target at once:
`Alone`, that at most one caller is between the two halves of a target's
reconnect, and `DialInv`, that meanwhile the old client is closed, so that the
assignment loses no open connection. Other callers may do anything else, and
reconnect other targets. A second caller on the same target breaks exactly that,
as the run `race` shows. `HonestResults` needs three more. `HandInv` says that nothing
is handed over before the end of a call. `Separate` says that no two targets share a
client, so that no reconnect touches another target's connection. `SendInv` says
what a caller may rely on between its keep-alive and its send: its client still
takes a message, or has been found dead since; for as long as `Alone` and
`ClientInv` hold, a client is closed only after it was found dead.

`ContentProofs` proves, for any priorities and any number of attempts:

| Theorem | States |
|---|---|
| `NeverSealedTwice` | `Spec => []SealedOnce` |
| `NothingInTheClear` | `Spec => []FailsClosed` |
| `TextsArriveAsSent` | `Spec => []TextsSurvive` |

What makes a retry safe is `TaskPlain` and `TaskCarried`: the queue never holds an
encrypted text, and always the one the route made of the body, so that each
attempt starts from the same plain one. `Copied` follows an attempt's own copy
through its parts: those it has come through (`Through`) are sealed if the flags
say so, those ahead are as in the task; `Skips` is the only way to the target that
goes around them (`SkipsWhen`).

`LifecycleProofs` proves, for any number of requests and attempts and every
configuration:

| Theorem | States |
|---|---|
| `LifecycleTypeCorrect` | `Spec => []TypeOK` |
| `NothingUsedBeforeSetUp` | `Spec => []NobodyMeetsNil` |
| `TargetsClosedLast` | `Spec => []TargetsOutliveAttempts` |
| `ReposClosedLast` | `Spec => []ReposOutliveHandlers` |
| `NothingStaysOpen` | `Spec => []NothingLeftOpen` |
| `NilNeedsFailure` | `Spec => []NilOnlyWithoutStart` |

`main` does not wait for the goroutines it starts, so that nothing follows from
where one of them is alone. `WorkerUp` and `ServerUp` say what `Run` has set up by
the call it has come to, `WorkerDown` and `ServerDown` what a shutdown has closed
by the call `main` has come to, and that a goroutine that has not begun has set up
nothing; `Orderly` that a shutdown that was not early
finds goroutines that set up nothing more.

Every invariant and every action property of a passing run is proved, and so is
the safety part of the refinement of `Delivery`. Model-checked only: liveness
(`AcceptedIsSettled`, the liveness in `Promised`, `RecoversUnlessRefused`,
`InterruptEnds`), which is out of the prover's reach, and of course what the
violated runs show.

## 5. Not modelled

* The expressions of a template: one yields any text, escaped. The fields of a
  message that nobody checks (device, URL, TTL, timestamp) and the text a target
  makes of them.
* The merge of an application's target arguments with the target's, and what
  `GetFieldValue` makes of an Apprise target's connection.
* The limiter's counters, the request log, CORS and health checks belong to
  fiber or keep no state the rest depends on; `api.go` only configures them. The
  limiter's key asks for the route's token before a route is matched
  (`api.go:103`), and the log's start time is shared by all requests
  (`fiberzap.go:60`): nothing in the repository says what either should be.
* The Lambda adapter: it translates a request for the same handler;
  `lambda.Start` takes the place of `Listen` and is never shut down.
* What go-xmpp makes of `DefaultConfig`, one variable all targets write in `Load`
  (`xmpp.go:48`).
* `ExecuteAll` and `GetApplicationsForUser`'s result: nobody uses them.
* Missing keys in `Load`'s arguments, which panic at the start. The systemd unit
  under `examples/` passes `-config`, while `main` exits with any argument
  (`overpush.go:28-31`).

## 6. Plan

Done: `Store`, `Queue`, `Api`, `Worker`, `Overpush`, `Delivery`, `Targets`,
`Content`, `Lifecycle`, and the proofs above. What is left:

1. An abstract module for what `Worker!Execute` assumes of a target, which
   `Targets` implements, and the registry of targets as a variable of both.
2. A proof that, where nothing is disturbed, a message that goes out does so in
   its first attempt.

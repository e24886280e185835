------------------------------- MODULE Targets -------------------------------
(***************************************************************************)
(* The targets inside the worker process: targets.Targets, which runs,     *)
(* calls and shuts down each configured target, and the two kinds there    *)
(* are.  An Apprise target starts a program per message and keeps nothing. *)
(* An XMPP target keeps one client, t.jabber, for all its callers; nothing *)
(* guards the field, and every caller may replace it.                      *)
(*                                                                         *)
(* go-xmpp and the network below it are modelled from how xmpp.go uses     *)
(* them: NewClient returns nil with its error; a method of a nil client    *)
(* panics; a write on a connection the server has dropped succeeds until   *)
(* the operating system has noticed, and fails from then on.  A panic in a *)
(* caller is recovered by asynq; one in Shutdown ends the process.         *)
(***************************************************************************)
EXTENDS Naturals, Sequences

CONSTANTS Order,    \* targetCfgs: the configured targets, in order
          Xmpp,     \* those of type "xmpp"; the others are of type "apprise"
          Callers,  \* goroutines that call Execute
          Clients,  \* bound: go-xmpp clients that exist at one time
          Null      \* a nil client, no target

VARIABLES phase,    \* of the process: "starting", "running", "stopping", ...
          next,     \* the index RunAll or ShutdownAll has come to
          jabber,   \* the client of each XMPP target
          link,     \* the connection of each client
          reach,    \* the XMPP targets whose server can be reached
          at,       \* the call each caller makes next, or "idle"
          dest,     \* the target it executes, none while it is idle
          handed,   \* history: what became of its message, see Fates
          result,   \* how its last Execute ended
          refused,  \* history: a reconnect has failed since RunAll
          raced     \* history: one began while another of that target went on

callVars == <<at, dest, handed, result>>
history == <<refused, raced>>
vars == <<phase, next, jabber, link, reach, callVars, history>>

Targets == {Order[i] : i \in DOMAIN Order}

\* Targets have unique IDs: the map in targets.go would mix up two of the same.
ASSUME TargetsAssumption ==
    /\ Order \in Seq(Targets)
    /\ \A i, j \in DOMAIN Order : Order[i] = Order[j] => i = j
    /\ Xmpp \subseteq Targets
    /\ Null \notin Targets \cup Clients

\* What becomes of a message: nothing yet, or it is written to an XMPP connection,
\* or passed on by apprise, or it is lost: its connection is found dead after the
\* keep-alive, or apprise fails to pass it on.
Fates == {"no", "written", "passed", "lost"}

Phases == {"starting", "running", "failed", "stopping", "stopped", "panicked"}

TypeOK ==
    /\ phase \in Phases
    /\ next \in 1..(Len(Order) + 1)
    /\ jabber \in [Xmpp -> Clients \cup {Null}]
    /\ link \in [Clients -> {"closed", "open", "stale", "broken"}]
    /\ reach \subseteq Xmpp
    /\ at \in [Callers -> {"idle", "ping", "close", "dial", "send", "spawn"}]
    /\ dest \in [Callers -> Targets \cup {Null}]
    /\ handed \in [Callers -> Fates]
    /\ result \in [Callers -> {"none", "ok", "error"}]
    /\ refused \in BOOLEAN
    /\ raced \in BOOLEAN

Init ==
    /\ phase = "starting"
    /\ next = 1
    /\ jabber = [t \in Xmpp |-> Null]
    /\ link = [c \in Clients |-> "closed"]
    /\ reach \in SUBSET Xmpp
    /\ at = [p \in Callers |-> "idle"]
    /\ dest = [p \in Callers |-> Null]
    /\ handed = [p \in Callers |-> "no"]
    /\ result = [p \in Callers |-> "none"]
    /\ refused = FALSE
    /\ raced = FALSE

-----------------------------------------------------------------------------
(* A target's client.                                                        *)

InUse == {jabber[t] : t \in Xmpp}

\* The names a new client of a target may have: a closed client of its own is
\* out of everybody's reach once it is replaced.
Fresh(t) == {c \in Clients : /\ link[c] = "closed"
                            /\ \A s \in Xmpp \ {t} : jabber[s] # c}

\* Mutant: the old client is left as it is.
LeftOpen(t) == link

\* t.jabber.Close(), if there is a client.
Closed(t) == IF jabber[t] = Null THEN link ELSE [link EXCEPT ![jabber[t]] = "closed"]

\* t.jabber, err = t.jabberOpts.NewClient()
Connect(t, from, ok) ==
    IF ok THEN /\ Fresh(t) # {}
               /\ LET c == CHOOSE c \in Fresh(t) : TRUE IN
                     /\ jabber' = [jabber EXCEPT ![t] = c]
                     /\ link' = [from EXCEPT ![c] = "open"]
          ELSE jabber' = [jabber EXCEPT ![t] = Null] /\ link' = from

Writable(t) == jabber[t] # Null /\ link[jabber[t]] \in {"open", "stale"}

-----------------------------------------------------------------------------
(* RunAll and ShutdownAll.                                                   *)

\* Mutant: a failed start leaves the targets that run alone.
RunNextOnly ==
    /\ phase = "starting" /\ next <= Len(Order)
    /\ \/ /\ Order[next] \notin Xmpp
          /\ UNCHANGED <<jabber, link, phase>>
       \/ /\ Order[next] \in reach
          /\ Connect(Order[next], link, TRUE)
          /\ UNCHANGED phase
       \/ /\ Order[next] \in Xmpp
          /\ Connect(Order[next], link, FALSE)
          /\ phase' = "failed"
    /\ next' = next + 1
    /\ UNCHANGED <<reach, callVars, history>>

\* The connections after Shutdown of the targets that run already.
AllClosed ==
    LET before == {Order[i] : i \in 1..(next - 1)} \cap Xmpp IN
    [c \in Clients |-> IF c \in {jabber[s] : s \in before} THEN "closed" ELSE link[c]]

\* Run of the next target; if it fails, those before it are shut down again.
\* A server that can be reached may refuse the client all the same.
RunNext ==
    /\ phase = "starting" /\ next <= Len(Order)
    /\ \/ /\ Order[next] \notin Xmpp
          /\ UNCHANGED <<jabber, link, phase>>
       \/ /\ Order[next] \in reach
          /\ Connect(Order[next], link, TRUE)
          /\ UNCHANGED phase
       \/ /\ Order[next] \in Xmpp
          /\ Connect(Order[next], AllClosed, FALSE)
          /\ phase' = "failed"
    /\ next' = next + 1
    /\ UNCHANGED <<reach, callVars, history>>

Running ==
    /\ phase = "starting" /\ next > Len(Order)
    /\ phase' = "running"
    /\ next' = 1
    /\ UNCHANGED <<jabber, link, reach, callVars, history>>

\* Attempts asynq no longer waits for go on while the targets are shut down.
Stop ==
    /\ phase = "running"
    /\ phase' = "stopping"
    /\ UNCHANGED <<next, jabber, link, reach, callVars, history>>

\* Mutant: counts one target too many.
ShutdownOneMore ==
    /\ phase = "stopping"
    /\ phase' = IF next > Len(Order) THEN "stopped" ELSE phase
    /\ next' = next + 1
    /\ UNCHANGED <<jabber, link, reach, callVars, history>>

ShutdownNext ==
    /\ phase = "stopping"
    /\ IF next > Len(Order)
       THEN phase' = "stopped" /\ UNCHANGED <<next, jabber, link>>
       ELSE LET t == Order[next] IN
            IF t \in Xmpp /\ jabber[t] = Null
            THEN phase' = "panicked" /\ UNCHANGED <<next, jabber, link>>
            ELSE /\ next' = next + 1
                 /\ link' = IF t \in Xmpp THEN Closed(t) ELSE link
                 /\ UNCHANGED <<phase, jabber>>
    /\ UNCHANGED <<reach, callVars, history>>

-----------------------------------------------------------------------------
(* Execute.                                                                  *)

Alive == phase \in {"running", "stopping"}

Goto(p, call) == at' = [at EXCEPT ![p] = call] /\ UNCHANGED <<dest, handed, result>>

\* Execute is over.
Finish(p, how) ==
    /\ at' = [at EXCEPT ![p] = "idle"]
    /\ dest' = [dest EXCEPT ![p] = Null]
    /\ result' = [result EXCEPT ![p] = how]

\* An error before the message's turn, returned or recovered from a panic.
Error(p) == Finish(p, "error") /\ UNCHANGED handed

Execute(p, t) ==
    /\ phase = "running"
    /\ at[p] = "idle"
    /\ at' = [at EXCEPT ![p] = IF t \in Xmpp THEN "ping" ELSE "spawn"]
    /\ dest' = [dest EXCEPT ![p] = t]
    /\ handed' = [handed EXCEPT ![p] = "no"]
    /\ result' = [result EXCEPT ![p] = "none"]
    /\ UNCHANGED <<phase, next, jabber, link, reach, history>>

Reconnecting(t) == {p \in Callers : at[p] \in {"close", "dial"} /\ dest[p] = t}

\* Mutant: a failed keep-alive fails the attempt; nobody reconnects.
PingOrFail(p) ==
    /\ Alive /\ at[p] = "ping"
    /\ IF Writable(dest[p]) THEN Goto(p, "send") ELSE Error(p)
    /\ UNCHANGED <<phase, next, jabber, link, reach, history>>

SendKeepAlive(p) ==
    /\ Alive /\ at[p] = "ping"
    /\ IF jabber[dest[p]] = Null THEN Error(p)
       ELSE Goto(p, IF Writable(dest[p]) THEN "send" ELSE "close")
    /\ raced' = (raced \/ (at'[p] = "close" /\ Reconnecting(dest[p]) # {}))
    /\ UNCHANGED <<phase, next, jabber, link, reach, refused>>

\* Mutant: the closed client is forgotten at once.
CloseAndForget(p) ==
    /\ Alive /\ at[p] = "close"
    /\ link' = Closed(dest[p])
    /\ jabber' = [jabber EXCEPT ![dest[p]] = Null]
    /\ Goto(p, "dial")
    /\ UNCHANGED <<phase, next, reach, history>>

\* reconnect, first half
CloseExisting(p) ==
    /\ Alive /\ at[p] = "close"
    /\ link' = Closed(dest[p])
    /\ Goto(p, "dial")
    /\ UNCHANGED <<phase, next, jabber, reach, history>>

\* reconnect, second half
NewClient(p) ==
    /\ Alive /\ at[p] = "dial"
    /\ \/ /\ dest[p] \in reach
          /\ Connect(dest[p], link, TRUE)
          /\ Goto(p, "send")
          /\ UNCHANGED refused
       \/ /\ Connect(dest[p], link, FALSE)
          /\ Error(p)
          /\ refused' = TRUE
    /\ UNCHANGED <<phase, next, reach, raced>>

\* What becomes of a message that is sent to an XMPP target now.
Fate(p) == IF Writable(dest[p]) THEN "written" ELSE handed[p]

\* Mutant: a failed Send is logged and taken for a success.
SendOrLog(p) ==
    /\ Alive /\ at[p] = "send"
    /\ handed' = [handed EXCEPT ![p] = Fate(p)]
    /\ Finish(p, "ok")
    /\ UNCHANGED <<phase, next, jabber, link, reach, history>>

\* A nil client panics, a connection that is closed or known to be broken
\* returns an error.
Send(p) ==
    /\ Alive /\ at[p] = "send"
    /\ handed' = [handed EXCEPT ![p] = Fate(p)]
    /\ Finish(p, IF Writable(dest[p]) THEN "ok" ELSE "error")
    /\ UNCHANGED <<phase, next, jabber, link, reach, history>>

\* apprise: bad arguments, a failed start, exit code or the ten second limit
\* are errors; the program may have delivered before the last two.
Spawn(p) ==
    /\ Alive /\ at[p] = "spawn"
    /\ \/ handed' = [handed EXCEPT ![p] = "passed"] /\ Finish(p, "ok")
       \/ /\ \E fate \in {"passed", "lost"} : handed' = [handed EXCEPT ![p] = fate]
          /\ Finish(p, "error")
    /\ UNCHANGED <<phase, next, jabber, link, reach, history>>

Step(p) ==
    \/ SendKeepAlive(p)
    \/ CloseExisting(p)
    \/ NewClient(p)
    \/ Send(p)
    \/ Spawn(p)

-----------------------------------------------------------------------------
(* The network.  It makes no difference to anyone once the process is over.   *)

Watched == phase \in {"starting", "running", "stopping"}

\* A server goes away, and with it its target's connection.  (What becomes of
\* a connection that no target holds any more makes no difference to anyone.)
Outage(t) ==
    /\ Watched
    /\ t \in reach /\ reach' = reach \ {t}
    /\ link' = [c \in Clients |-> IF c = jabber[t] /\ link[c] = "open"
                                 THEN "stale" ELSE link[c]]
    /\ UNCHANGED <<phase, next, jabber, callVars, history>>

Return(t) ==
    /\ Watched
    /\ t \notin reach /\ reach' = reach \cup {t}
    /\ UNCHANGED <<phase, next, jabber, link, callVars, history>>

Notice(c) ==
    /\ Watched
    /\ link[c] = "stale"
    /\ link' = [link EXCEPT ![c] = "broken"]
    /\ handed' = [p \in Callers |-> IF at[p] = "send" /\ jabber[dest[p]] = c
                                     THEN "lost" ELSE handed[p]]
    /\ UNCHANGED <<phase, next, jabber, reach, at, dest, result, history>>

Next ==
    \/ RunNext \/ Running \/ Stop \/ ShutdownNext
    \/ \E p \in Callers : Step(p) \/ \E t \in Targets : Execute(p, t)
    \/ \E t \in Xmpp : Outage(t) \/ Return(t)
    \/ \E c \in Clients : Notice(c)

Spec == Init /\ [][Next]_vars

(* The process goes through its start and its end, callers through their   *)
(* calls; every target keeps getting messages; the system notices a dead   *)
(* connection.                                                             *)
Fairness ==
    /\ WF_vars(RunNext) /\ WF_vars(Running) /\ WF_vars(ShutdownNext)
    /\ \A p \in Callers : WF_vars(Step(p))
    /\ \A t \in Targets : SF_vars(\E p \in Callers : Execute(p, t))
    /\ WF_vars(\E c \in Clients : Notice(c))

FairSpec == Spec /\ Fairness

-----------------------------------------------------------------------------
(* Properties.                                                               *)

\* reconnect closes the client it replaces: no connection stays open that no
\* target can reach any more (xmpp.go 78-81).
NothingLeaks ==
    phase \in {"starting", "running"} =>
        \A c \in Clients : link[c] # "closed" => c \in InUse

\* That takes two callers that reconnect one target at the same time: nothing
\* guards t.jabber, but nothing else leaks either.
LeaksNeedARace == ~raced => NothingLeaks

\* A start that fails half way leaves no connection behind (targets.go 96-101).
StartupCleansUp == phase = "failed" => \A c \in Clients : link[c] = "closed"

\* What the worker takes from a result.  After a success the message has been
\* written to a connection that still took it, or passed on by apprise; after an
\* error of an XMPP target it has not, so that the retry repeats nothing.  And an
\* attempt on an XMPP target is not failed by what the keep-alive could have
\* found out: as long as no server refused a reconnect and no two callers
\* reconnected one target, it fails only if the connection was found dead between
\* its own keep-alive, or reconnect, and its send, whatever other callers did to
\* the client in the meantime (xmpp.go 101-126, apprise.go 47-100).
ResultsAreHonest ==
    \A p \in Callers :
        /\ result[p] = "ok" => handed[p] \in {"written", "passed"}
        /\ result[p] = "error" => handed[p] # "written"
        /\ result[p] = "error" /\ phase = "running" /\ ~(refused \/ raced)
              => handed[p] # "no"

Connected(t) == jabber[t] # Null /\ link[jabber[t]] = "open"
Settled == reach = Xmpp /\ phase = "running"

\* After an outage the keep-alive and the reconnect that follows it bring every
\* target back, as long as no reconnect met a server that was still away or
\* another reconnect.
RecoversUnlessRefused ==
    <>[]Settled /\ []~(refused \/ raced) => <>[](\A t \in Xmpp : Connected(t))

\* "XMPP failed to SendKeepAlive, attempting reconnect ..." (xmpp.go 105): once
\* the servers stay reachable, messages make every target connect again.
Recovers == <>[]Settled => <>[](\A t \in Xmpp : Connected(t))

\* "Worker shutdown with target errors" (worker.go 158): ShutdownAll collects
\* what goes wrong with each target and comes to the last one, also while
\* callers reconnect, as long as no reconnect met a server that was away.
ShutdownReachesAllUnlessRefused == phase = "panicked" => refused

=============================================================================

-------------------------------- MODULE Api --------------------------------
(***************************************************************************)
(* The HTTP handler of the API server: it looks up the user and the        *)
(* application behind a token, saves what it was sent, puts a task into    *)
(* the queue, counts it and answers.  Each call that leaves the process    *)
(* (a query, an enqueue) is a step of its own; what the handler computes   *)
(* between two calls belongs to the step of the first.                     *)
(*                                                                         *)
(* Three routes share the handler:                                         *)
(*   "pushover"  POST /1/messages.json           the token is in the body  *)
(*   "submit"    POST /_internal/submit/:token   from the SMTP front end   *)
(*   "custom"    POST /:token                    any body, mapped          *)
(***************************************************************************)
EXTENDS Queue

Routes == {"pushover", "submit", "custom"}

\* What a client sends: the user key and the "_internal" flag it claims in its
\* body, and whether the body can be parsed.
Input == [route: Routes, token: Apps, user: Users \cup {Null},
          via: BOOLEAN, parses: BOOLEAN]

CONSTANT Inputs   \* the inputs a run considers

ASSUME ApiAssumption == Inputs \subseteq Input

VARIABLES input,    \* what each request sends
          pc,       \* the call its handler makes next
          reply,    \* the status code it was answered with, 0 before that
          doubted   \* history: the requests whose task Redis has stored, though
                    \* the handler was told of an error

apiVars == <<input, pc, reply, doubted>>

Waits == {"user", "app", "save", "enqueue", "stat"}

ApiTypeOK ==
    /\ input \in [Requests -> Inputs]
    /\ pc \in [Requests -> Waits \cup {"new", "done", "lost"}]
    /\ reply \in [Requests -> {0, 200, 400, 404, 500}]
    /\ doubted \in SUBSET Requests

ApiInit ==
    /\ input \in [Requests -> Inputs]
    /\ pc = [r \in Requests |-> "new"]
    /\ reply = [r \in Requests |-> 0]
    /\ doubted = {}

-----------------------------------------------------------------------------

Token(r) == input[r].token
ViaSubmit(r) == input[r].route = "submit"
Custom(r) == input[r].route = "custom"

Goto(r, call) ==
    /\ pc' = [pc EXCEPT ![r] = call]
    /\ UNCHANGED <<input, reply>>

\* Mutant: a 404 is written but the handler does not return.
AnswerAndGoOn(r, code) ==
    /\ pc' = [pc EXCEPT ![r] = IF code = 404 THEN "enqueue" ELSE "done"]
    /\ reply' = [reply EXCEPT ![r] = code]
    /\ UNCHANGED input

Answer(r, code) ==
    /\ pc' = [pc EXCEPT ![r] = "done"]
    /\ reply' = [reply EXCEPT ![r] = code]
    /\ UNCHANGED input

\* A disabled user or application stops every route but the submit route.
Admits(r, enable) == ViaSubmit(r) \/ enable

\* Mutant: the custom route, too, keeps the user key of the body.
BoundUnowned(r) ==
    [user |-> input[r].user, token |-> Token(r), via |-> input[r].via]

\* The message as bound from the body, or, on the custom route, as mapped.
Bound(r) ==
    IF Custom(r)
    THEN [user |-> Owner[Token(r)], token |-> Token(r), via |-> FALSE]
    ELSE [user |-> input[r].user, token |-> Token(r), via |-> input[r].via]

ClearInternal(m) == [m EXCEPT !.via = FALSE]
SetViaSubmit(m, v) == [m EXCEPT !.via = v]

\* Mutant: what the client claims about the "_internal" fields is kept.
ClaimedPayload(r) == IF ViaSubmit(r) THEN SetViaSubmit(Bound(r), TRUE) ELSE Bound(r)

Payload(r) == SetViaSubmit(ClearInternal(Bound(r)), ViaSubmit(r))

-----------------------------------------------------------------------------

\* Only the pushover and submit routes parse the body this early.
Receive(r) ==
    /\ pc[r] = "new"
    /\ IF Custom(r) \/ input[r].parses THEN Goto(r, "user") ELSE Answer(r, 400)
    /\ UNCHANGED <<storeVars, queueVars, doubted>>

\* An outage of the database is answered like an unknown token.
ApiGetUser(r) ==
    /\ pc[r] = "user"
    /\ \E ok \in Outcomes :
         /\ Read(ok)
         /\ IF ok /\ GetUserFromToken(Token(r))
                  /\ Admits(r, userEnable[Owner[Token(r)]])
            THEN Goto(r, "app")
            ELSE Answer(r, 404)
    /\ UNCHANGED <<queueVars, doubted>>

ApiGetApplication(r) ==
    /\ pc[r] = "app"
    /\ \E ok \in Outcomes :
         /\ Read(ok)
         /\ IF ~(ok /\ GetApplication(Owner[Token(r)], Token(r))
                    /\ Admits(r, app[Token(r)].enable))
            THEN Answer(r, 404)
            ELSE IF Custom(r) /\ ~input[r].parses
            THEN Answer(r, 400)
            ELSE Goto(r, IF ViaSubmit(r) THEN "enqueue" ELSE "save")
    /\ UNCHANGED <<queueVars, doubted>>

\* A failed SaveInput is only logged.
SaveInput(r) ==
    /\ pc[r] = "save"
    /\ \E ok \in Outcomes : Count(Token(r), "received", ok)
    /\ Goto(r, "enqueue")
    /\ UNCHANGED <<queueVars, doubted>>

\* Mutant: the error is logged, the answer says that all is well.
EnqueueUnchecked(r) ==
    /\ pc[r] = "enqueue"
    /\ Put(r, Payload(r)) \/ UNCHANGED queueVars
    /\ Answer(r, 200)
    /\ UNCHANGED <<storeVars, doubted>>

\* The error the client library returns does not tell whether Redis has the
\* task: the answer may have been lost on its way back.
Enqueue(r) ==
    /\ pc[r] = "enqueue"
    /\ \/ /\ Put(r, Payload(r))
          /\ IF ViaSubmit(r) THEN Answer(r, 200) ELSE Goto(r, "stat")
          /\ UNCHANGED <<storeVars, doubted>>
       \/ /\ \/ Put(r, Payload(r)) /\ doubted' = doubted \cup {r}
             \/ UNCHANGED <<queueVars, doubted>>
          /\ Answer(r, 500)
          /\ Read(FALSE)

\* Mutant: counts under the wrong name.
IncrementMislabelled(r) ==
    /\ pc[r] = "stat"
    /\ \E ok \in Outcomes : Count(Token(r), "received", ok)
    /\ Answer(r, 200)
    /\ UNCHANGED <<queueVars, doubted>>

\* Mutant: a failed count is answered like a failed enqueue.
IncrementProcessedOrFail(r) ==
    /\ pc[r] = "stat"
    /\ \E ok \in Outcomes : /\ Count(Token(r), "processed", ok)
                           /\ Answer(r, IF ok THEN 200 ELSE 500)
    /\ UNCHANGED <<queueVars, doubted>>

\* A failed IncrementStat is only logged.
IncrementProcessed(r) ==
    /\ pc[r] = "stat"
    /\ \E ok \in Outcomes : Count(Token(r), "processed", ok)
    /\ Answer(r, 200)
    /\ UNCHANGED <<queueVars, doubted>>

\* The process dies: its requests in flight are never answered.
CrashApi ==
    /\ \E r \in Requests : pc[r] \in Waits
    /\ pc' = [r \in Requests |-> IF pc[r] \in Waits THEN "lost" ELSE pc[r]]
    /\ Read(FALSE)
    /\ UNCHANGED <<input, reply, doubted, queueVars>>

Handle(r) ==
    \/ Receive(r)
    \/ ApiGetUser(r)
    \/ ApiGetApplication(r)
    \/ SaveInput(r)
    \/ Enqueue(r)
    \/ IncrementProcessed(r)

=============================================================================

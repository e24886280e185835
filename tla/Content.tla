------------------------------- MODULE Content -------------------------------
(***************************************************************************)
(* What becomes of a message's contents between the client's body and the  *)
(* target: the handler binds the body to a message or maps it with the     *)
(* application's custom format, validates it and marshals it into a task.  *)
(* Each attempt of the worker unmarshals the task, encrypts the parts the  *)
(* application asks for, one after the other and in place, and hands the   *)
(* result to the target; each of these steps may fail.                     *)
(*                                                                         *)
(* A text is empty, plain, marked (with a character that HTML reserves,    *)
(* such as a quote, an ampersand or a plus sign), escaped as HTML, sealed  *)
(* by age, or sealed twice.                                                *)
(***************************************************************************)
EXTENDS Integers

CONSTANTS Priorities,  \* the priorities a body may name
          Given,       \* the texts a body may contain
          MaxTries     \* bound: failed attempts of one task

VARIABLES app,    \* the application
          body,   \* what the client sends
          at,     \* the message's place: see Places
          task,   \* the message in the task's payload
          msg,    \* the current attempt's own copy of it
          tries,  \* failed attempts
          out     \* what reached the target

vars == <<app, body, at, task, msg, tries, out>>

\* An attempt is at the part it encrypts next, or at the call of the target.
Places == {"new", "rejected", "queued", "title", "message", "attachment",
           "execute", "done"}

Unsealed == {"", "plain", "marked", "escaped"}
Texts    == Unsealed \cup {"sealed", "twice"}
Parts    == {"title", "message", "attachment"}

Message == [title: Texts, message: Texts, attachment: Texts,
            html: Int, priority: Int]

Empty == [title |-> "", message |-> "", attachment |-> "", html |-> 0, priority |-> 0]

Application == [type: {"none", "age"}, recipients: {"good", "bad", "none"},
                title: BOOLEAN, message: BOOLEAN, attachment: BOOLEAN,
                format: {"pushover", "custom"}]

\* On the custom route a field stands for what the application's template
\* finds in the body: any text, or nothing.  Only there can a priority not be
\* a number; on the other routes such a body could not be bound.
Body == {b \in [custom: BOOLEAN, numeric: BOOLEAN,
                title: Given, message: Given, attachment: Given,
                html: 0..2, priority: Priorities] :
           b.numeric \/ b.custom}

ASSUME ContentAssumption ==
    /\ Priorities \subseteq Int
    /\ Given \subseteq {"", "plain", "marked"}
    /\ MaxTries \in Nat

TypeOK ==
    /\ app \in Application
    /\ body \in Body
    /\ at \in Places
    /\ task \in Message
    /\ msg \in Message
    /\ tries \in 0..MaxTries
    /\ out \in SUBSET Message

Init ==
    /\ app \in Application
    /\ body \in Body
    /\ at = "new"
    /\ task = Empty
    /\ msg = Empty
    /\ tries = 0
    /\ out = {}

-----------------------------------------------------------------------------
(* The handler.                                                              *)

\* CFormat uses html/template.
Interpolated(text) == IF text = "marked" THEN "escaped" ELSE text

\* An application of the other format has no templates.
Templated == app.format = "custom"

\* CFormat.GetValue
Value(text) == IF Templated THEN Interpolated(text) ELSE ""

Bound == [title |-> body.title, message |-> body.message,
          attachment |-> body.attachment, html |-> body.html,
          priority |-> body.priority]

HTML     == IF Templated /\ body.html \in {0, 1} THEN body.html ELSE 0
Priority == IF Templated /\ body.numeric /\ body.priority \in -2..2
            THEN body.priority ELSE 0

Mapped == [title |-> Value(body.title), message |-> Value(body.message),
           attachment |-> Value(body.attachment), html |-> HTML,
           priority |-> Priority]

\* The rules message.Message states in its "validate" tags.
Obeys(m, field) ==
    /\ field = "message"  => m.message # ""
    /\ field = "html"     => m.html \in 0..1
    /\ field = "priority" => m.priority \in -2..2

Stated == {"message", "html", "priority"}

\* The rules the validator finds: a comma between two keys of a struct tag
\* hides the second one from reflection.
Found == {}

Valid(m) == \A field \in Found : Obeys(m, field)

\* Mutant: the title is marshalled under the message's name as well.
MarshalledTwice(m) == [m EXCEPT !.message = m.title, !.attachment = ""]

\* Two fields share the JSON name "attachment": neither is marshalled.
Marshalled(m) == [m EXCEPT !.attachment = ""]

\* The application's format is read before the application is there: it is the
\* route that decides (routes.go 70).
Handle ==
    /\ at = "new"
    /\ LET m == IF body.custom THEN Mapped ELSE Bound IN
       IF Valid(m) THEN at' = "queued" /\ task' = Marshalled(m)
                   ELSE at' = "rejected" /\ UNCHANGED task
    /\ UNCHANGED <<app, body, msg, tries, out>>

-----------------------------------------------------------------------------
(* The worker.                                                               *)

\* title == false && message == false == attachment == false
Skips == ~app.title /\ (((app.message = FALSE) = app.attachment) = FALSE)

Seal(text) == IF text \in {"sealed", "twice"} THEN "twice" ELSE "sealed"

\* Mutant: what the attempt encrypted is what the queue holds from now on.
FailInPlace ==
    /\ tries < MaxTries
    /\ tries' = tries + 1
    /\ at' = "queued"
    /\ msg' = Empty
    /\ task' = msg

\* The attempt returns an error: its copy is gone, with all that it encrypted,
\* and asynq tries again.  The last failure, which archives the task, would
\* change nothing here and is left out.
Fail ==
    /\ tries < MaxTries
    /\ tries' = tries + 1
    /\ at' = "queued"
    /\ msg' = Empty
    /\ UNCHANGED task

\* The attempt unmarshals the task, and EncryptWithAge parses the recipients
\* unless its first line returns.
Begin ==
    /\ at = "queued"
    /\ \/ /\ app.type = "none" \/ Skips
          /\ at' = "execute" /\ msg' = task
          /\ UNCHANGED <<task, tries>>
       \/ /\ app.type = "age" /\ ~Skips /\ app.recipients # "bad"
          /\ at' = "title" /\ msg' = task
          /\ UNCHANGED <<task, tries>>
       \/ /\ app.type = "age" /\ ~Skips /\ app.recipients = "bad"
          /\ Fail
    /\ UNCHANGED <<app, body, out>>

\* Mutant: an error of age is logged, and the part goes out as it is.
EncryptOrLog(part, next) ==
    /\ at = part
    /\ at' = next
    /\ \/ msg' = IF app[part] /\ (part = "attachment" => msg[part] # "")
                 THEN [msg EXCEPT ![part] = Seal(@)] ELSE msg
       \/ UNCHANGED msg
    /\ UNCHANGED <<app, body, task, tries, out>>

\* One part is encrypted in place if the application wants it, and next comes
\* the next one.  age returns an error for want of a recipient, and it may
\* return one at any time.
Encrypt(part, next) ==
    /\ at = part
    /\ \/ /\ app[part] => app.recipients = "good"
          /\ msg' = IF app[part] /\ (part = "attachment" => msg[part] # "")
                    THEN [msg EXCEPT ![part] = Seal(@)] ELSE msg
          /\ at' = next
          /\ UNCHANGED <<task, tries>>
       \/ app[part] /\ Fail
    /\ UNCHANGED <<app, body, out>>

EncryptTitle      == Encrypt("title", "message")
EncryptMessage    == Encrypt("message", "attachment")
EncryptAttachment == Encrypt("attachment", "execute")

\* The target fails, and may have got the message, or it takes it.
Execute ==
    /\ at = "execute"
    /\ \/ out' \in {out, out \cup {msg}} /\ Fail
       \/ /\ out' = out \cup {msg}
          /\ at' = "done"
          /\ UNCHANGED <<task, msg, tries>>
    /\ UNCHANGED <<app, body>>

Next ==
    \/ Handle
    \/ Begin
    \/ EncryptTitle \/ EncryptMessage \/ EncryptAttachment
    \/ Execute

Spec == Init /\ [][Next]_vars

-----------------------------------------------------------------------------
(* Properties.                                                               *)

Asked == {part \in Parts : app[part]}

\* However often an attempt is repeated, and wherever it failed before, no part
\* of what arrives is encrypted twice (worker.go 171-174).
SealedOnce ==
    \A m \in out : \A part \in Parts : m[part] # "twice"

\* The flags that the first line of EncryptWithAge takes for none (worker.go
\* 271; FlagsHold is about them).
Overlooked == ~app.title /\ app.message /\ app.attachment

\* An error of age, at whichever part, lets nothing out: with any other flags a
\* message of which parts are to be encrypted arrives with each of its texts
\* encrypted that is to be, and with recipients age cannot encrypt for it does
\* not arrive (worker.go 218-231, 275-338).
FailsClosed ==
    app.type = "age" /\ Asked # {} /\ ~Overlooked =>
        \A m \in out :
            /\ app.recipients = "good"
            /\ \A part \in Asked \ {"attachment"} : m[part] = "sealed"

\* message.go 8-15: the message is "required", html is "min=0,max=1", priority
\* is "min=-2,max=2", and the handler says "Validating request...".
TagsHold ==
    at \notin {"new", "rejected"} => \A field \in Stated : Obeys(task, field)

\* application.go 11-15: an application whose EncryptionType is "age" has the
\* parts encrypted that its flags name.
FlagsHold ==
    app.type = "age" =>
        \A m \in out : \A part \in Asked \ {"attachment"} : m[part] = "sealed"

\* A text arrives as the client gave it, or sealed where the application asks
\* for that.
Arrives(part) ==
    \A m \in out :
        \/ m[part] = body[part]
        \/ m[part] = "sealed" /\ app.type = "age" /\ app[part]

\* On the pushover and submit routes nothing but encryption touches a text on
\* its way through handler, queue and retries, and none gets into another's
\* place (routes.go 52-75, 250; worker.go 171-174).
TextsSurvive ==
    ~body.custom => Arrives("title") /\ Arrives("message")

\* README.md 54-56: custom templates are written in "Go's `text/template`
\* syntax to extract and transform data"; text/template inserts a value as it is.
TemplatesAreText ==
    body.custom /\ Templated => Arrives("title") /\ Arrives("message")

=============================================================================

--------------------------- MODULE ContentProofs ---------------------------
(***************************************************************************)
(* Proofs about the contents of messages, for any priorities a body may    *)
(* name and any number of attempts.                                        *)
(***************************************************************************)
EXTENDS Content, TLAPS

\* What the queue holds is never encrypted: that is what makes a retry safe.
TaskPlain == \A part \in Parts : task[part] \in Unsealed

\* On the routes without templates the queue holds the texts of the body.
TaskCarried ==
    ~body.custom /\ at \notin {"new", "rejected"} =>
        task.title = body.title /\ task.message = body.message

\* EncryptWithAge has come past its first line and the recipients.
Encrypting == app.type = "age" /\ ~Skips

\* A part the attempt is through with, and one it has not come to.
Through(part) ==
    IF app[part] THEN /\ app.recipients = "good"
                      /\ msg[part] \in {"sealed", task[part]}
                      /\ part # "attachment" => msg[part] = "sealed"
                 ELSE msg[part] = task[part]
Ahead(part) == msg[part] = task[part]

\* The attempt's copy is the task, up to the parts it has encrypted so far.
Copied ==
    /\ at = "title" =>
         Encrypting /\ Ahead("title") /\ Ahead("message") /\ Ahead("attachment")
    /\ at = "message" =>
         Encrypting /\ Through("title") /\ Ahead("message") /\ Ahead("attachment")
    /\ at = "attachment" =>
         Encrypting /\ Through("title") /\ Through("message") /\ Ahead("attachment")
    /\ at = "execute" /\ Encrypting =>
         Through("title") /\ Through("message") /\ Through("attachment")
    /\ at = "execute" /\ ~Encrypting =>
         Ahead("title") /\ Ahead("message") /\ Ahead("attachment")

Inv == /\ TypeOK /\ TaskPlain /\ TaskCarried /\ Copied
       /\ SealedOnce /\ FailsClosed /\ TextsSurvive

\* What the properties ask of a message that goes out.
Fit(m) ==
    /\ \A part \in Parts : m[part] # "twice"
    /\ app.type = "age" /\ Asked # {} /\ ~Overlooked =>
         /\ app.recipients = "good"
         /\ \A part \in Asked \ {"attachment"} : m[part] = "sealed"
    /\ ~body.custom =>
         \A part \in {"title", "message"} :
            \/ m[part] = body[part]
            \/ m[part] = "sealed" /\ app.type = "age" /\ app[part]

LEMMA MaxTriesNat == MaxTries \in Nat
BY ContentAssumption DEF ContentAssumption

\* The first line of EncryptWithAge returns if no part is asked for, and if
\* the flags are the overlooked ones.
LEMMA SkipsWhen ==
    ASSUME app \in Application
    PROVE  Skips <=> Asked = {} \/ Overlooked
<1>1. /\ app.title \in BOOLEAN
      /\ app.message \in BOOLEAN
      /\ app.attachment \in BOOLEAN
  BY DEF Application
<1>2. Asked = {} <=> ~app.title /\ ~app.message /\ ~app.attachment
  BY DEF Asked, Parts
<1>3. (((app.message = FALSE) = app.attachment) = FALSE)
        <=> (app.message <=> app.attachment)
  BY <1>1, Zenon
<1> QED BY <1>1, <1>2, <1>3 DEF Skips, Overlooked

\* What reaches the target is fit to.
LEMMA CopyFits ==
    ASSUME Inv, at = "execute"
    PROVE  Fit(msg)
<1> USE DEF Inv
<1>1. app \in Application /\ msg \in Message /\ task \in Message BY DEF TypeOK
<1>2. /\ task.title \in Unsealed
      /\ task.message \in Unsealed
      /\ task.attachment \in Unsealed
  BY DEF TaskPlain, Parts
<1>3. /\ app.title \in BOOLEAN
      /\ app.message \in BOOLEAN
      /\ app.attachment \in BOOLEAN
  BY <1>1 DEF Application
<1>4. ~body.custom => task.title = body.title /\ task.message = body.message
  BY DEF TaskCarried
<1>5. CASE Encrypting
  <2>1. Through("title") /\ Through("message") /\ Through("attachment")
    BY <1>5 DEF Copied
  <2>2. \A part \in Parts : msg[part] # "twice"
    BY <1>2, <1>3, <2>1 DEF Through, Parts, Unsealed
  <2>3. Asked # {} => app.recipients = "good"
    BY <2>1 DEF Asked, Parts, Through
  <2>4. \A part \in Asked \ {"attachment"} : msg[part] = "sealed"
    BY <2>1 DEF Asked, Parts, Through
  <2>5. ~body.custom =>
          \A part \in {"title", "message"} :
            \/ msg[part] = body[part]
            \/ msg[part] = "sealed" /\ app.type = "age" /\ app[part]
    BY <1>4, <1>5, <2>1 DEF Through, Encrypting
  <2> QED BY <2>2, <2>3, <2>4, <2>5 DEF Fit
<1>6. CASE ~Encrypting
  <2>1. Ahead("title") /\ Ahead("message") /\ Ahead("attachment")
    BY <1>6 DEF Copied
  <2>2. \A part \in Parts : msg[part] # "twice"
    BY <1>2, <2>1 DEF Ahead, Parts, Unsealed
  <2>3. ~(app.type = "age" /\ Asked # {} /\ ~Overlooked)
    BY <1>1, <1>6, SkipsWhen DEF Encrypting
  <2>4. ~body.custom =>
          \A part \in {"title", "message"} : msg[part] = body[part]
    BY <1>4, <2>1 DEF Ahead
  <2> QED BY <2>2, <2>3, <2>4 DEF Fit
<1> QED BY <1>5, <1>6

\* The properties look at nothing but the messages that went out.
LEMMA OutOK ==
    ASSUME Inv, UNCHANGED <<app, body>>,
           \/ out' = out
           \/ at = "execute" /\ out' = out \cup {msg}
    PROVE  SealedOnce' /\ FailsClosed' /\ TextsSurvive'
<1>1. \A m \in out : Fit(m)
  BY DEF Inv, Fit, SealedOnce, FailsClosed, TextsSurvive, Arrives
<1>2. \A m \in out' : Fit(m) BY <1>1, CopyFits
<1> QED BY <1>2
     DEF Fit, SealedOnce, FailsClosed, TextsSurvive, Arrives, Asked, Overlooked

LEMMA HandledOK ==
    ASSUME Inv, Handle
    PROVE  Inv'
<1> USE DEF Inv
<1>1. PICK m \in {Bound, Mapped} :
         /\ ~body.custom => m = Bound
         /\ \/ at' = "queued" /\ task' = Marshalled(m)
            \/ at' = "rejected" /\ task' = task
  BY DEF Handle
<1>2. UNCHANGED <<app, body, msg, tries, out>> BY DEF Handle
<1>3. /\ body.title \in Unsealed
      /\ body.message \in Unsealed
      /\ body.attachment \in Unsealed
      /\ body.html \in Int
      /\ body.priority \in Int
  <2>1. body \in [custom: BOOLEAN, numeric: BOOLEAN,
                  title: Given, message: Given, attachment: Given,
                  html: 0..2, priority: Priorities]
    BY DEF TypeOK, Body
  <2>2. /\ body.title \in Unsealed
        /\ body.message \in Unsealed
        /\ body.attachment \in Unsealed
    BY <2>1, ContentAssumption DEF ContentAssumption, Unsealed
  <2>3. body.html \in Int
    <3>1. body.html \in 0..2 BY <2>1
    <3>2. 0..2 \subseteq Int OBVIOUS
    <3> QED BY <3>1, <3>2
  <2>4. body.priority \in Int BY <2>1, ContentAssumption DEF ContentAssumption
  <2> QED BY <2>2, <2>3, <2>4
<1>4. \A text \in Unsealed : Value(text) \in Unsealed
  BY DEF Value, Interpolated, Unsealed
<1>5. Bound \in Message /\ Mapped \in Message
  <2>1. HTML \in Int /\ Priority \in Int BY <1>3 DEF HTML, Priority
  <2> QED BY <1>3, <1>4, <2>1 DEF Bound, Mapped, Message, Texts
<1>6. m.title \in Unsealed /\ m.message \in Unsealed
  BY <1>1, <1>3, <1>4 DEF Bound, Mapped
<1>7. /\ Marshalled(m) \in Message
      /\ Marshalled(m).title = m.title
      /\ Marshalled(m).message = m.message
      /\ Marshalled(m).attachment = ""
  BY <1>1, <1>5 DEF Marshalled, Message, Texts, Unsealed
<1>8. TypeOK' BY <1>1, <1>2, <1>7 DEF TypeOK, Places
<1>9. TaskPlain'
  <2>1. CASE task' = task BY <2>1 DEF TaskPlain
  <2>2. CASE task' = Marshalled(m)
    BY <1>6, <1>7, <2>2 DEF TaskPlain, Parts, Unsealed
  <2> QED BY <1>1, <2>1, <2>2
<1>10. TaskCarried'
  <2>1. CASE at' = "rejected" BY <2>1 DEF TaskCarried
  <2>2. CASE task' = Marshalled(m) /\ ~body.custom
    <3>1. m.title = body.title /\ m.message = body.message
      BY <1>1, <2>2 DEF Bound
    <3> QED BY <1>2, <1>7, <2>2, <3>1 DEF TaskCarried
  <2>3. CASE body.custom BY <1>2, <2>3 DEF TaskCarried
  <2> QED BY <1>1, <2>1, <2>2, <2>3
<1>11. Copied' BY <1>1 DEF Copied
<1>12. SealedOnce' /\ FailsClosed' /\ TextsSurvive' BY <1>2, OutOK
<1> QED BY <1>8, <1>9, <1>10, <1>11, <1>12

\* A failed attempt leaves the task as it was.
LEMMA FailedOK ==
    ASSUME Inv, Fail, UNCHANGED <<app, body>>,
           at \notin {"new", "rejected"},
           \/ out' = out
           \/ at = "execute" /\ out' = out \cup {msg}
    PROVE  Inv'
<1> USE DEF Inv
<1>1. TypeOK'
  <2>1. Empty \in Message BY DEF Empty, Message, Texts, Unsealed
  <2>2. tries' \in 0..MaxTries BY MaxTriesNat DEF Fail, TypeOK
  <2>3. out' \in SUBSET Message BY DEF TypeOK
  <2> QED BY <2>1, <2>2, <2>3 DEF Fail, TypeOK, Places
<1>2. TaskPlain' BY DEF Fail, TaskPlain
<1>3. TaskCarried' BY DEF Fail, TaskCarried
<1>4. Copied' BY DEF Fail, Copied
<1>5. SealedOnce' /\ FailsClosed' /\ TextsSurvive' BY OutOK
<1> QED BY <1>1, <1>2, <1>3, <1>4, <1>5

LEMMA BegunOK ==
    ASSUME Inv, Begin
    PROVE  Inv'
<1> USE DEF Inv
<1>1. UNCHANGED <<app, body, out>> /\ at = "queued" BY DEF Begin
<1>2. CASE Fail BY <1>1, <1>2, FailedOK
<1>3. CASE ~Fail
  <2>1. /\ UNCHANGED <<task, tries>>
        /\ msg' = task
        /\ \/ at' = "execute" /\ ~Encrypting
           \/ at' = "title" /\ Encrypting
    BY <1>3 DEF Begin, Encrypting
  <2>2. TypeOK' BY <1>1, <2>1 DEF TypeOK, Places
  <2>3. TaskPlain' /\ TaskCarried' BY <1>1, <2>1 DEF TaskPlain, TaskCarried
  <2>4. Copied'
    BY <1>1, <2>1 DEF Copied, Encrypting, Skips, Ahead
  <2>5. SealedOnce' /\ FailsClosed' /\ TextsSurvive' BY <1>1, OutOK
  <2> QED BY <2>2, <2>3, <2>4, <2>5
<1> QED BY <1>2, <1>3

\* A part that is encrypted was plain, and the others stay as they are.
LEMMA EncryptedOK ==
    ASSUME Inv, NEW part \in Parts, NEW next \in {"message", "attachment", "execute"},
           Encrypt(part, next),
           \/ part = "title" /\ next = "message"
           \/ part = "message" /\ next = "attachment"
           \/ part = "attachment" /\ next = "execute"
    PROVE  Inv'
<1> USE DEF Inv
<1>1. UNCHANGED <<app, body, out>> /\ at = part BY DEF Encrypt
<1>2. CASE Fail
  <2>1. at \notin {"new", "rejected"} BY <1>1 DEF Parts
  <2> QED BY <1>1, <1>2, <2>1, FailedOK
<1>3. CASE ~Fail
  <2>1. /\ UNCHANGED <<task, tries>>
        /\ app[part] => app.recipients = "good"
        /\ msg' = IF app[part] /\ (part = "attachment" => msg[part] # "")
                  THEN [msg EXCEPT ![part] = Seal(@)] ELSE msg
        /\ at' = next
    BY <1>3 DEF Encrypt
  <2>2. msg \in Message /\ app \in Application BY DEF TypeOK
  <2>3. /\ Encrypting
        /\ Ahead(part)
        /\ task[part] \in Unsealed
    BY <1>1 DEF Copied, TaskPlain, Parts
  <2>4. Seal(msg[part]) = "sealed" BY <2>3 DEF Ahead, Seal, Unsealed
  <2>5. /\ msg' \in Message
        /\ \A p \in Parts \ {part} : msg'[p] = msg[p]
        /\ msg'[part] = IF app[part] /\ (part = "attachment" => msg[part] # "")
                        THEN "sealed" ELSE msg[part]
    BY <2>1, <2>2, <2>4 DEF Message, Texts, Parts
  <2>6. TypeOK' BY <1>1, <2>1, <2>5 DEF TypeOK, Places
  <2>7. TaskPlain' BY <2>1 DEF TaskPlain
  <2>8. TaskCarried' BY <1>1, <2>1 DEF TaskCarried, Parts
  <2>9. Copied'
    <3>1. Through(part)' BY <1>1, <2>1, <2>3, <2>5 DEF Through, Ahead
    <3>2. \A p \in Parts \ {part} : (Through(p)' <=> Through(p)) /\ (Ahead(p)' <=> Ahead(p))
      BY <1>1, <2>1, <2>5 DEF Through, Ahead
    <3>3. Encrypting' <=> Encrypting BY <1>1 DEF Encrypting, Skips
    <3>4. CASE part = "title"
      BY <1>1, <2>1, <2>3, <3>1, <3>2, <3>3, <3>4 DEF Copied, Parts
    <3>5. CASE part = "message"
      BY <1>1, <2>1, <2>3, <3>1, <3>2, <3>3, <3>5 DEF Copied, Parts
    <3>6. CASE part = "attachment"
      BY <1>1, <2>1, <2>3, <3>1, <3>2, <3>3, <3>6 DEF Copied, Parts
    <3> QED BY <3>4, <3>5, <3>6 DEF Parts
  <2>10. SealedOnce' /\ FailsClosed' /\ TextsSurvive' BY <1>1, OutOK
  <2> QED BY <2>6, <2>7, <2>8, <2>9, <2>10
<1> QED BY <1>2, <1>3

LEMMA ExecutedOK ==
    ASSUME Inv, Execute
    PROVE  Inv'
<1> USE DEF Inv
<1>1. UNCHANGED <<app, body>> /\ at = "execute" BY DEF Execute
<1>2. CASE Fail BY <1>1, <1>2, FailedOK DEF Execute
<1>3. CASE ~Fail
  <2>1. /\ out' = out \cup {msg}
        /\ at' = "done"
        /\ UNCHANGED <<task, msg, tries>>
    BY <1>3 DEF Execute
  <2>2. TypeOK' BY <1>1, <2>1 DEF TypeOK, Places
  <2>3. TaskPlain' /\ TaskCarried' BY <1>1, <2>1 DEF TaskPlain, TaskCarried
  <2>4. Copied' BY <2>1 DEF Copied
  <2>5. SealedOnce' /\ FailsClosed' /\ TextsSurvive' BY <1>1, <2>1, OutOK
  <2> QED BY <2>2, <2>3, <2>4, <2>5
<1> QED BY <1>2, <1>3

LEMMA ContentInductive == Spec => []Inv
<1>1. ASSUME Init
      PROVE  Inv
  <2>1. Empty \in Message BY DEF Empty, Message, Texts, Unsealed
  <2>2. 0 \in 0..MaxTries BY MaxTriesNat
  <2>3. TypeOK BY <1>1, <2>1, <2>2 DEF Init, TypeOK, Places
  <2>4. TaskPlain
    <3>1. Empty.title = "" /\ Empty.message = "" /\ Empty.attachment = ""
      BY DEF Empty
    <3> QED BY <1>1, <3>1 DEF Init, TaskPlain, Parts, Unsealed
  <2>5. TaskCarried /\ Copied BY <1>1 DEF Init, TaskCarried, Copied
  <2>6. SealedOnce /\ FailsClosed /\ TextsSurvive
    BY <1>1 DEF Init, SealedOnce, FailsClosed, TextsSurvive, Arrives
  <2> QED BY <2>3, <2>4, <2>5, <2>6 DEF Inv
<1>2. ASSUME Inv, [Next]_vars
      PROVE  Inv'
  <2>1. CASE Handle BY <1>2, <2>1, HandledOK
  <2>2. CASE Begin BY <1>2, <2>2, BegunOK
  <2>3. CASE EncryptTitle
    BY <1>2, <2>3, EncryptedOK DEF EncryptTitle, Parts
  <2>4. CASE EncryptMessage
    BY <1>2, <2>4, EncryptedOK DEF EncryptMessage, Parts
  <2>5. CASE EncryptAttachment
    BY <1>2, <2>5, EncryptedOK DEF EncryptAttachment, Parts
  <2>6. CASE Execute BY <1>2, <2>6, ExecutedOK
  <2>7. CASE UNCHANGED vars
    <3>1. TypeOK' /\ TaskPlain' /\ TaskCarried'
      BY <1>2, <2>7 DEF vars, Inv, TypeOK, TaskPlain, TaskCarried
    <3>2. Copied'
      BY <1>2, <2>7 DEF vars, Inv, Copied, Through, Ahead, Encrypting, Skips
    <3>3. SealedOnce' /\ FailsClosed' /\ TextsSurvive'
      BY <1>2, <2>7, OutOK DEF vars
    <3> QED BY <3>1, <3>2, <3>3 DEF Inv
  <2> QED BY <1>2, <2>1, <2>2, <2>3, <2>4, <2>5, <2>6, <2>7 DEF Next
<1> QED BY <1>1, <1>2, PTL DEF Spec

\* No number of retries, and no failure half way through the parts, encrypts a
\* part twice (worker.go 171-174: every attempt starts from the task's payload).
THEOREM NeverSealedTwice == Spec => []SealedOnce
BY ContentInductive, PTL DEF Inv

\* Whichever part's encryption fails, and however often the message is retried,
\* no text goes out unencrypted that was to be encrypted, unless the first line
\* of EncryptWithAge overlooks the flags (worker.go 218-231, 264-341).
THEOREM NothingInTheClear == Spec => []FailsClosed
BY ContentInductive, PTL DEF Inv

\* On the pushover and submit routes a text arrives as it was sent, or sealed
\* where the application asks for that, whatever is retried (routes.go 52-75,
\* 250; worker.go 171-174).
THEOREM TextsArriveAsSent == Spec => []TextsSurvive
BY ContentInductive, PTL DEF Inv

=============================================================================

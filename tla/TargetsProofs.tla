--------------------------- MODULE TargetsProofs ---------------------------
(***************************************************************************)
(* Proofs about the targets, for any list of targets, any callers and any  *)
(* outages.                                                                *)
(***************************************************************************)
EXTENDS Targets, TLAPS

Held == \A c \in Clients : link[c] # "closed" => c \in InUse

\* While RunAll is at work nobody calls, a target whose turn has not come has
\* no client, and every connection is a target's.
StartInv ==
    phase = "starting" =>
        /\ \A p \in Callers : at[p] = "idle" /\ result[p] = "none"
        /\ \A i \in DOMAIN Order : i >= next /\ Order[i] \in Xmpp => jabber[Order[i]] = Null
        /\ Held

\* A caller works on a target of the kind its call belongs to.
CallInv ==
    \A p \in Callers :
        /\ at[p] \in {"ping", "close", "dial", "send"} => dest[p] \in Xmpp
        /\ at[p] = "spawn" => dest[p] \in Targets

\* Nothing is handed over before the last step of a call; from the keep-alive on
\* it may be lost.
HandInv ==
    \A p \in Callers : at[p] # "idle" =>
        /\ result[p] = "none"
        /\ handed[p] = "no" \/ (at[p] = "send" /\ handed[p] = "lost")

\* The two halves of ResultsAreHonest.
Truthful ==
    \A p \in Callers :
        /\ result[p] = "ok" => handed[p] \in {"written", "passed"}
        /\ result[p] = "error" => handed[p] # "written"

Excused ==
    \A p \in Callers :
        result[p] = "error" /\ phase = "running" /\ ~(refused \/ raced)
            => handed[p] # "no"

Base == /\ TypeOK /\ StartInv /\ CallInv /\ HandInv
        /\ StartupCleansUp /\ Truthful

\* Between the two halves of a reconnect the old client is closed.
DialInv ==
    Alive => \A p \in Callers : at[p] = "dial" =>
        jabber[dest[p]] = Null \/ link[jabber[dest[p]]] = "closed"

-----------------------------------------------------------------------------
(* What the parts of a step do.                                              *)

LEMMA TargetsAreListed ==
    ASSUME NEW t \in Xmpp
    PROVE  t \in Targets /\ \E i \in DOMAIN Order : t = Order[i]
BY TargetsAssumption DEF TargetsAssumption, Targets

LEMMA LenType == Len(Order) \in Nat /\ DOMAIN Order = 1..Len(Order)
BY TargetsAssumption DEF TargetsAssumption

LEMMA ConnectType ==
    ASSUME TypeOK, NEW t \in Xmpp, NEW ok \in BOOLEAN,
           NEW from \in [Clients -> {"closed", "open", "stale", "broken"}],
           Connect(t, from, ok)
    PROVE  /\ jabber' \in [Xmpp -> Clients \cup {Null}]
           /\ link' \in [Clients -> {"closed", "open", "stale", "broken"}]
           /\ \A s \in Xmpp : s # t => jabber'[s] = jabber[s]
           /\ ok => jabber'[t] # Null
           /\ ~ok => jabber'[t] = Null /\ link' = from
<1>1. CASE ok
  <2>1. PICK c \in Fresh(t) : /\ jabber' = [jabber EXCEPT ![t] = c]
                              /\ link' = [from EXCEPT ![c] = "open"]
    BY <1>1 DEF Connect
  <2>2. c \in Clients /\ c # Null
    BY TargetsAssumption DEF Fresh, TargetsAssumption
  <2> QED BY <1>1, <2>1, <2>2 DEF TypeOK
<1>2. CASE ~ok BY <1>2 DEF Connect, TypeOK
<1> QED BY <1>1, <1>2

LEMMA ClosedType ==
    ASSUME TypeOK, NEW t \in Xmpp
    PROVE  Closed(t) \in [Clients -> {"closed", "open", "stale", "broken"}]
BY DEF Closed, TypeOK

LEMMA AllClosedType ==
    ASSUME TypeOK
    PROVE  AllClosed \in [Clients -> {"closed", "open", "stale", "broken"}]
BY DEF AllClosed, TypeOK

\* Each way a call can end or go on.
CallMoves(p) ==
    \/ \E call \in {"close", "dial", "send"} :
         dest[p] \in Xmpp /\ at[p] # "send" /\ Goto(p, call)
    \/ Error(p)
    \/ /\ handed' = [handed EXCEPT ![p] = Fate(p)]
       /\ Finish(p, IF Writable(dest[p]) THEN "ok" ELSE "error")
    \/ handed' = [handed EXCEPT ![p] = "passed"] /\ Finish(p, "ok")
    \/ /\ \E fate \in {"passed", "lost"} : handed' = [handed EXCEPT ![p] = fate]
       /\ Finish(p, "error")

LEMMA CallMovesType ==
    ASSUME TypeOK, CallInv, HandInv, Truthful, NEW p \in Callers,
           at[p] # "idle", CallMoves(p)
    PROVE  /\ at' \in [Callers -> {"idle", "ping", "close", "dial", "send", "spawn"}]
           /\ dest' \in [Callers -> Targets \cup {Null}]
           /\ handed' \in [Callers -> Fates]
           /\ result' \in [Callers -> {"none", "ok", "error"}]
           /\ CallInv'
           /\ HandInv'
           /\ Truthful'
           /\ \A q \in Callers : q # p => at'[q] = at[q] /\ dest'[q] = dest[q]
           /\ at'[p] # "idle" => dest'[p] = dest[p]
<1> USE DEF TypeOK, CallInv, HandInv, Truthful, Finish, Fates
<1>1. CASE \E call \in {"close", "dial", "send"} :
             dest[p] \in Xmpp /\ at[p] # "send" /\ Goto(p, call)
  BY <1>1 DEF Goto
<1>2. CASE Error(p) BY <1>2 DEF Error
<1>3. CASE /\ handed' = [handed EXCEPT ![p] = Fate(p)]
           /\ Finish(p, IF Writable(dest[p]) THEN "ok" ELSE "error")
  <2>1. CASE Writable(dest[p]) BY <1>3, <2>1 DEF Fate
  <2>2. CASE ~Writable(dest[p]) BY <1>3, <2>2 DEF Fate
  <2> QED BY <2>1, <2>2
<1>4. CASE handed' = [handed EXCEPT ![p] = "passed"] /\ Finish(p, "ok")
  BY <1>4
<1>5. CASE /\ \E fate \in {"passed", "lost"} : handed' = [handed EXCEPT ![p] = fate]
           /\ Finish(p, "error")
  BY <1>5
<1> QED BY <1>1, <1>2, <1>3, <1>4, <1>5 DEF CallMoves

LEMMA StepMoves ==
    ASSUME Base, NEW p \in Callers, Step(p)
    PROVE  /\ CallMoves(p)
           /\ Alive /\ at[p] # "idle"
           /\ UNCHANGED <<phase, next, reach>>
           /\ jabber' \in [Xmpp -> Clients \cup {Null}]
           /\ link' \in [Clients -> {"closed", "open", "stale", "broken"}]
           /\ refused' \in BOOLEAN /\ raced' \in BOOLEAN
<1> USE DEF Base, CallMoves, history
<1>1. CASE SendKeepAlive(p) BY <1>1 DEF SendKeepAlive, CallInv, TypeOK
<1>2. CASE CloseExisting(p)
  BY <1>2, ClosedType DEF CloseExisting, CallInv, TypeOK
<1>3. CASE NewClient(p)
  <2>1. dest[p] \in Xmpp BY <1>3 DEF NewClient, CallInv
  <2>2. CASE Connect(dest[p], link, TRUE) /\ Goto(p, "send") /\ UNCHANGED refused
    BY <1>3, <2>1, <2>2, ConnectType DEF NewClient, TypeOK
  <2>3. CASE Connect(dest[p], link, FALSE) /\ Error(p) /\ refused' = TRUE
    BY <1>3, <2>1, <2>3, ConnectType DEF NewClient, TypeOK
  <2> QED BY <1>3, <2>2, <2>3 DEF NewClient
<1>4. CASE Send(p) BY <1>4 DEF Send, TypeOK
<1>5. CASE Spawn(p) BY <1>5 DEF Spawn, TypeOK
<1> QED BY <1>1, <1>2, <1>3, <1>4, <1>5 DEF Step

-----------------------------------------------------------------------------
(* Type correctness, a clean start, honest results.                          *)

LEMMA BaseInit == Init => Base
<1> SUFFICES ASSUME Init PROVE Base OBVIOUS
<1>1. TypeOK
  <2>1. 1 \in 1..(Len(Order) + 1) BY LenType
  <2> QED BY <2>1 DEF Init, TypeOK, Phases, Fates
<1>2. StartInv
  BY TargetsAssumption DEF Init, StartInv, Held, TargetsAssumption, Targets
<1>3. CallInv /\ HandInv /\ StartupCleansUp /\ Truthful
  BY DEF Init, CallInv, HandInv, StartupCleansUp, Truthful
<1> QED BY <1>1, <1>2, <1>3 DEF Base

\* Connecting a target whose old connection, if it has one, is closed.
LEMMA ConnectHolds ==
    ASSUME TypeOK, NEW t \in Xmpp, NEW ok \in BOOLEAN, Connect(t, link, ok),
           Held, jabber[t] = Null \/ link[jabber[t]] = "closed"
    PROVE  Held'
<1>1. CASE ok
  <2>1. PICK c \in Fresh(t) : /\ jabber' = [jabber EXCEPT ![t] = c]
                              /\ link' = [link EXCEPT ![c] = "open"]
    BY <1>1 DEF Connect
  <2>2. c \in Clients BY <2>1 DEF Fresh
  <2>3. ASSUME NEW d \in Clients, link'[d] # "closed"
        PROVE  d \in InUse'
    <3>1. CASE d = c BY <2>1, <3>1 DEF InUse, TypeOK
    <3>2. CASE d # c
      <4>1. link[d] # "closed" BY <2>1, <2>2, <2>3, <3>2 DEF TypeOK
      <4>2. PICK s \in Xmpp : jabber[s] = d BY <4>1 DEF Held, InUse
      <4>3. s # t
        BY <4>1, <4>2, TargetsAssumption DEF TargetsAssumption
      <4> QED BY <2>1, <4>2, <4>3 DEF InUse, TypeOK
    <3> QED BY <3>1, <3>2
  <2> QED BY <2>3 DEF Held
<1>2. CASE ~ok
  <2>1. jabber' = [jabber EXCEPT ![t] = Null] /\ link' = link
    BY <1>2 DEF Connect
  <2>2. ASSUME NEW d \in Clients, link'[d] # "closed"
        PROVE  d \in InUse'
    <3>1. PICK s \in Xmpp : jabber[s] = d BY <2>1, <2>2 DEF Held, InUse
    <3>2. s # t
      BY <2>1, <2>2, <3>1, TargetsAssumption DEF TargetsAssumption
    <3> QED BY <2>1, <3>1, <3>2 DEF InUse, TypeOK
  <2> QED BY <2>2 DEF Held
<1> QED BY <1>1, <1>2

\* The targets before the one that failed hold every connection there is.
LEMMA FailedStart ==
    ASSUME TypeOK, StartInv, phase = "starting", next \in 1..Len(Order),
           link' = AllClosed
    PROVE  \A c \in Clients : link'[c] = "closed"
<1> SUFFICES ASSUME NEW c \in Clients, link'[c] # "closed"
             PROVE  FALSE
  OBVIOUS
<1> DEFINE before == {Order[i] : i \in 1..(next - 1)} \cap Xmpp
<1>1. link[c] # "closed" /\ c \notin {jabber[s] : s \in before}
  BY DEF AllClosed
<1>2. PICK t \in Xmpp : jabber[t] = c BY <1>1 DEF StartInv, Held, InUse
<1>3. PICK i \in DOMAIN Order : t = Order[i] BY TargetsAreListed
<1>4. ~(i >= next)
  BY <1>2, <1>3, TargetsAssumption DEF StartInv, TargetsAssumption
<1>5. i \in 1..(next - 1) BY <1>3, <1>4, LenType
<1> QED BY <1>1, <1>2, <1>3, <1>5

\* RunAll: one target more, or a start that failed and cleaned up.
LEMMA RunNextBase ==
    ASSUME Base, RunNext
    PROVE  Base'
<1> USE DEF Base, history
<1>1. phase = "starting" /\ next \in 1..Len(Order) /\ next' = next + 1
  BY LenType DEF RunNext, TypeOK
<1>2. UNCHANGED <<reach, callVars, history>> BY DEF RunNext
<1>3. next' \in 1..(Len(Order) + 1) BY <1>1, LenType
<1>4. CallInv' /\ HandInv' /\ Truthful' BY <1>2 DEF callVars, CallInv, HandInv, Truthful
<1>5. CASE /\ Order[next] \notin Xmpp
           /\ UNCHANGED <<jabber, link, phase>>
  <2>1. TypeOK' BY <1>2, <1>3, <1>5 DEF TypeOK, callVars
  <2>2. StartInv'
    BY <1>1, <1>2, <1>5, LenType DEF StartInv, Held, InUse, callVars
  <2>3. StartupCleansUp' BY <1>1, <1>5 DEF StartupCleansUp
  <2> QED BY <1>4, <2>1, <2>2, <2>3
<1>6. CASE /\ Order[next] \in reach
           /\ Connect(Order[next], link, TRUE)
           /\ UNCHANGED phase
  <2>0. Order[next] \in Xmpp BY <1>6 DEF TypeOK
  <2>1. TypeOK' BY <1>2, <1>3, <1>6, <2>0, ConnectType DEF TypeOK, callVars
  <2>2. \A s \in Xmpp : s # Order[next] => jabber'[s] = jabber[s]
    BY <1>6, <2>0, ConnectType DEF TypeOK
  <2>3. ASSUME NEW i \in DOMAIN Order, i >= next + 1
        PROVE  Order[i] # Order[next]
    BY <1>1, <2>3, LenType, TargetsAssumption DEF TargetsAssumption
  <2>4. jabber[Order[next]] = Null BY <1>1, <2>0, LenType DEF StartInv
  <2>5. Held' BY <1>1, <1>6, <2>0, <2>4, ConnectHolds DEF StartInv
  <2>6. \A i \in DOMAIN Order :
           i >= next + 1 /\ Order[i] \in Xmpp => jabber'[Order[i]] = Null
    BY <1>1, <2>2, <2>3, LenType DEF StartInv
  <2>7. StartInv' BY <1>1, <1>2, <2>5, <2>6 DEF StartInv, callVars
  <2>8. StartupCleansUp' BY <1>1, <1>6 DEF StartupCleansUp
  <2> QED BY <1>4, <2>1, <2>7, <2>8
<1>7. CASE /\ Order[next] \in Xmpp
           /\ Connect(Order[next], AllClosed, FALSE)
           /\ phase' = "failed"
  <2>1. TypeOK'
    BY <1>2, <1>3, <1>7, ConnectType, AllClosedType DEF TypeOK, Phases, callVars
  <2>2. StartInv' BY <1>7 DEF StartInv
  <2>3. link' = AllClosed BY <1>7 DEF Connect
  <2>4. StartupCleansUp' BY <1>1, <2>3, FailedStart DEF StartupCleansUp
  <2> QED BY <1>4, <2>1, <2>2, <2>4
<1> QED BY <1>5, <1>6, <1>7 DEF RunNext

\* The steps that move the process on or belong to the network.
LEMMA OtherBase ==
    ASSUME Base,
           \/ Running \/ Stop \/ ShutdownNext
           \/ \E t \in Xmpp : Outage(t) \/ Return(t)
           \/ \E c \in Clients : Notice(c)
    PROVE  Base'
<1> USE DEF Base, history
<1>1. UNCHANGED <<jabber, at, dest, result, history>>
  BY DEF Running, Stop, ShutdownNext, Outage, Return, Notice, callVars
<1>2. /\ handed' \in [Callers -> Fates]
      /\ \A p \in Callers :
            handed'[p] = handed[p] \/ (at[p] = "send" /\ handed'[p] = "lost")
  BY DEF Running, Stop, ShutdownNext, Outage, Return, Notice, callVars, TypeOK, Fates
<1>5. CallInv' BY <1>1 DEF CallInv
<1>6. HandInv' BY <1>1, <1>2 DEF HandInv
<1>7. Truthful' BY <1>1, <1>2 DEF Truthful, HandInv
<1>3. CASE Running \/ Stop \/ ShutdownNext
  <2>1. phase' \in {"running", "stopping", "stopped", "panicked"}
    BY <1>3 DEF Running, Stop, ShutdownNext
  <2>2. next' \in 1..(Len(Order) + 1)
    BY <1>3, LenType DEF Running, Stop, ShutdownNext, TypeOK
  <2>3. link' \in [Clients -> {"closed", "open", "stale", "broken"}]
    BY <1>3, ClosedType DEF Running, Stop, ShutdownNext, TypeOK
  <2>4. reach' = reach BY <1>3 DEF Running, Stop, ShutdownNext
  <2>5. TypeOK'
    BY <1>1, <1>2, <2>1, <2>2, <2>3, <2>4 DEF TypeOK, Phases
  <2>6. StartInv' /\ StartupCleansUp' BY <2>1 DEF StartInv, StartupCleansUp
  <2> QED BY <1>5, <1>6, <1>7, <2>5, <2>6
<1>4. CASE (\E t \in Xmpp : Outage(t) \/ Return(t)) \/ \E c \in Clients : Notice(c)
  <2>1. UNCHANGED <<phase, next>> /\ reach' \subseteq Xmpp
    BY <1>4 DEF Outage, Return, Notice, TypeOK
  <2>2. link' \in [Clients -> {"closed", "open", "stale", "broken"}]
    BY <1>4 DEF Outage, Return, Notice, TypeOK
  <2>3. \A c \in Clients : link[c] = "closed" <=> link'[c] = "closed"
    BY <1>4 DEF Outage, Return, Notice, TypeOK
  <2>4. TypeOK' BY <1>1, <1>2, <2>1, <2>2 DEF TypeOK
  <2>5. StartInv' BY <1>1, <2>1, <2>3 DEF StartInv, Held, InUse
  <2>6. StartupCleansUp' BY <2>1, <2>3 DEF StartupCleansUp
  <2> QED BY <1>5, <1>6, <1>7, <2>4, <2>5, <2>6
<1> QED BY <1>3, <1>4

LEMMA CallBase ==
    ASSUME Base, NEW p \in Callers,
           Step(p) \/ \E t \in Targets : Execute(p, t)
    PROVE  Base'
<1> USE DEF Base, history
<1>1. CASE Step(p)
  <2>1. /\ CallMoves(p) /\ Alive /\ at[p] # "idle"
        /\ UNCHANGED <<phase, next, reach>>
        /\ jabber' \in [Xmpp -> Clients \cup {Null}]
        /\ link' \in [Clients -> {"closed", "open", "stale", "broken"}]
        /\ refused' \in BOOLEAN /\ raced' \in BOOLEAN
    BY <1>1, StepMoves
  <2>2. TypeOK' /\ CallInv' /\ HandInv' /\ Truthful'
    BY <2>1, CallMovesType DEF TypeOK
  <2>3. StartInv' /\ StartupCleansUp'
    BY <2>1 DEF Alive, StartInv, StartupCleansUp
  <2> QED BY <2>2, <2>3
<1>2. CASE \E t \in Targets : Execute(p, t)
  <2>1. PICK t \in Targets : Execute(p, t) BY <1>2
  <2>2. TypeOK' BY <2>1 DEF Execute, TypeOK, Fates
  <2>3. CallInv' BY <2>1 DEF Execute, TypeOK, CallInv
  <2>6. HandInv' BY <2>1 DEF Execute, TypeOK, HandInv
  <2>4. Truthful' BY <2>1 DEF Execute, TypeOK, Truthful
  <2>5. StartInv' /\ StartupCleansUp'
    BY <2>1 DEF Execute, StartInv, StartupCleansUp
  <2> QED BY <2>2, <2>3, <2>4, <2>5, <2>6
<1> QED BY <1>1, <1>2

LEMMA BaseInductive == Spec => []Base
<1>1. ASSUME Base, [Next]_vars
      PROVE  Base'
  <2>1. CASE UNCHANGED vars
    BY <1>1, <2>1
    DEF vars, callVars, history, Base, TypeOK, StartInv, Held, InUse, CallInv, HandInv,
        StartupCleansUp, Truthful
  <2>2. CASE Next
    BY <1>1, <2>2, RunNextBase, OtherBase, CallBase DEF Next
  <2> QED BY <1>1, <2>1, <2>2
<1> QED BY <1>1, BaseInit, PTL DEF Spec

\* Every variable keeps its type.
THEOREM TargetsTypeCorrect == Spec => []TypeOK
BY BaseInductive, PTL DEF Base

\* A start that fails at any target closes the connections of all targets that
\* were started before it (targets.go 92-106).
THEOREM CleanStart == Spec => []StartupCleansUp
BY BaseInductive, PTL DEF Base

-----------------------------------------------------------------------------
(* A shutdown panics only after a reconnect that was refused.                *)

\* As long as none was, each XMPP target has a client once RunAll has passed it.
ClientInv ==
    ~refused =>
        /\ phase = "starting" => \A i \in DOMAIN Order :
              i < next /\ Order[i] \in Xmpp => jabber[Order[i]] # Null
        /\ Alive => \A t \in Xmpp : jabber[t] # Null

LEMMA ClientStep ==
    ASSUME Base, ClientInv, ShutdownReachesAllUnlessRefused, [Next]_vars
    PROVE  ClientInv' /\ ShutdownReachesAllUnlessRefused'
<1> USE DEF Base, history
<1>1. CASE RunNext
  <2>1. /\ phase = "starting" /\ next \in 1..Len(Order) /\ next' = next + 1
        /\ phase' \in {"starting", "failed"} /\ refused' = refused
    <3>1. phase = "starting" /\ next \in 1..Len(Order) /\ next' = next + 1
      BY <1>1, LenType DEF RunNext, TypeOK
    <3>2. phase' \in {"starting", "failed"} /\ refused' = refused
      BY <1>1 DEF RunNext
    <3> QED BY <3>1, <3>2
  <2>2. ASSUME ~refused', phase' = "starting", NEW i \in DOMAIN Order,
               i < next', Order[i] \in Xmpp
        PROVE  jabber'[Order[i]] # Null
    <3>1. i < next \/ i = next BY <2>1, <2>2, LenType
    <3>2. CASE Order[next] \notin Xmpp
      <4>1. jabber' = jabber /\ i # next BY <1>1, <2>2, <3>2 DEF RunNext, TypeOK
      <4> QED BY <2>1, <2>2, <3>1, <4>1 DEF ClientInv
    <3>3. CASE Order[next] \in Xmpp
      <4>1. Connect(Order[next], link, TRUE) BY <1>1, <2>2, <3>3 DEF RunNext
      <4>2. /\ \A s \in Xmpp : s # Order[next] => jabber'[s] = jabber[s]
            /\ jabber'[Order[next]] # Null
        BY <3>3, <4>1, ConnectType DEF TypeOK
      <4> QED BY <2>1, <2>2, <3>1, <4>2 DEF ClientInv
    <3> QED BY <3>2, <3>3
  <2> QED BY <2>1, <2>2 DEF ClientInv, Alive, ShutdownReachesAllUnlessRefused
<1>2. CASE Running
  <2>1. /\ phase = "starting" /\ phase' = "running" /\ next = Len(Order) + 1
        /\ UNCHANGED <<jabber, refused>>
    BY <1>2, LenType DEF Running, TypeOK
  <2>2. ASSUME ~refused, NEW t \in Xmpp
        PROVE  jabber[t] # Null
    <3>1. PICK i \in DOMAIN Order : t = Order[i] BY TargetsAreListed
    <3> QED BY <2>1, <2>2, <3>1, LenType DEF ClientInv
  <2> QED BY <2>1, <2>2 DEF ClientInv, ShutdownReachesAllUnlessRefused
<1>3. CASE Stop
  BY <1>3 DEF Stop, ClientInv, Alive, ShutdownReachesAllUnlessRefused
<1>4. CASE ShutdownNext
  <2>1. phase = "stopping" /\ UNCHANGED <<jabber, refused>>
    BY <1>4 DEF ShutdownNext
  <2>2. phase' \in {"stopping", "stopped", "panicked"} BY <1>4 DEF ShutdownNext
  <2>3. phase' = "panicked" => \E t \in Xmpp : jabber[t] = Null
    BY <1>4 DEF ShutdownNext
  <2> QED BY <2>1, <2>2, <2>3
     DEF ClientInv, Alive, ShutdownReachesAllUnlessRefused
<1>5. CASE \E p \in Callers : Step(p)
  <2>1. PICK p \in Callers : Step(p) BY <1>5
  <2>2. Alive /\ UNCHANGED <<phase, next>> BY <2>1, StepMoves
  <2>3. CASE NewClient(p)
    <3>1. /\ dest[p] \in Xmpp
          /\ \/ Connect(dest[p], link, TRUE) /\ refused' = refused
             \/ refused' = TRUE
          /\ refused \in BOOLEAN
      BY <2>3 DEF NewClient, CallInv, TypeOK
    <3>2. ASSUME ~refused'
          PROVE  /\ refused = FALSE
                 /\ \A s \in Xmpp : s # dest[p] => jabber'[s] = jabber[s]
                 /\ jabber'[dest[p]] # Null
      <4>1. Connect(dest[p], link, TRUE) /\ refused' = refused BY <3>1, <3>2
      <4>2. /\ \A s \in Xmpp : s # dest[p] => jabber'[s] = jabber[s]
            /\ jabber'[dest[p]] # Null
        BY <3>1, <4>1, ConnectType DEF TypeOK
      <4> QED BY <3>1, <3>2, <4>1, <4>2
    <3> QED BY <2>2, <3>1, <3>2
       DEF ClientInv, Alive, ShutdownReachesAllUnlessRefused
  <2>4. CASE ~NewClient(p)
    <3>1. UNCHANGED <<jabber, refused>>
      BY <2>1, <2>4 DEF Step, SendKeepAlive, CloseExisting, Send, Spawn
    <3> QED BY <2>2, <3>1 DEF ClientInv, Alive, ShutdownReachesAllUnlessRefused
  <2> QED BY <2>3, <2>4
<1>6. CASE \/ \E t \in Xmpp : Outage(t) \/ Return(t)
           \/ \E c \in Clients : Notice(c)
           \/ \E p \in Callers, t \in Targets : Execute(p, t)
           \/ UNCHANGED vars
  <2>1. UNCHANGED <<phase, next, jabber, refused>>
    BY <1>6 DEF Outage, Return, Notice, Execute, vars
  <2> QED BY <2>1 DEF ClientInv, Alive, ShutdownReachesAllUnlessRefused
<1> QED BY <1>1, <1>2, <1>3, <1>4, <1>5, <1>6 DEF Next

LEMMA ClientInductive == Spec => [](ClientInv /\ ShutdownReachesAllUnlessRefused)
<1>1. Init => ClientInv /\ ShutdownReachesAllUnlessRefused
  BY LenType DEF Init, ClientInv, Alive, ShutdownReachesAllUnlessRefused
<1> QED BY <1>1, BaseInductive, ClientStep, PTL DEF Spec

\* main's shutdown comes to the last target, with callers still reconnecting
\* under it, unless some reconnect was refused (xmpp.go 75-93, 130-139).
THEOREM PanicHasCause == Spec => []ShutdownReachesAllUnlessRefused
BY ClientInductive, PTL

-----------------------------------------------------------------------------
(* Only a race leaks.                                                        *)

\* Every target is reconnected by one caller at a time.
Alone ==
    \A p, q \in Callers :
        /\ at[p] \in {"close", "dial"} /\ at[q] \in {"close", "dial"}
        /\ dest[p] = dest[q]
        => p = q

LeakInv == ~raced => NothingLeaks /\ DialInv /\ Alone

LEMMA StepLeaksNothing ==
    ASSUME Base, LeakInv, NEW p \in Callers, Step(p), ~raced'
    PROVE  NothingLeaks' /\ DialInv' /\ Alone'
<1> USE DEF Base, history
<1>1. Alive /\ phase' = phase BY StepMoves
<1>2. ~raced
  BY DEF Step, SendKeepAlive, CloseExisting, NewClient, Send, Spawn
<1>3. NothingLeaks /\ DialInv /\ Alone BY <1>2 DEF LeakInv
<1>4. /\ \A q \in Callers : q # p => at'[q] = at[q] /\ dest'[q] = dest[q]
      /\ at'[p] # "idle" => dest'[p] = dest[p]
  BY StepMoves, CallMovesType
<1>5. CASE SendKeepAlive(p) \/ Send(p) \/ Spawn(p)
  <2>1. UNCHANGED <<jabber, link>> BY <1>5 DEF SendKeepAlive, Send, Spawn
  <2>2. at'[p] # "dial"
    BY <1>5 DEF SendKeepAlive, Send, Spawn, Goto, Error, Finish, TypeOK
  <2>3. NothingLeaks' BY <1>1, <1>3, <2>1 DEF NothingLeaks, InUse
  <2>4. DialInv' BY <1>1, <1>3, <1>4, <2>1, <2>2 DEF DialInv
  <2>5. at'[p] = "close" => Reconnecting(dest[p]) = {}
    BY <1>5 DEF SendKeepAlive, Send, Spawn, Error, Finish, TypeOK
  <2>6. Alone' BY <1>1, <1>3, <1>4, <2>2, <2>5 DEF Alone, Reconnecting
  <2> QED BY <2>3, <2>4, <2>6
<1>6. CASE CloseExisting(p)
  <2>1. /\ dest[p] \in Xmpp /\ jabber' = jabber /\ at[p] = "close"
        /\ link' = Closed(dest[p])
    BY <1>6 DEF CloseExisting, CallInv
  <2>2. \A c \in Clients : link'[c] # "closed" => link[c] # "closed"
    BY <2>1 DEF Closed, TypeOK
  <2>3. NothingLeaks' BY <1>1, <1>3, <2>1, <2>2 DEF NothingLeaks, InUse
  <2>4. jabber[dest[p]] # Null => link'[jabber[dest[p]]] = "closed"
    BY <2>1 DEF Closed, TypeOK
  <2>5. ASSUME NEW q \in Callers, at'[q] = "dial"
        PROVE  jabber'[dest'[q]] = Null \/ link'[jabber'[dest'[q]]] = "closed"
    <3>1. CASE q = p BY <1>4, <2>1, <2>4, <2>5, <3>1
    <3>2. CASE q # p
      <4>1. at[q] = "dial" /\ dest[q] \in Xmpp
        BY <1>4, <2>5, <3>2 DEF CallInv
      <4>2. jabber[dest[q]] \in Clients \cup {Null} BY <4>1 DEF TypeOK
      <4>3. dest'[q] = dest[q] BY <1>4, <3>2
      <4> QED BY <1>1, <1>3, <2>1, <2>2, <4>1, <4>2, <4>3 DEF DialInv
    <3> QED BY <3>1, <3>2
  <2>6. Alone' BY <1>1, <1>3, <1>4, <2>1 DEF Alone
  <2> QED BY <2>3, <2>5, <2>6 DEF DialInv
<1>7. CASE NewClient(p)
  <2>1. PICK ok \in BOOLEAN :
          dest[p] \in Xmpp /\ at[p] = "dial" /\ Connect(dest[p], link, ok)
    BY <1>7 DEF NewClient, CallInv
  <2>2. ok \in BOOLEAN OBVIOUS
  <2>3. jabber[dest[p]] = Null \/ link[jabber[dest[p]]] = "closed"
    BY <1>1, <1>3, <2>1 DEF DialInv
  <2>4. ASSUME phase' \in {"starting", "running"}
        PROVE  Held'
    BY <1>1, <1>3, <2>1, <2>2, <2>3, <2>4, ConnectHolds DEF NothingLeaks, Held
  <2>5. NothingLeaks' BY <2>4 DEF NothingLeaks, Held
  <2>6. at'[p] \notin {"close", "dial"} BY <1>7 DEF NewClient, Goto, Error, Finish, TypeOK
  <2>7. ASSUME NEW q \in Callers, at'[q] = "dial"
        PROVE  jabber'[dest'[q]] = Null \/ link'[jabber'[dest'[q]]] = "closed"
    <3>1. q # p /\ at[q] = "dial" /\ dest'[q] = dest[q] BY <1>4, <2>6, <2>7
    <3>2. dest[q] \in Xmpp /\ dest[q] # dest[p]
      BY <1>3, <2>1, <3>1 DEF Alone, CallInv
    <3>3. /\ jabber'[dest[q]] = jabber[dest[q]]
          /\ jabber[dest[q]] \in InUse
          /\ jabber[dest[q]] \in Clients \cup {Null}
      BY <2>1, <2>2, <3>2, ConnectType DEF InUse, TypeOK
    <3>4. jabber[dest[q]] \in Clients => link'[jabber[dest[q]]] = link[jabber[dest[q]]]
      <4>1. jabber[dest[q]] \notin Fresh(dest[p]) BY <3>2 DEF Fresh
      <4> QED BY <2>1, <4>1 DEF Connect, TypeOK
    <3> QED BY <1>1, <1>3, <3>1, <3>3, <3>4 DEF DialInv
  <2>8. Alone' BY <1>1, <1>3, <1>4, <2>6 DEF Alone
  <2> QED BY <2>5, <2>7, <2>8 DEF DialInv
<1> QED BY <1>5, <1>6, <1>7 DEF Step

LEMMA OtherLeaksNothing ==
    ASSUME Base, LeakInv, ~\E p \in Callers : Step(p), Next
    PROVE  LeakInv'
<1> USE DEF Base, history
<1>1. raced' = raced
  BY DEF Next, RunNext, Running, Stop, ShutdownNext, Execute, Outage, Return, Notice
<1> SUFFICES ASSUME ~raced, NothingLeaks, DialInv, Alone
             PROVE  NothingLeaks' /\ DialInv' /\ Alone'
  BY <1>1 DEF LeakInv
<1>2. CASE RunNext
  <2>1. Base' BY <1>2, RunNextBase
  <2>2. phase' \in {"starting", "failed"} /\ UNCHANGED <<at, dest>>
    BY <1>2 DEF RunNext, callVars
  <2> QED BY <2>1, <2>2 DEF StartInv, Held, NothingLeaks, DialInv, Alive, Alone
<1>3. CASE Running
  <2>1. phase = "starting" /\ UNCHANGED <<jabber, link, at, dest>>
    BY <1>3 DEF Running, callVars
  <2> QED BY <2>1 DEF StartInv, Held, NothingLeaks, InUse, DialInv, Alone
<1>4. CASE Stop
  BY <1>4 DEF Stop, callVars, NothingLeaks, DialInv, Alive, Alone
<1>5. CASE ShutdownNext
  <2>1. /\ phase = "stopping" /\ phase' \notin {"starting", "running"}
        /\ UNCHANGED <<jabber, at, dest>>
    BY <1>5 DEF ShutdownNext, callVars
  <2>2. \A c \in Clients : link[c] = "closed" => link'[c] = "closed"
    BY <1>5 DEF ShutdownNext, Closed, TypeOK
  <2>3. \A p \in Callers : at[p] = "dial" => jabber[dest[p]] \in Clients \cup {Null}
    BY DEF CallInv, TypeOK
  <2> QED BY <2>1, <2>2, <2>3 DEF NothingLeaks, DialInv, Alive, Alone
<1>6. CASE (\E t \in Xmpp : Outage(t) \/ Return(t)) \/ \E c \in Clients : Notice(c)
  <2>1. UNCHANGED <<phase, jabber, at, dest>>
    BY <1>6 DEF Outage, Return, Notice, callVars
  <2>2. \A c \in Clients : link[c] = "closed" <=> link'[c] = "closed"
    BY <1>6 DEF Outage, Return, Notice, TypeOK
  <2>3. \A p \in Callers : at[p] = "dial" => jabber[dest[p]] \in Clients \cup {Null}
    BY DEF CallInv, TypeOK
  <2> QED BY <2>1, <2>2, <2>3 DEF NothingLeaks, InUse, DialInv, Alive, Alone
<1>7. CASE \E p \in Callers, t \in Targets : Execute(p, t)
  <2>1. PICK p \in Callers, t \in Targets : Execute(p, t) BY <1>7
  <2>2. UNCHANGED <<phase, jabber, link>> BY <2>1 DEF Execute
  <2>3. /\ at'[p] \notin {"close", "dial"}
        /\ \A q \in Callers : q # p => at'[q] = at[q] /\ dest'[q] = dest[q]
    BY <2>1 DEF Execute, TypeOK
  <2>4. NothingLeaks' BY <2>2 DEF NothingLeaks, InUse
  <2>5. DialInv' BY <2>2, <2>3 DEF DialInv, Alive
  <2>6. Alone' BY <2>3 DEF Alone
  <2> QED BY <2>4, <2>5, <2>6
<1> QED BY <1>2, <1>3, <1>4, <1>5, <1>6, <1>7 DEF Next

LEMMA LeakInductive == Spec => []LeakInv
<1>1. Init => LeakInv
  BY DEF Init, LeakInv, NothingLeaks, DialInv, Alive, Alone
<1>2. ASSUME Base, LeakInv, [Next]_vars
      PROVE  LeakInv'
  <2>1. CASE UNCHANGED vars
    BY <1>2, <2>1
    DEF vars, callVars, history, LeakInv, NothingLeaks, InUse, DialInv, Alive, Alone
  <2>2. CASE \E p \in Callers : Step(p)
    BY <1>2, <2>2, StepLeaksNothing DEF LeakInv
  <2>3. CASE Next /\ ~\E p \in Callers : Step(p)
    BY <1>2, <2>3, OtherLeaksNothing
  <2> QED BY <1>2, <2>1, <2>2, <2>3
<1> QED BY <1>1, <1>2, BaseInductive, PTL DEF Spec

\* However many callers share the clients, and through every outage, a
\* connection that no target holds any more takes two callers that reconnect
\* one target at the same time (xmpp.go 75-93).
THEOREM OnlyRacesLeak == Spec => []LeaksNeedARace
<1>1. LeakInv => LeaksNeedARace BY DEF LeakInv, LeaksNeedARace
<1> QED BY <1>1, LeakInductive, PTL

\* So one caller at a time leaks nothing.  Run race shows the case of two.
THEOREM OneCallerLeaksNothing ==
    ASSUME \A p, q \in Callers : p = q
    PROVE  Spec => []NothingLeaks
<1>1. Init => ~raced BY DEF Init
<1>2. ASSUME ~raced, [Next]_vars
      PROVE  ~raced'
  <2> USE DEF history
  <2>1. CASE \E p \in Callers : SendKeepAlive(p)
    <3>1. PICK p \in Callers : SendKeepAlive(p) BY <2>1
    <3>2. Reconnecting(dest[p]) = {} BY <3>1 DEF SendKeepAlive, Reconnecting
    <3> QED BY <1>2, <3>1, <3>2 DEF SendKeepAlive
  <2>2. CASE ~\E p \in Callers : SendKeepAlive(p)
    BY <1>2, <2>2
    DEF Next, RunNext, Running, Stop, ShutdownNext, Execute, Outage, Return, Notice,
        Step, CloseExisting, NewClient, Send, Spawn, vars
  <2> QED BY <2>1, <2>2
<1>3. ~raced /\ LeaksNeedARace => NothingLeaks BY DEF LeaksNeedARace
<1> QED BY <1>1, <1>2, <1>3, OnlyRacesLeak, PTL DEF Spec

-----------------------------------------------------------------------------
(* Results are honest.                                                       *)

\* No two targets have the same client.
Separate == \A s, t \in Xmpp : jabber[s] = jabber[t] /\ jabber[s] # Null => s = t

\* Unless reconnects were refused or met each other: a target is reconnected
\* because its client takes no message, and the client of a caller about to send
\* takes one, or has been found dead since the keep-alive.
SendInv ==
    ~(refused \/ raced) /\ phase = "running" =>
        \A p \in Callers :
            /\ at[p] \in {"close", "dial"} => ~Writable(dest[p])
            /\ at[p] = "send" => Writable(dest[p]) \/ handed[p] = "lost"

LEMMA ConnectSeparate ==
    ASSUME TypeOK, Separate, NEW t \in Xmpp, NEW ok \in BOOLEAN,
           NEW from \in [Clients -> {"closed", "open", "stale", "broken"}],
           Connect(t, from, ok)
    PROVE  /\ Separate'
           /\ \A s \in Xmpp : s # t =>
                 /\ jabber'[s] = jabber[s]
                 /\ jabber[s] # Null => link'[jabber[s]] = from[jabber[s]]
           /\ ok => jabber'[t] # Null /\ link'[jabber'[t]] = "open"
<1>1. CASE ok
  <2>1. PICK c \in Fresh(t) : /\ jabber' = [jabber EXCEPT ![t] = c]
                              /\ link' = [from EXCEPT ![c] = "open"]
    BY <1>1 DEF Connect
  <2>2. c \in Clients /\ c # Null /\ \A s \in Xmpp : s # t => jabber[s] # c
    BY TargetsAssumption DEF Fresh, TargetsAssumption
  <2>3. jabber'[t] = c /\ \A s \in Xmpp : s # t => jabber'[s] = jabber[s]
    BY <2>1 DEF TypeOK
  <2>4. Separate' BY <2>2, <2>3 DEF Separate
  <2>5. \A s \in Xmpp : s # t /\ jabber[s] # Null => link'[jabber[s]] = from[jabber[s]]
    BY <2>1, <2>2 DEF TypeOK
  <2>6. link'[c] = "open" BY <2>1, <2>2
  <2> QED BY <2>2, <2>3, <2>4, <2>5, <2>6
<1>2. CASE ~ok BY <1>2 DEF Connect, Separate, TypeOK
<1> QED BY <1>1, <1>2

LEMMA SeparateInductive == Spec => []Separate
<1>1. Init => Separate BY DEF Init, Separate
<1>2. ASSUME Base, Separate, [Next]_vars
      PROVE  Separate'
  <2> USE DEF Base
  <2>1. CASE RunNext
    <3>1. CASE Order[next] \notin Xmpp
      BY <1>2, <2>1, <3>1 DEF RunNext, Separate, TypeOK
    <3>2. CASE Order[next] \in Xmpp
      <4>1. \/ Connect(Order[next], link, TRUE)
            \/ Connect(Order[next], AllClosed, FALSE)
        BY <2>1, <3>2 DEF RunNext
      <4> QED BY <1>2, <3>2, <4>1, ConnectSeparate, AllClosedType DEF TypeOK
    <3> QED BY <3>1, <3>2
  <2>2. CASE \E p \in Callers : NewClient(p)
    <3>1. PICK p \in Callers : NewClient(p) BY <2>2
    <3>2. dest[p] \in Xmpp BY <1>2, <3>1 DEF NewClient, CallInv
    <3>3. Connect(dest[p], link, TRUE) \/ Connect(dest[p], link, FALSE)
      BY <3>1 DEF NewClient
    <3> QED BY <1>2, <3>2, <3>3, ConnectSeparate DEF TypeOK
  <2>3. CASE ~RunNext /\ ~\E p \in Callers : NewClient(p)
    <3>1. jabber' = jabber
      BY <1>2, <2>3
      DEF Next, Step, Running, Stop, ShutdownNext, Execute, Outage, Return, Notice,
          SendKeepAlive, CloseExisting, Send, Spawn, vars
    <3> QED BY <1>2, <3>1 DEF Separate
  <2> QED BY <2>1, <2>2, <2>3
<1> QED BY <1>1, <1>2, BaseInductive, PTL DEF Spec

\* A caller's step.
LEMMA CallerSends ==
    ASSUME Base, ClientInv, LeakInv, Separate, SendInv, Excused,
           NEW p \in Callers, Step(p)
    PROVE  SendInv' /\ Excused'
<1> USE DEF Base, history
<1>1. /\ phase' = phase /\ at[p] # "idle" /\ CallMoves(p) BY StepMoves
<1> SUFFICES ASSUME phase = "running", ~(refused' \/ raced')
             PROVE  SendInv' /\ Excused'
  BY <1>1 DEF SendInv, Excused
<1>2. ~raced BY DEF Step, SendKeepAlive, CloseExisting, NewClient, Send, Spawn
<1>3. ~refused
  BY DEF Step, SendKeepAlive, CloseExisting, NewClient, Send, Spawn, TypeOK
<1>4. /\ \A t \in Xmpp : jabber[t] # Null
      /\ Alone
      /\ \A q \in Callers :
            /\ at[q] \in {"close", "dial"} => ~Writable(dest[q])
            /\ at[q] = "send" => Writable(dest[q]) \/ handed[q] = "lost"
            /\ result[q] = "error" => handed[q] # "no"
            /\ at[q] \in {"ping", "close", "dial", "send"} => dest[q] \in Xmpp
  BY <1>2, <1>3 DEF ClientInv, Alive, LeakInv, SendInv, Excused, CallInv
<1>5. /\ \A q \in Callers : q # p =>
            /\ at'[q] = at[q] /\ dest'[q] = dest[q]
            /\ handed'[q] = handed[q] /\ result'[q] = result[q]
      /\ at'[p] # "idle" =>
            dest'[p] = dest[p] /\ handed'[p] = handed[p] /\ result'[p] = "none"
  BY <1>1 DEF CallMoves, Goto, Error, Finish, TypeOK, HandInv
<1>6. CASE SendKeepAlive(p) \/ Send(p) \/ Spawn(p)
  <2>1. \A t \in Xmpp : Writable(t)' <=> Writable(t)
    BY <1>6 DEF SendKeepAlive, Send, Spawn, Writable
  <2>2. /\ at'[p] # "dial"
        /\ at'[p] = "close" => dest[p] \in Xmpp /\ ~Writable(dest[p])
        /\ at'[p] = "send" => dest[p] \in Xmpp /\ Writable(dest[p])
    BY <1>4, <1>6
    DEF SendKeepAlive, Send, Spawn, Goto, Error, Finish, TypeOK, CallInv
  <2>3. result'[p] = "error" => handed'[p] # "no"
    <3>1. CASE SendKeepAlive(p)
      BY <1>4, <3>1 DEF SendKeepAlive, Goto, TypeOK, HandInv
    <3>2. CASE Send(p)
      BY <1>4, <3>2 DEF Send, Finish, Fate, TypeOK
    <3>3. CASE Spawn(p) BY <3>3 DEF Spawn, Finish, TypeOK
    <3> QED BY <1>6, <3>1, <3>2, <3>3
  <2> QED BY <1>4, <1>5, <2>1, <2>2, <2>3 DEF SendInv, Excused
<1>7. CASE CloseExisting(p)
  <2>1. /\ at[p] = "close" /\ dest[p] \in Xmpp /\ jabber' = jabber
        /\ link' = Closed(dest[p]) /\ at'[p] = "dial"
    BY <1>7 DEF CloseExisting, CallInv, Goto, TypeOK
  <2>2. ASSUME NEW t \in Xmpp
        PROVE  Writable(t)' <=> Writable(t)
    <3>1. CASE t = dest[p]
      BY <1>4, <2>1, <3>1 DEF Writable, Closed, TypeOK
    <3>2. CASE t # dest[p]
      <4>1. jabber[t] # jabber[dest[p]] BY <1>4, <2>1, <3>2 DEF Separate
      <4> QED BY <2>1, <4>1 DEF Writable, Closed, TypeOK
    <3> QED BY <3>1, <3>2
  <2> QED BY <1>4, <1>5, <2>1, <2>2 DEF SendInv, Excused
<1>8. CASE NewClient(p)
  <2>1. /\ at[p] = "dial" /\ dest[p] \in Xmpp
        /\ Connect(dest[p], link, TRUE) /\ at'[p] = "send"
    BY <1>8 DEF NewClient, CallInv, Goto, TypeOK
  <2>2. /\ \A s \in Xmpp : s # dest[p] =>
              /\ jabber'[s] = jabber[s]
              /\ jabber[s] # Null => link'[jabber[s]] = link[jabber[s]]
        /\ jabber'[dest[p]] # Null /\ link'[jabber'[dest[p]]] = "open"
    BY <2>1, ConnectSeparate DEF TypeOK
  <2>3. Writable(dest[p])' BY <1>5, <2>1, <2>2 DEF Writable
  <2>4. \A s \in Xmpp : s # dest[p] => (Writable(s)' <=> Writable(s))
    BY <2>2 DEF Writable
  <2>5. \A q \in Callers : q # p /\ at[q] \in {"close", "dial"} => dest[q] # dest[p]
    BY <1>4, <2>1 DEF Alone
  <2> QED BY <1>4, <1>5, <2>1, <2>3, <2>4, <2>5, <2>2 DEF SendInv, Excused, Writable
<1> QED BY <1>6, <1>7, <1>8 DEF Step

\* Every other step.
LEMMA OtherSends ==
    ASSUME Base, Separate, SendInv, Excused,
           Next \/ UNCHANGED vars, ~\E p \in Callers : Step(p)
    PROVE  SendInv' /\ Excused'
<1> USE DEF Base, history
<1>1. CASE RunNext \/ Stop \/ ShutdownNext
  BY <1>1 DEF RunNext, Stop, ShutdownNext, SendInv, Excused
<1>2. CASE Running
  BY <1>2 DEF Running, callVars, StartInv, SendInv, Excused
<1>3. CASE \E p \in Callers, t \in Targets : Execute(p, t)
  <2>1. PICK p \in Callers, t \in Targets : Execute(p, t) BY <1>3
  <2>2. /\ UNCHANGED <<phase, jabber, link, history>>
        /\ at'[p] \in {"ping", "spawn"} /\ result'[p] = "none"
        /\ \A q \in Callers : q # p =>
              /\ at'[q] = at[q] /\ dest'[q] = dest[q]
              /\ handed'[q] = handed[q] /\ result'[q] = result[q]
    BY <2>1 DEF Execute, TypeOK
  <2> QED BY <2>2 DEF SendInv, Excused, Writable
<1>4. CASE \/ \E t \in Xmpp : Outage(t) \/ Return(t)
           \/ UNCHANGED vars
  <2>1. UNCHANGED <<phase, jabber, callVars, history>>
    BY <1>4 DEF Outage, Return, vars
  <2>2. \A c \in Clients : link[c] \in {"open", "stale"} <=> link'[c] \in {"open", "stale"}
    BY <1>4 DEF Outage, Return, vars, TypeOK
  <2>3. \A t \in Xmpp : Writable(t)' <=> Writable(t)
    BY <2>1, <2>2 DEF Writable, TypeOK
  <2> QED BY <2>1, <2>3 DEF SendInv, Excused, callVars, CallInv
<1>5. CASE \E c \in Clients : Notice(c)
  <2>1. PICK c \in Clients : Notice(c) BY <1>5
  <2>2. UNCHANGED <<phase, jabber, at, dest, result, history>> BY <2>1 DEF Notice
  <2>3. \A t \in Xmpp : jabber[t] # c => (Writable(t)' <=> Writable(t))
    BY <2>1, <2>2 DEF Notice, Writable, TypeOK
  <2>4. \A t \in Xmpp : jabber[t] = c => ~Writable(t)'
    BY <2>1, <2>2 DEF Notice, Writable, TypeOK
  <2>5. \A p \in Callers :
           handed'[p] = IF at[p] = "send" /\ jabber[dest[p]] = c
                        THEN "lost" ELSE handed[p]
    BY <2>1 DEF Notice
  <2>6. \A p \in Callers : at[p] \in {"close", "dial", "send"} => dest[p] \in Xmpp
    BY DEF CallInv
  <2>7. SendInv' BY <2>2, <2>3, <2>4, <2>5, <2>6 DEF SendInv
  <2>8. Excused' BY <2>2, <2>5 DEF Excused
  <2> QED BY <2>7, <2>8
<1> QED BY <1>1, <1>2, <1>3, <1>4, <1>5 DEF Next

\* However many callers share a client and replace it under each other between
\* a keep-alive and a send: a success means that the message was written to a
\* connection that still took it (or passed on by apprise), an error of an XMPP
\* target that it was not.  And unless a reconnect was refused or met another
\* one, such an error means that the connection was found dead after the
\* keep-alive: no caller closes a client under another's send
\* (xmpp.go 75-127, apprise.go 47-100).
THEOREM HonestResults == Spec => []ResultsAreHonest
<1>1. Init => SendInv /\ Excused BY DEF Init, SendInv, Excused
<1>2. ASSUME Base, ClientInv, LeakInv, Separate, SendInv, Excused, [Next]_vars
      PROVE  SendInv' /\ Excused'
  BY <1>2, CallerSends, OtherSends
<1>3. Truthful /\ Excused => ResultsAreHonest
  BY DEF Truthful, Excused, ResultsAreHonest
<1>4. Base => Truthful BY DEF Base
<1> QED BY <1>1, <1>2, <1>3, <1>4, BaseInductive, ClientInductive, LeakInductive,
           SeparateInductive, PTL DEF Spec

=============================================================================

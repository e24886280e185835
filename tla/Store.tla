------------------------------- MODULE Store -------------------------------
(***************************************************************************)
(* The rows Overpush looks up and the counters it keeps: database.Database *)
(* behind the three repositories, or the configuration file when           *)
(* Database.Enable is false.  A lookup is one atomic read; between two     *)
(* reads of one handler another program that shares the database may have  *)
(* edited, deleted or created a row.                                       *)
(*                                                                         *)
(* A row that is not "live" is one the query does not return.  The columns *)
(* kept are the ones that steer control: enable flags, the application's   *)
(* target and the three stat_ columns.                                     *)
(***************************************************************************)
EXTENDS Naturals

CONSTANTS Users,           \* user keys
          Apps,            \* application tokens
          Targets,         \* target IDs
          Owner,           \* the user an application belongs to
          DatabaseEnable,  \* TRUE: PostgreSQL, FALSE: the configuration file
          MaxEdits,        \* bound: edits of rows while Overpush runs
          Null             \* the empty string: no user key, no target, no job

ASSUME StoreAssumption ==
    /\ Owner \in [Apps -> Users]
    /\ DatabaseEnable \in BOOLEAN
    /\ MaxEdits \in Nat
    /\ Null \notin Users \cup Targets

VARIABLES userEnable,  \* users.enable
          app,         \* the rows of applications
          target,      \* the rows of targets
          stats,       \* applications.stat_received, stat_processed, stat_sent
          edits,       \* history: how many rows have been edited
          disturbed    \* history: a fault or an edit of a row has happened

storeVars == <<userEnable, app, target, stats, edits, disturbed>>

AppRow    == [live: BOOLEAN, enable: BOOLEAN, target: Targets]
TargetRow == [live: BOOLEAN, enable: BOOLEAN]
Zero      == [received |-> 0, processed |-> 0, sent |-> 0]

StoreTypeOK ==
    /\ userEnable \in [Users -> BOOLEAN]
    /\ app \in [Apps -> AppRow]
    /\ target \in [Targets -> TargetRow]
    /\ stats \in [Apps -> [received: Nat, processed: Nat, sent: Nat]]
    /\ edits \in 0..MaxEdits
    /\ disturbed \in BOOLEAN

\* Any rows that refer to each other properly: a live application's target
\* exists when the process starts.
StoreInit ==
    /\ userEnable \in [Users -> BOOLEAN]
    /\ app \in [Apps -> AppRow]
    /\ target \in [Targets -> TargetRow]
    /\ \A a \in Apps : app[a].live => target[app[a].target].live
    /\ stats = [a \in Apps |-> Zero]
    /\ edits = 0
    /\ disturbed = FALSE

-----------------------------------------------------------------------------
(* What one query may do: answer, or, against PostgreSQL, fail (five second  *)
(* timeout, lost connection, closed pool).  The configuration file is in     *)
(* memory and always answers.                                                *)
Outcomes == IF DatabaseEnable THEN BOOLEAN ELSE {TRUE}

Noted(ok) == disturbed' = (disturbed \/ ~ok)

\* A lookup leaves the rows alone.
Read(ok) == Noted(ok) /\ UNCHANGED <<userEnable, app, target, stats, edits>>

GetUserFromToken(token) == app[token].live

\* Mutant: the query also filters by the user key it is handed.
GetApplicationByKey(key, token) == app[token].live /\ key = Owner[token]

\* The SQL query ignores the user key, the configuration's loop does not.
DatabaseGetApplication(token)    == app[token].live
ConfigGetApplication(key, token) == app[token].live /\ key = Owner[token]

GetApplication(key, token) ==
    IF DatabaseEnable THEN DatabaseGetApplication(token)
                      ELSE ConfigGetApplication(key, token)

GetTargetByID(id) == target[id].live

\* SaveInput and IncrementStat: an UPDATE ... WHERE token = $1 touches no row
\* when there is none; a configuration-based setup counts nothing.  An UPDATE
\* whose five seconds are over may have taken effect all the same.
Count(token, stat, ok) ==
    /\ \/ /\ DatabaseEnable /\ app[token].live
          /\ stats' = [stats EXCEPT ![token][stat] = @ + 1]
       \/ /\ ~(ok /\ DatabaseEnable /\ app[token].live)
          /\ UNCHANGED stats
    /\ Noted(ok)
    /\ UNCHANGED <<userEnable, app, target, edits>>

-----------------------------------------------------------------------------
(* Edits made by whatever else writes to the database while Overpush runs.   *)

Edited == /\ DatabaseEnable
          /\ edits < MaxEdits
          /\ edits' = edits + 1
          /\ disturbed' = TRUE

EditUser(u) ==
    /\ Edited
    /\ userEnable' = [userEnable EXCEPT ![u] = ~@]
    /\ UNCHANGED <<app, target, stats>>

\* A deleted application loses its counters with its row.
EditApp(a) ==
    /\ Edited
    /\ \E row \in AppRow \ {app[a]} :
         /\ app' = [app EXCEPT ![a] = row]
         /\ stats' = IF row.live THEN stats ELSE [stats EXCEPT ![a] = Zero]
    /\ UNCHANGED <<userEnable, target>>

EditTarget(t) ==
    /\ Edited
    /\ \E row \in TargetRow \ {target[t]} : target' = [target EXCEPT ![t] = row]
    /\ UNCHANGED <<userEnable, app, stats>>

Edit == \/ \E u \in Users : EditUser(u)
        \/ \E a \in Apps : EditApp(a)
        \/ \E t \in Targets : EditTarget(t)

=============================================================================

------------------------------ MODULE Delivery ------------------------------
(***************************************************************************)
(* What Overpush promises for a message once its queue holds it, whatever  *)
(* happens to the processes, the rows and the connections in between:      *)
(*                                                                         *)
(*   - the message is kept (a target got it), dismissed (a row it needs    *)
(*     was disabled) or given up (every attempt was used), and its fate is *)
(*     decided once;                                                       *)
(*   - it is kept only if a copy went out; copies may go out more than     *)
(*     once, and late, even after the fate is decided;                     *)
(*   - sooner or later its fate is decided.                                *)
(***************************************************************************)
CONSTANT Messages

VARIABLES fate,    \* "unknown", "promised", "kept", "dismissed" or "givenup"
          copied   \* the messages of which a copy went out

vars == <<fate, copied>>

Init == /\ fate = [m \in Messages |-> "unknown"]
        /\ copied = {}

Promise(m) == /\ fate[m] = "unknown"
              /\ fate' = [fate EXCEPT ![m] = "promised"]
              /\ UNCHANGED copied

Copy(m) == /\ fate[m] # "unknown"
           /\ copied' = copied \cup {m}
           /\ UNCHANGED fate

Keep(m) == /\ fate[m] = "promised"
           /\ m \in copied
           /\ fate' = [fate EXCEPT ![m] = "kept"]
           /\ UNCHANGED copied

Dismiss(m) == /\ fate[m] = "promised"
              /\ fate' = [fate EXCEPT ![m] = "dismissed"]
              /\ UNCHANGED copied

\* The last attempt may fail and still have delivered.
GiveUp(m) == /\ fate[m] = "promised"
             /\ fate' = [fate EXCEPT ![m] = "givenup"]
             /\ copied' \in {copied, copied \cup {m}}

Settle(m) == Keep(m) \/ Dismiss(m) \/ GiveUp(m)

Next == \E m \in Messages : Promise(m) \/ Copy(m) \/ Settle(m)

Safe == Init /\ [][Next]_vars

Spec == Safe /\ \A m \in Messages : WF_vars(Settle(m))

=============================================================================

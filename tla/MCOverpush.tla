----------------------------- MODULE MCOverpush -----------------------------
(***************************************************************************)
(* Instances of Overpush small enough for TLC.                             *)
(***************************************************************************)
EXTENDS Overpush, TLC

CONSTANTS u1, u2, a1, t1, t2, r1, r2, h1, h2

MCOwner == [a \in Apps |-> u1]

Sent(route, user, via, parses) ==
    [route |-> route, token |-> a1, user |-> user, via |-> via, parses |-> parses]

\* One input for each way the handler can go.
MCInputs == {Sent("pushover", u1, FALSE, TRUE),    \* an honest client
             Sent("pushover", u2, TRUE, TRUE),     \* wrong key, claims via_submit
             Sent("submit", Null, FALSE, TRUE),
             Sent("custom", Null, FALSE, TRUE),
             Sent("custom", Null, FALSE, FALSE),
             Sent("pushover", u1, FALSE, FALSE)}

\* The two that edits of rows tell apart: one that claims to bypass the enable
\* flags and one that does.
MCEditInputs == {Sent("pushover", u2, TRUE, TRUE), Sent("submit", Null, FALSE, TRUE)}

\* Fewer inputs, where two requests meet.
MCPairInputs == {Sent("pushover", u1, FALSE, TRUE),
                 Sent("submit", u2, FALSE, TRUE),
                 Sent("custom", u2, FALSE, TRUE),
                 Sent("custom", Null, FALSE, FALSE)}

\* Every row enabled at first: the edits lead everywhere else.
AllEnabled ==
    /\ userEnable = [u \in Users |-> TRUE]
    /\ app = [a \in Apps |-> [live |-> TRUE, enable |-> TRUE, target |-> t1]]
    /\ target = [t \in Targets |-> [live |-> TRUE, enable |-> TRUE]]

\* A configuration file: everything enabled but for one thing, or nothing there.
FileRows ==
    \E off \in {"none", "user", "app", "target", "row"} :
        /\ userEnable = [u \in Users |-> u # u1 \/ off # "user"]
        /\ app = [a \in Apps |->
              [live |-> off # "row", enable |-> off # "app", target |-> t1]]
        /\ target = [t \in Targets |-> [live |-> TRUE, enable |-> off # "target"]]

HandlerSymmetry == Permutations(Handlers)
Symmetry == Permutations(Handlers) \cup Permutations(Requests)

MCInit == Init /\ AllEnabled
MCSpec == MCInit /\ [][Next]_vars
MCFileInit == Init /\ FileRows
MCFileSpec == MCFileInit /\ [][Next]_vars
MCFairSpec == MCSpec /\ Fairness

=============================================================================

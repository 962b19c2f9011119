--------------------------- MODULE RoundAgreement ---------------------------
(***************************************************************************)
(* What the connectors of a session promise each other about synchronous    *)
(* rounds: round r has at most one decision, and a connector that completes  *)
(* round r completes it with that decision (sync(): all components' states   *)
(* are updated, or all are reset).                                           *)
(***************************************************************************)
CONSTANTS
    Nodes,        \* the connectors
    RoundIds,     \* the round indices
    Decisions,    \* Decision::Failure and Decision::Success(predicate)
    Undecided     \* no decision yet

VARIABLES
    decided,      \* decided[r]: the decision of round r
    outcome       \* outcome[n][r]: what sync() of n returned for round r

vars == <<decided, outcome>>

Init ==
    /\ decided = [r \in RoundIds |-> Undecided]
    /\ outcome = [n \in Nodes |-> [r \in RoundIds |-> Undecided]]

\* The round is decided; the connector that decides may learn it at once.
Decide(n, r, d) ==
    /\ decided[r] = Undecided
    /\ decided' = [decided EXCEPT ![r] = d]
    /\ outcome' \in {outcome, [outcome EXCEPT ![n][r] = d]}

\* A connector completes the round as decided.
Learn(n, r) ==
    /\ decided[r] # Undecided
    /\ outcome[n][r] = Undecided
    /\ outcome' = [outcome EXCEPT ![n][r] = decided[r]]
    /\ UNCHANGED decided

Next ==
    \E n \in Nodes, r \in RoundIds :
        \/ \E d \in Decisions : Decide(n, r, d)
        \/ Learn(n, r)

Spec == Init /\ [][Next]_vars
=============================================================================

-------------------------- MODULE SolutionStorage ---------------------------
(***************************************************************************)
(* The solution storage of one connector during one synchronous round       *)
(* (runtime/communication.rs, SolutionStorage, used by sync_reach_decision).*)
(*                                                                          *)
(* Subtrees (the native component, the protocol components, the children in *)
(* the solution tree) submit solutions in any order and possibly            *)
(* repeatedly.  The connector hands every new local solution up exactly     *)
(* once: to its parent as a Suggest message, or, at the leader, to the      *)
(* round's decision, which takes the first one and stops.                   *)
(***************************************************************************)
EXTENDS Solutions

CONSTANTS
    SubtreeIds,      \* SubtreeId: LocalComponent(..) and NetEndpoint{..}
    Candidates       \* Candidates[i]: what subtree i may submit

ASSUME CandidatesAssumption == Candidates \in [SubtreeIds -> SUBSET Predicate]
\* the native component always is a subtree (sync_reach_decision, subtree_id_iter)
ASSUME SubtreeIdsAssumption == SubtreeIds # {}

VARIABLES
    isLeader,    \* neighborhood.parent is None
    storage,     \* rctx.solution_storage
    handedUp,    \* the solutions suggested to the parent so far
    decided      \* {} or {the predicate of Decision::Success}

vars == <<isLeader, storage, handedUp, decided>>

TypeOK ==
    /\ isLeader \in BOOLEAN
    /\ storage \in Storage(SubtreeIds)
    /\ handedUp \in SUBSET Predicate
    /\ decided \in SUBSET Predicate

Init ==
    /\ isLeader \in BOOLEAN
    /\ storage = EmptyStorage(SubtreeIds)
    /\ handedUp = {}
    /\ decided = {}

\* submit_and_digest_subtree_solution: called for a finished branch of a
\* component, for a finished native branch, for a Suggest from a child.
Submit(id, pred) ==
    /\ decided = {}
    /\ storage' = Digest(SubtreeIds, storage, id, pred)
    /\ UNCHANGED <<isLeader, handedUp, decided>>

\* "if let Some(parent)": every new local solution is sent to the parent.
HandUp ==
    /\ ~isLeader
    /\ storage.new_local # {}
    /\ handedUp' = handedUp \cup storage.new_local
    /\ storage' = MakeOld(storage)
    /\ UNCHANGED <<isLeader, decided>>

\* At the leader "if let Some(predicate) = ...next()" takes one; dropping the
\* half-used drain empties new_local, but only the taken one became old.
Decide ==
    /\ isLeader
    /\ decided = {}
    /\ \E pred \in storage.new_local :
        /\ decided' = {pred}
        /\ storage' = [storage EXCEPT !.old_local = @ \cup {pred},
                                      !.new_local = {}]
    /\ UNCHANGED <<isLeader, handedUp>>

Next ==
    \/ \E id \in SubtreeIds : \E pred \in Candidates[id] : Submit(id, pred)
    \/ HandUp
    \/ Decide

Spec == Init /\ [][Next]_vars
-----------------------------------------------------------------------------
(* Properties *)

\* The comment on SolutionStorage::new: while the round is undecided,
\* new_local U old_local are exactly the predicates that unite one solution of
\* every subtree, in whatever order and however often they were submitted.
LocalSolutionsExact ==
    decided = {} =>
        storage.old_local \cup storage.new_local
            = LocalSolutions(SubtreeIds, storage.subtree_solutions)

\* The comment "old_local and new_local have an empty intersection", on which
\* assert!(old_local.insert(..)) of iter_new_local_make_old relies: a solution
\* that was handed up is never new again, so the parent hears of it once.
NeverHandedUpTwice ==
    /\ storage.old_local \cap storage.new_local = {}
    /\ handedUp \cap storage.new_local = {}

\* What the leader decides is a solution for every subtree: each of them
\* submitted a predicate the decision contains, so its collapse finds a branch.
DecisionCovered ==
    \A pred \in decided : \A id \in SubtreeIds :
        \E q \in storage.subtree_solutions[id] : AssignsSubset(q, pred)
=============================================================================

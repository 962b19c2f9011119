----------------------------- MODULE Solutions ------------------------------
(***************************************************************************)
(* The solution sets of runtime/communication.rs, impl SolutionStorage, as  *)
(* operators: what the local solutions of a connector are, given the        *)
(* solutions of the subtrees below it, and which of them a newly submitted  *)
(* subtree solution adds.                                                   *)
(***************************************************************************)
EXTENDS Predicates

\* One solution picked from the set of every subtree.
Picks(ids, sols) ==
    {f \in [ids -> UNION {sols[i] : i \in ids}] : \A i \in ids : f[i] \in sols[i]}

\* The picked solutions do not contradict each other ...
MutuallyConsistent(f, ids) == \A i, j \in ids : Consistent(f[i], f[j])

\* ... and their union_with, taken over all of them.
UnionOf(f, ids) ==
    [v \in SpecVars |->
        LET assigning == {i \in ids : f[i][v] # Unassigned}
        IN  IF assigning = {} THEN Unassigned ELSE f[CHOOSE i \in assigning : TRUE][v]]

\* "those that can be created from the union of one element from each child's
\* solution set": the set that the fields old_local and new_local partition.
LocalSolutions(ids, sols) ==
    {UnionOf(f, ids) : f \in {g \in Picks(ids, sols) : MutuallyConsistent(g, ids)}}

\* (mutant) only the subtrees that already have solutions are combined
ElaboratedPresentOnly(ids, sols, id, pred) ==
    LET present == {i \in ids : i = id \/ sols[i] # {}}
    IN  LocalSolutions(present, [i \in present |-> IF i = id THEN {pred} ELSE sols[i]])

\* The local solutions that elaborate_into_new_local_rec enumerates when
\* subtree `id` submits `pred`: the set of `id` contributes only `pred`, every
\* other subtree (to the left and to the right) its whole set.
Elaborated(ids, sols, id, pred) ==
    LocalSolutions(ids, [sols EXCEPT ![id] = {pred}])

\* (mutant) the test `!old_local.contains(&partial)` is missing
DigestRepeatsOld(ids, st, id, pred) ==
    IF pred \in st.subtree_solutions[id]
    THEN st
    ELSE [st EXCEPT !.subtree_solutions[id] = @ \cup {pred},
                    !.new_local = @ \cup Elaborated(ids, st.subtree_solutions, id, pred)]

\* submit_and_digest_subtree_solution as a function on the storage, a record
\* with the fields subtree_solutions, old_local and new_local.
Digest(ids, st, id, pred) ==
    IF pred \in st.subtree_solutions[id]
    THEN st
    ELSE [subtree_solutions |-> [st.subtree_solutions EXCEPT ![id] = @ \cup {pred}],
          old_local |-> st.old_local,
          new_local |-> st.new_local
              \cup (Elaborated(ids, st.subtree_solutions, id, pred) \ st.old_local)]

\* (mutant) draining new_local without inserting into old_local
MakeOldForgets(st) == [st EXCEPT !.new_local = {}]

\* iter_new_local_make_old, drained: what was new is old afterwards.
MakeOld(st) ==
    [st EXCEPT !.old_local = @ \cup st.new_local, !.new_local = {}]

\* SolutionStorage::new
EmptyStorage(ids) ==
    [subtree_solutions |-> [i \in ids |-> {}], old_local |-> {}, new_local |-> {}]

Storage(ids) ==
    [subtree_solutions : [ids -> SUBSET Predicate],
     old_local : SUBSET Predicate,
     new_local : SUBSET Predicate]
=============================================================================

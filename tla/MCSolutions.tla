---------------------------- MODULE MCSolutions -----------------------------
(***************************************************************************)
(* Two small instances in one: a storage during a round, with the recursive  *)
(* enumeration of the code beside the set the specification uses for it, or   *)
(* the walk over a pair of predicates.  A behavior is one of the storage, with *)
(* the walk at rest, or one of the walk, with the storage empty.              *)
(***************************************************************************)
EXTENDS SolutionStorage, PredicateUnion, Sequences

CONSTANTS native, comp, child

MCSubtreeIds == {native, comp, child}
P(v1, v2, v3) == [v \in SpecVars |->
    CASE v = 1 -> v1 [] v = 2 -> v2 [] OTHER -> v3]

\* Overlapping, contradicting and incomparable solutions; native and comp share
\* channel 1, comp and child channel 2; 3 is a native branch number.
MCCandidates == [i \in MCSubtreeIds |->
    CASE i = native -> {P(1, Unassigned, 0), P(0, Unassigned, 1),
                        P(Unassigned, Unassigned, 1)}
      [] i = comp   -> {P(1, 1, Unassigned), P(0, 0, Unassigned), NoAssignments}
      [] OTHER      -> {P(Unassigned, 1, Unassigned), P(Unassigned, 0, Unassigned),
                        P(1, 0, Unassigned), P(0, 0, Unassigned)}]

\* The vector subtree_solutions: the sets of the subtrees in index order.
Order == <<native, comp, child>>

RECURSIVE ElaborateIntoNewLocal(_, _)
\* elaborate_into_new_local_rec: what one call adds, before the test against
\* old_local, given the partial solution and the sets still to visit.
ElaborateIntoNewLocal(partial, sets) ==
    IF sets = <<>>
    THEN {partial}
    ELSE UNION {ElaborateIntoNewLocal(UnionWith(pred, partial), Tail(sets)) :
                    pred \in {q \in Head(sets) : Consistent(q, partial)}}

\* (mutant) the right part starts at the subtree's own set
SetVisitorWithSelf(index) ==
    LET SetAt(i) == storage.subtree_solutions[Order[i]]
    IN  [i \in 1..(index - 1) |-> SetAt(i)]
            \o [i \in 1..(Len(Order) - index + 1) |-> SetAt(index + i - 1)]

\* left.chain(right): the sets of all the subtrees but the one at `index`.
SetVisitor(index) ==
    LET SetAt(i) == storage.subtree_solutions[Order[i]]
    IN  [i \in 1..(index - 1) |-> SetAt(i)]
            \o [i \in 1..(Len(Order) - index) |-> SetAt(index + i)]

\* Merely re-ordering and pruning a search must not lose or invent solutions:
\* in every reachable storage the recursion of elaborate_into_new_local_rec
\* finds exactly the unions the specification adds for the submitted predicate.
ElaborationExact ==
    \A index \in DOMAIN Order : \A pred \in Candidates[Order[index]] :
        ElaborateIntoNewLocal(pred, SetVisitor(index))
            = Elaborated(SubtreeIds, storage.subtree_solutions, Order[index], pred)
-----------------------------------------------------------------------------
(* The two instances side by side *)

VARIABLE walks    \* which of the two this behavior is one of

WalkAtRest ==
    /\ self = NoAssignments /\ other = NoAssignments
    /\ sRest = {} /\ oRest = {}
    /\ s_not_o = {} /\ o_not_s = {}
    /\ result = Walking

MCInit ==
    \/ walks = FALSE /\ Init /\ WalkAtRest
    \/ walks = TRUE /\ WalkInit /\ Init /\ isLeader

MCNext ==
    /\ \/ ~walks /\ Next /\ UNCHANGED walkVars
       \/ walks /\ WalkNext /\ UNCHANGED vars
    /\ UNCHANGED walks

MCSpec == MCInit /\ [][MCNext]_<<vars, walkVars, walks>>
=============================================================================

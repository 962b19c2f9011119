-------------------------- MODULE Solutions_proofs --------------------------
(***************************************************************************)
(* Predicates and solutions: assignment_union computes what it should for    *)
(* all pairs of predicates, and the solution storage keeps its invariants for *)
(* every set of subtrees, variables, values and candidate solutions.          *)
(***************************************************************************)
EXTENDS SolutionStorage, PredicateUnion, TLAPS

-----------------------------------------------------------------------------
(* assignment_union                                                         *)

\* WalkTypeOK and WalkInvariant together are inductive; the order of the keys enters
\* through the first two conjuncts of WalkInvariant: they are what makes a key
\* that is smaller than the other head a key the other predicate lacks.
WalkIInv == WalkTypeOK /\ WalkInvariant

\* Once self has been walked without a difference, the predicates are
\* consistent.
LEMMA WalkedConsistent ==
    ASSUME WalkIInv, sRest = {}
    PROVE  Consistent(self, other)
BY DEF WalkIInv, WalkTypeOK, WalkInvariant, Consistent, Assigned

\* Emptiness of the lists is inclusion of the assignments.
LEMMA EmptyMeansSubset ==
    ASSUME NEW p \in Predicate, NEW q \in Predicate, Consistent(p, q)
    PROVE  AssignsSubset(p, q) <=> Assigned(p) \ Assigned(q) = {}
BY DEF Consistent, AssignsSubset, Assigned, Predicate

\* Adding what self lacks gives the union.
LEMMA ExtendedIsUnion ==
    ASSUME self \in Predicate, other \in Predicate, Consistent(self, other)
    PROVE  Extended(Assigned(other) \ Assigned(self)) = UnionWith(self, other)
<1>1. ASSUME NEW v \in SpecVars
      PROVE  (IF v \in Assigned(other) \ Assigned(self) THEN other[v] ELSE self[v])
               = (IF other[v] # Unassigned THEN other[v] ELSE self[v])
  BY DEF Consistent, Assigned
<1> QED
  BY <1>1 DEF Extended, UnionWith

\* The verdict on the complete lists is the relation of the two predicates.
LEMMA VerdictExact ==
    ASSUME self \in Predicate, other \in Predicate, Consistent(self, other),
           NEW sno, NEW ons,
           sno = Assigned(self) \ Assigned(other),
           ons = Assigned(other) \ Assigned(self)
    PROVE  /\ Verdict(sno, ons).kind = AssignmentUnion(self, other)
           /\ Verdict(sno, ons).union = UnionWith(self, other)
           /\ Verdict(sno, ons) \in [kind : Kinds, union : Predicate]
<1>1. Consistent(other, self)
  BY DEF Consistent
<1>2. AssignsSubset(self, other) <=> sno = {}
  BY EmptyMeansSubset
<1>3. AssignsSubset(other, self) <=> ons = {}
  BY <1>1, EmptyMeansSubset
<1>4. UnionWith(self, other) = Extended(ons)
  BY ExtendedIsUnion
<1>5. ons = {} => UnionWith(self, other) = self
  BY DEF UnionWith, Assigned, Predicate, Consistent
<1>6. sno = {} => UnionWith(self, other) = other
  BY DEF UnionWith, Assigned, Predicate, Consistent
<1>7. UnionWith(self, other) \in Predicate
  BY DEF UnionWith, Predicate
<1>a. CASE sno = {} /\ ons = {}
  BY <1>a, <1>2, <1>3, <1>5 DEF Verdict, AssignmentUnion, Kinds
<1>b. CASE sno # {} /\ ons = {}
  BY <1>b, <1>2, <1>3, <1>5 DEF Verdict, AssignmentUnion, Kinds
<1>c. CASE sno = {} /\ ons # {}
  BY <1>c, <1>2, <1>3, <1>6 DEF Verdict, AssignmentUnion, Kinds
<1>d. CASE sno # {} /\ ons # {}
  BY <1>d, <1>2, <1>3, <1>4, <1>7 DEF Verdict, AssignmentUnion, Kinds
<1> QED
  BY <1>a, <1>b, <1>c, <1>d

LEMMA WalkInitIInv == WalkInit => WalkIInv
<1> SUFFICES ASSUME WalkInit PROVE WalkIInv
  OBVIOUS
<1>1. NoAssignments \in Predicate
  BY DEF NoAssignments, Predicate
<1>2. WalkTypeOK
  BY <1>1 DEF WalkInit, WalkTypeOK, Walking
<1> QED
  BY <1>2 DEF WalkInit, WalkIInv, WalkInvariant

\* Leaving the loop: what is left over in one map is beyond the other's end.
LEMMA FinishWalkIInv == WalkIInv /\ Finish => WalkIInv'
<1> SUFFICES ASSUME WalkIInv, Finish PROVE WalkIInv'
  OBVIOUS
<1> USE DEF WalkIInv, WalkTypeOK
<1>1. /\ sRest' = {} /\ oRest' = {} /\ self' = self /\ other' = other
      /\ Assigned(self)' = Assigned(self) /\ Assigned(other)' = Assigned(other)
  BY DEF Finish, Assigned
<1>2. s_not_o' = Assigned(self) \ Assigned(other)
  <2>1. \A k \in sRest : k \notin Assigned(other)
    BY SpecVarsOrdered DEF Finish, WalkInvariant, Assigned
  <2> QED
    BY <2>1 DEF Finish, WalkInvariant
<1>3. o_not_s' = Assigned(other) \ Assigned(self)
  <2>1. \A k \in oRest : k \notin Assigned(self)
    BY SpecVarsOrdered DEF Finish, WalkInvariant, Assigned
  <2> QED
    BY <2>1 DEF Finish, WalkInvariant
<1>4. \A j \in Assigned(self) \cap Assigned(other) : self[j] = other[j]
  BY SpecVarsOrdered DEF Finish, WalkInvariant, Assigned
<1>5. Consistent(self, other)
  BY <1>4 DEF Consistent, Assigned
<1>6. result' = Verdict(s_not_o', o_not_s')
  BY DEF Finish
<1>7. result' \in [kind : Kinds, union : Predicate]
  BY <1>2, <1>3, <1>5, <1>6, VerdictExact
<1>8. WalkTypeOK'
  BY <1>1, <1>2, <1>3, <1>7
<1>9. Verdict(s_not_o, o_not_s)' = Verdict(s_not_o', o_not_s')
  BY <1>1 DEF Verdict, Extended
<1>10. WalkInvariant'
  BY <1>1, <1>2, <1>3, <1>4, <1>6, <1>9 DEF WalkInvariant
<1> QED
  BY <1>8, <1>10

\* One comparison of the two heads.
LEMMA CompareWalkIInv ==
    ASSUME WalkIInv, NEW sid \in sRest, NEW oid \in oRest, Compare(sid, oid)
    PROVE  WalkIInv'
<1> USE DEF WalkIInv, WalkTypeOK
<1>1. /\ self' = self /\ other' = other /\ result = Walking
      /\ Assigned(self)' = Assigned(self) /\ Assigned(other)' = Assigned(other)
  BY DEF Compare, Assigned
<1>2. /\ sid \in Nat /\ oid \in Nat
      /\ sRest \subseteq Nat /\ oRest \subseteq Nat
      /\ Assigned(self) \subseteq Nat /\ Assigned(other) \subseteq Nat
  BY SpecVarsOrdered DEF Assigned
<1>3. /\ \A j \in sRest : sid <= j
      /\ \A j \in oRest : oid <= j
  BY DEF Compare, IsNext
<1>4. CASE OnlySelf(sid, oid)
  <2>1. sid \notin Assigned(other)
    BY <1>2, <1>3, <1>4 DEF OnlySelf, WalkInvariant
  <2>2. \A k \in oRest : sid < k
    BY <1>2, <1>3, <1>4 DEF OnlySelf
  <2> QED
    BY <1>1, <1>2, <1>4, <2>1, <2>2 DEF OnlySelf, WalkInvariant
<1>5. CASE OnlyOther(sid, oid)
  <2>1. oid \notin Assigned(self)
    BY <1>2, <1>3, <1>5 DEF OnlyOther, WalkInvariant
  <2>2. \A k \in sRest : oid < k
    BY <1>2, <1>3, <1>5 DEF OnlyOther
  <2> QED
    BY <1>1, <1>2, <1>5, <2>1, <2>2 DEF OnlyOther, WalkInvariant
<1>6. CASE Differ(sid, oid)
  <2>1. ~Consistent(self, other)
    BY <1>6 DEF Differ, Query, Consistent, Assigned
  <2>2. NoAssignments \in Predicate
    BY DEF NoAssignments, Predicate
  <2>3. Consistent(self, other)' = Consistent(self, other)
    BY <1>1 DEF Consistent
  <2> QED
    BY <1>1, <1>6, <2>1, <2>2, <2>3 DEF Differ, WalkInvariant, Kinds
<1>7. CASE Agree(sid, oid)
  <2>1. /\ \A k \in oRest \ {oid} : sid < k
        /\ \A k \in sRest \ {sid} : oid < k
    BY <1>2, <1>3, <1>7 DEF Agree
  <2>2. self[sid] = other[sid] /\ sid = oid
    BY <1>7 DEF Agree, Query
  <2> QED
    BY <1>1, <1>2, <1>7, <2>1, <2>2 DEF Agree, WalkInvariant
<1> QED
  BY <1>4, <1>5, <1>6, <1>7 DEF Compare

LEMMA WalkNextIInv == WalkIInv /\ [WalkNext]_walkVars => WalkIInv'
<1> SUFFICES ASSUME WalkIInv, [WalkNext]_walkVars PROVE WalkIInv'
  OBVIOUS
<1>1. CASE UNCHANGED walkVars
  BY <1>1 DEF walkVars, WalkIInv, WalkTypeOK, WalkInvariant, Assigned, Consistent, Verdict, Extended
<1> QED
  BY <1>1, FinishWalkIInv, CompareWalkIInv DEF WalkNext

\* For every number of variables and all values: assignment_union tells how the
\* two predicates relate, and agrees with union_with about their union.
THEOREM UnionExact == WalkSpec => []ResultExact
<1>1. WalkIInv => ResultExact
  <2> SUFFICES ASSUME WalkIInv, result # Walking PROVE
        /\ result.kind = AssignmentUnion(self, other)
        /\ Consistent(self, other) => result.union = UnionWith(self, other)
    BY DEF ResultExact
  <2>1. CASE result.kind = "Nonexistant" /\ ~Consistent(self, other)
    <3>1. ~AssignsSubset(self, other) /\ ~AssignsSubset(other, self)
      BY <2>1 DEF AssignsSubset, Consistent
    <3> QED
      BY <2>1, <3>1 DEF AssignmentUnion
  <2>2. CASE sRest = {} /\ oRest = {} /\ result = Verdict(s_not_o, o_not_s)
    <3>1. Consistent(self, other)
      BY <2>2, WalkedConsistent
    <3>2. /\ s_not_o = Assigned(self) \ Assigned(other)
          /\ o_not_s = Assigned(other) \ Assigned(self)
          /\ self \in Predicate /\ other \in Predicate
      BY <2>2 DEF WalkIInv, WalkTypeOK, WalkInvariant
    <3> QED
      BY <2>2, <3>1, <3>2, VerdictExact
  <2> QED
    BY <2>1, <2>2 DEF WalkIInv, WalkInvariant
<1> QED
  BY WalkInitIInv, WalkNextIInv, <1>1, PTL DEF WalkSpec

\* The invariant of the walk over the two sorted maps.
THEOREM WalkIsSound == WalkSpec => []WalkInvariant
<1>1. WalkIInv => WalkInvariant
  BY DEF WalkIInv
<1> QED
  BY WalkInitIInv, WalkNextIInv, <1>1, PTL DEF WalkSpec
-----------------------------------------------------------------------------
(* The solution storage                                                     *)

\* The union of picked solutions is a predicate.
LEMMA UnionOfType ==
    ASSUME NEW ids, NEW sols \in [ids -> SUBSET Predicate], NEW f \in Picks(ids, sols)
    PROVE  UnionOf(f, ids) \in Predicate
<1>1. \A i \in ids : f[i] \in Predicate
  BY DEF Picks
<1>2. ASSUME NEW v \in SpecVars
      PROVE  (LET assigning == {i \in ids : f[i][v] # Unassigned}
              IN IF assigning = {} THEN Unassigned
                 ELSE f[CHOOSE i \in assigning : TRUE][v]) \in SpecVals \cup {Unassigned}
  <2> DEFINE assigning == {i \in ids : f[i][v] # Unassigned}
  <2>1. CASE assigning = {}
    BY <2>1
  <2>2. CASE assigning # {}
    <3>1. (CHOOSE i \in assigning : TRUE) \in assigning
      BY <2>2
    <3> QED
      BY <1>1, <2>2, <3>1 DEF Predicate
  <2> QED
    BY <2>1, <2>2
<1> QED
  BY <1>2 DEF UnionOf, Predicate

\* Local solutions are predicates.
LEMMA LocalSolutionsType ==
    ASSUME NEW ids, NEW sols \in [ids -> SUBSET Predicate]
    PROVE  LocalSolutions(ids, sols) \in SUBSET Predicate
BY UnionOfType DEF LocalSolutions

\* Without a solution of some subtree there is no local solution.
LEMMA NoPicks ==
    ASSUME NEW ids, NEW i \in ids, NEW sols, sols[i] = {}
    PROVE  LocalSolutions(ids, sols) = {}
BY DEF LocalSolutions, Picks

\* Adding `pred` to the set of subtree `id` adds exactly the elaborations of
\* `pred`: the incremental search of submit_and_digest_subtree_solution misses
\* no local solution and invents none.
LEMMA ElaborationIsIncrement ==
    ASSUME NEW ids, NEW sols \in [ids -> SUBSET Predicate],
           NEW id \in ids, NEW pred \in Predicate
    PROVE  LocalSolutions(ids, [sols EXCEPT ![id] = @ \cup {pred}])
               = LocalSolutions(ids, sols) \cup Elaborated(ids, sols, id, pred)
<1> DEFINE more == [sols EXCEPT ![id] = @ \cup {pred}]
           only == [sols EXCEPT ![id] = {pred}]
<1>1. \A f : f \in Picks(ids, more) <=> f \in Picks(ids, sols) \/ f \in Picks(ids, only)
  <2>1. ASSUME NEW s \in [ids -> SUBSET Predicate], NEW f
        PROVE  f \in Picks(ids, s) <=>
                 /\ f = [i \in ids |-> f[i]]
                 /\ \A i \in ids : f[i] \in s[i]
    BY DEF Picks
  <2>2. /\ more \in [ids -> SUBSET Predicate]
        /\ only \in [ids -> SUBSET Predicate]
    OBVIOUS
  <2>3. /\ \A i \in ids : more[i] = IF i = id THEN sols[i] \cup {pred} ELSE sols[i]
        /\ \A i \in ids : only[i] = IF i = id THEN {pred} ELSE sols[i]
    OBVIOUS
  <2> HIDE DEF more, only
  <2> QED
    BY <2>1, <2>2, <2>3
<1> HIDE DEF more
<1>2. LocalSolutions(ids, more) = LocalSolutions(ids, sols) \cup LocalSolutions(ids, only)
  BY <1>1 DEF LocalSolutions
<1> QED
  BY <1>2 DEF Elaborated, more

\* A local solution contains a solution of every subtree.
LEMMA LocalSolutionCovers ==
    ASSUME NEW ids, NEW sols \in [ids -> SUBSET Predicate],
           NEW p \in LocalSolutions(ids, sols), NEW i \in ids
    PROVE  \E q \in sols[i] : AssignsSubset(q, p)
<1>1. PICK f \in Picks(ids, sols) : MutuallyConsistent(f, ids) /\ p = UnionOf(f, ids)
  BY DEF LocalSolutions
<1>2. f[i] \in sols[i]
  BY DEF Picks
<1>3. ASSUME NEW v \in SpecVars, f[i][v] # Unassigned
      PROVE  p[v] = f[i][v]
  <2> DEFINE assigning == {k \in ids : f[k][v] # Unassigned}
  <2>1. i \in assigning
    BY <1>3
  <2>2. p[v] = f[CHOOSE k \in assigning : TRUE][v]
    BY <1>1, <2>1 DEF UnionOf
  <2>3. (CHOOSE k \in assigning : TRUE) \in assigning
    BY <2>1
  <2>4. \A k \in assigning : f[k][v] = f[i][v]
    BY <1>1, <1>3 DEF MutuallyConsistent, Consistent
  <2> QED
    BY <2>2, <2>3, <2>4
<1> QED
  BY <1>2, <1>3 DEF AssignsSubset
-----------------------------------------------------------------------------
\* The inductive invariant.  handedUp lies inside old_local; that is what keeps
\* it apart from new_local.
IInv ==
    /\ TypeOK
    /\ LocalSolutionsExact
    /\ NeverHandedUpTwice
    /\ DecisionCovered
    /\ handedUp \subseteq storage.old_local

LEMMA InitIInv == Init => IInv
<1> SUFFICES ASSUME Init PROVE IInv
  OBVIOUS
<1>1. TypeOK
  BY DEF Init, TypeOK, EmptyStorage, Storage
<1>2. LocalSolutions(SubtreeIds, storage.subtree_solutions) = {}
  <2>1. PICK i \in SubtreeIds : TRUE
    BY SubtreeIdsAssumption
  <2>2. storage.subtree_solutions[i] = {}
    BY DEF Init, EmptyStorage
  <2> QED
    BY <2>2, NoPicks
<1> QED
  BY <1>1, <1>2
  DEF IInv, Init, EmptyStorage, LocalSolutionsExact, NeverHandedUpTwice, DecisionCovered

LEMMA NextIInv == IInv /\ [Next]_vars => IInv'
<1> SUFFICES ASSUME IInv, [Next]_vars PROVE IInv'
  OBVIOUS
<1> USE DEF IInv, TypeOK, Storage
<1>1. ASSUME NEW id \in SubtreeIds, NEW pred \in Candidates[id], Submit(id, pred)
      PROVE  IInv'
  <2>1. pred \in Predicate
    BY CandidatesAssumption
  <2> DEFINE sols == storage.subtree_solutions
  <2>2. CASE pred \in sols[id]
    <3>1. UNCHANGED vars
      BY <1>1, <2>2 DEF Submit, Digest, vars
    <3> QED
      BY <3>1 DEF vars, LocalSolutionsExact, NeverHandedUpTwice, DecisionCovered
  <2>3. CASE pred \notin sols[id]
    <3>1. /\ storage' = [subtree_solutions |-> [sols EXCEPT ![id] = @ \cup {pred}],
                         old_local |-> storage.old_local,
                         new_local |-> storage.new_local
                             \cup (Elaborated(SubtreeIds, sols, id, pred) \ storage.old_local)]
          /\ decided = {} /\ decided' = {}
          /\ handedUp' = handedUp /\ isLeader' = isLeader
      BY <1>1, <2>3 DEF Submit, Digest
    <3>2. [sols EXCEPT ![id] = {pred}] \in [SubtreeIds -> SUBSET Predicate]
      BY <2>1
    <3>3. Elaborated(SubtreeIds, sols, id, pred) \in SUBSET Predicate
      BY <3>2, LocalSolutionsType DEF Elaborated
    <3>4. TypeOK'
      BY <2>1, <3>1, <3>3
    <3>5. LocalSolutionsExact'
      <4>1. LocalSolutions(SubtreeIds, storage'.subtree_solutions)
              = LocalSolutions(SubtreeIds, sols) \cup Elaborated(SubtreeIds, sols, id, pred)
        BY <2>1, <3>1, ElaborationIsIncrement
      <4>2. storage.old_local \cup storage.new_local = LocalSolutions(SubtreeIds, sols)
        BY <3>1 DEF LocalSolutionsExact
      <4> QED
        BY <3>1, <4>1, <4>2 DEF LocalSolutionsExact
    <3>6. NeverHandedUpTwice'
      BY <3>1 DEF NeverHandedUpTwice
    <3> QED
      BY <3>1, <3>4, <3>5, <3>6 DEF DecisionCovered
  <2> QED
    BY <2>2, <2>3
<1>2. ASSUME HandUp PROVE IInv'
  <2>1. /\ storage'.subtree_solutions = storage.subtree_solutions
        /\ storage'.old_local = storage.old_local \cup storage.new_local
        /\ storage'.new_local = {}
        /\ handedUp' = handedUp \cup storage.new_local
        /\ decided' = decided
    BY <1>2 DEF HandUp, MakeOld
  <2>2. TypeOK'
    BY <1>2 DEF HandUp, MakeOld
  <2> QED
    BY <2>1, <2>2 DEF LocalSolutionsExact, NeverHandedUpTwice, DecisionCovered
<1>3. ASSUME Decide PROVE IInv'
  <2>1. PICK pred \in storage.new_local :
          /\ decided' = {pred}
          /\ storage' = [storage EXCEPT !.old_local = @ \cup {pred}, !.new_local = {}]
          /\ decided = {} /\ handedUp' = handedUp /\ isLeader' = isLeader
    BY <1>3 DEF Decide
  <2>2. pred \in LocalSolutions(SubtreeIds, storage.subtree_solutions)
    BY <2>1 DEF LocalSolutionsExact
  <2>3. \A id \in SubtreeIds :
          \E q \in storage.subtree_solutions[id] : AssignsSubset(q, pred)
    BY <2>2, LocalSolutionCovers
  <2>4. TypeOK'
    BY <2>1
  <2>5. storage'.subtree_solutions = storage.subtree_solutions
    BY <2>1
  <2>6. DecisionCovered'
    BY <2>1, <2>3, <2>5 DEF DecisionCovered
  <2> QED
    BY <2>1, <2>4, <2>6 DEF LocalSolutionsExact, NeverHandedUpTwice
<1>4. CASE UNCHANGED vars
  BY <1>4 DEF vars, LocalSolutionsExact, NeverHandedUpTwice, DecisionCovered
<1> QED
  BY <1>1, <1>2, <1>3, <1>4 DEF Next

\* The storage and the sets beside it hold predicates only.
THEOREM TypeCorrect == Spec => []TypeOK
<1>1. IInv => TypeOK
  BY DEF IInv
<1> QED
  BY InitIInv, NextIInv, <1>1, PTL DEF Spec

\* For all subtrees, variables and values: old_local and new_local are exactly
\* the unions of one solution per subtree (the comment on SolutionStorage::new).
THEOREM StorageExact == Spec => []LocalSolutionsExact
<1>1. IInv => LocalSolutionsExact
  BY DEF IInv
<1> QED
  BY InitIInv, NextIInv, <1>1, PTL DEF Spec

\* assert!(old_local.insert(..)) never fails and no solution is suggested twice.
THEOREM HandedUpOnce == Spec => []NeverHandedUpTwice
<1>1. IInv => NeverHandedUpTwice
  BY DEF IInv
<1> QED
  BY InitIInv, NextIInv, <1>1, PTL DEF Spec

\* The decision of a leader contains a solution of each of its subtrees.
THEOREM DecisionIsCovered == Spec => []DecisionCovered
<1>1. IInv => DecisionCovered
  BY DEF IInv
<1> QED
  BY InitIInv, NextIInv, <1>1, PTL DEF Spec
=============================================================================

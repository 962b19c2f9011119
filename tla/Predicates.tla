----------------------------- MODULE Predicates -----------------------------
(***************************************************************************)
(* Speculative predicates (runtime/mod.rs, struct Predicate): partial      *)
(* assignments of values (SpecVal) to speculative variables (SpecVar).  A   *)
(* predicate labels every speculative branch, payload and solution of a     *)
(* synchronous round.                                                       *)
(*                                                                          *)
(* The BTreeMap `assigned` is a total function into SpecVals plus the        *)
(* marker Unassigned, which stands for an absent key.                       *)
(***************************************************************************)
CONSTANTS
    SpecVars,    \* the speculative variables that occur in a round
    SpecVals,    \* the values a speculative variable may take
    Unassigned   \* `assigned.get(var) == None`

ASSUME UnassignedAssumption == Unassigned \notin SpecVals

Predicate == [SpecVars -> SpecVals \cup {Unassigned}]

\* Predicate::default()
NoAssignments == [v \in SpecVars |-> Unassigned]

\* Predicate::query
Query(p, v) == p[v]

Assigned(p) == {v \in SpecVars : p[v] # Unassigned}

\* Predicate::inserted
Inserted(p, v, val) == [p EXCEPT ![v] = val]

\* Predicate::singleton
Singleton(v, val) == Inserted(NoAssignments, v, val)

\* Predicate::assigns_subset: every assignment of p is mirrored by q.
AssignsSubset(p, q) == \A v \in SpecVars : p[v] # Unassigned => q[v] = p[v]

\* No variable is assigned different values by p and q.
Consistent(p, q) ==
    \A v \in SpecVars : p[v] # Unassigned /\ q[v] # Unassigned => p[v] = q[v]

\* The predicate Some(res) that p.union_with(q) builds when Consistent(p, q).
UnionWith(p, q) ==
    [v \in SpecVars |-> IF q[v] # Unassigned THEN q[v] ELSE p[v]]

\* Predicate::assignment_union: how p and q relate.  The two emptiness tests
\* of the code (s_not_o, o_not_s) are the two subset tests.
AssignmentUnion(p, q) ==
    CASE ~ Consistent(p, q)                          -> "Nonexistant"
      [] AssignsSubset(p, q) /\ AssignsSubset(q, p)  -> "Equivalent"
      [] AssignsSubset(q, p) /\ ~AssignsSubset(p, q) -> "FormerNotLatter"
      [] AssignsSubset(p, q) /\ ~AssignsSubset(q, p) -> "LatterNotFormer"
      [] OTHER                                       -> "New"
=============================================================================

--------------------------- MODULE PredicateUnion ---------------------------
(***************************************************************************)
(* Predicate::assignment_union (runtime/mod.rs) as the loop it is: the two   *)
(* sorted maps are walked side by side, and whatever one of them lacks is    *)
(* noted.  feed_msg decides by its result whether a speculative branch       *)
(* takes a message, forks for it, or ignores it.                             *)
(***************************************************************************)
EXTENDS Predicates, Naturals

ASSUME SpecVarsOrdered == SpecVars \subseteq Nat

VARIABLES
    self, other,        \* the two predicates
    sRest, oRest,       \* the keys s_it and o_it have yet to visit, [s, o] first
    s_not_o, o_not_s,   \* the keys of the assignments noted
    result              \* an AssignmentUnionResult, "walking" before

walkVars == <<self, other, sRest, oRest, s_not_o, o_not_s, result>>

Kinds == {"Nonexistant", "Equivalent", "FormerNotLatter", "LatterNotFormer", "New"}
Walking == [kind |-> "walking", union |-> NoAssignments]

WalkTypeOK ==
    /\ self \in Predicate /\ other \in Predicate
    /\ sRest \subseteq Assigned(self) /\ oRest \subseteq Assigned(other)
    /\ s_not_o \subseteq Assigned(self) /\ o_not_s \subseteq Assigned(other)
    /\ result \in [kind : Kinds \cup {"walking"}, union : Predicate]

WalkInit ==
    /\ self \in Predicate /\ other \in Predicate
    /\ sRest = Assigned(self) /\ oRest = Assigned(other)
    /\ s_not_o = {} /\ o_not_s = {}
    /\ result = Walking
-----------------------------------------------------------------------------
\* BTreeMap iterators yield their keys in order.
IsNext(k, rest) == k \in rest /\ \A j \in rest : k <= j

\* The predicate that contains self and the assignments of other to `keys`.
Extended(keys) == [v \in SpecVars |-> IF v \in keys THEN other[v] ELSE self[v]]

\* The match on [s_not_o.is_empty(), o_not_s.is_empty()] after the loop.  Only
\* New comes with a predicate of its own; the others name one of the inputs.
Verdict(sno, ons) ==
    CASE sno = {} /\ ons = {} -> [kind |-> "Equivalent", union |-> self]
      [] sno # {} /\ ons = {} -> [kind |-> "FormerNotLatter", union |-> self]
      [] sno = {} /\ ons # {} -> [kind |-> "LatterNotFormer", union |-> other]
      [] OTHER                -> [kind |-> "New", union |-> Extended(ons)]

\* (mutant) the element already taken from the other iterator is forgotten
FinishWithoutHead ==
    /\ result = Walking
    /\ sRest = {} \/ oRest = {}
    /\ s_not_o' = s_not_o \cup {k \in sRest : ~IsNext(k, sRest)}
    /\ o_not_s' = o_not_s \cup {k \in oRest : ~IsNext(k, oRest)}
    /\ sRest' = {} /\ oRest' = {}
    /\ result' = Verdict(s_not_o', o_not_s')
    /\ UNCHANGED <<self, other>>

\* [None, None], [None, Some] and [Some, None]: the rest of the longer one is
\* missing from the other.
Finish ==
    /\ result = Walking
    /\ sRest = {} \/ oRest = {}
    /\ s_not_o' = s_not_o \cup sRest
    /\ o_not_s' = o_not_s \cup oRest
    /\ sRest' = {} /\ oRest' = {}
    /\ result' = Verdict(s_not_o', o_not_s')
    /\ UNCHANGED <<self, other>>

\* sid < oid: other is missing this element.
OnlySelf(sid, oid) ==
    /\ sid < oid
    /\ s_not_o' = s_not_o \cup {sid}
    /\ sRest' = sRest \ {sid}
    /\ UNCHANGED <<oRest, o_not_s, result>>

\* sid > oid: self is missing this element.
OnlyOther(sid, oid) ==
    /\ sid > oid
    /\ o_not_s' = o_not_s \cup {oid}
    /\ oRest' = oRest \ {oid}
    /\ UNCHANGED <<sRest, s_not_o, result>>

\* The same variable, with different values: early return.
Differ(sid, oid) ==
    /\ sid = oid
    /\ Query(self, sid) # Query(other, oid)
    /\ result' = [kind |-> "Nonexistant", union |-> NoAssignments]
    /\ UNCHANGED <<sRest, oRest, s_not_o, o_not_s>>

\* The same variable, with the same value.
Agree(sid, oid) ==
    /\ sid = oid
    /\ Query(self, sid) = Query(other, oid)
    /\ sRest' = sRest \ {sid} /\ oRest' = oRest \ {oid}
    /\ UNCHANGED <<s_not_o, o_not_s, result>>

Compare(sid, oid) ==
    /\ result = Walking
    /\ IsNext(sid, sRest) /\ IsNext(oid, oRest)
    /\ \/ OnlySelf(sid, oid)
       \/ OnlyOther(sid, oid)
       \/ Differ(sid, oid)
       \/ Agree(sid, oid)
    /\ UNCHANGED <<self, other>>

WalkNext == Finish \/ \E sid \in sRest, oid \in oRest : Compare(sid, oid)

WalkSpec == WalkInit /\ [][WalkNext]_walkVars
-----------------------------------------------------------------------------
(* Properties *)

\* The walk in key order finds out how the two predicates really relate, and the
\* predicate it stands for is the one that union_with, which inserts one into
\* the other, would build: Nonexistant exactly if they contradict each other.
ResultExact ==
    result # Walking =>
        /\ result.kind = AssignmentUnion(self, other)
        /\ Consistent(self, other) => result.union = UnionWith(self, other)

\* The walk never passes over an element: what an iterator has left behind is
\* smaller than everything the other has still to visit, and is noted exactly
\* if the other predicate does not assign it.
WalkInvariant ==
    /\ \A j \in Assigned(self) \ sRest, k \in oRest : j < k
    /\ \A j \in Assigned(other) \ oRest, k \in sRest : j < k
    /\ s_not_o = (Assigned(self) \ sRest) \ Assigned(other)
    /\ o_not_s = (Assigned(other) \ oRest) \ Assigned(self)
    /\ \A j \in (Assigned(self) \ sRest) \cap Assigned(other) : self[j] = other[j]
    /\ result # Walking =>
         \/ result.kind = "Nonexistant" /\ ~Consistent(self, other)
         \/ sRest = {} /\ oRest = {} /\ result = Verdict(s_not_o, o_not_s)
=============================================================================

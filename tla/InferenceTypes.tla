--------------------------- MODULE InferenceTypes ---------------------------
(***************************************************************************)
(* The types of the inference pass: protocol/parser/pass_typing.rs,          *)
(* InferenceTypePart and InferenceType.                                      *)
(*                                                                          *)
(* A type is the depth-first sequence of its parts.  Only types whose parts  *)
(* have at most one subtype are considered (no user-defined type with two or *)
(* more polymorphic arguments), so that the subtree at an index is the rest  *)
(* of the sequence.  UInt8 and SInt32 stand for the eight integer types.     *)
(***************************************************************************)
EXTENDS Naturals, Sequences

IntegerParts == {"UInt8", "SInt32"}
ArrayParts == {"Array", "Slice", "String", "Message"}
PortParts == {"Input", "Output"}

\* is_concrete fails for these.  (Only Unknown has no subtype and still stands
\* for a type that has one.)
PartialParts == {"Unknown", "NumberLike", "IntegerLike", "ArrayLike", "PortLike"}

IsDone(t) == \A i \in DOMAIN t : t[i] \notin PartialParts

Unknown == <<"Unknown">>
VOID_TEMPLATE == <<"Void">>
MESSAGE_TEMPLATE == <<"Message", "UInt8">>
BOOL_TEMPLATE == <<"Bool">>
CHARACTER_TEMPLATE == <<"Character">>
STRING_TEMPLATE == <<"String", "Character">>
NUMBERLIKE_TEMPLATE == <<"NumberLike">>
INTEGERLIKE_TEMPLATE == <<"IntegerLike">>
ARRAY_TEMPLATE == <<"Array", "Unknown">>
SLICE_TEMPLATE == <<"Slice", "Unknown">>
ARRAYLIKE_TEMPLATE == <<"ArrayLike", "Unknown">>

\* may_be_inferred_from: part p is less specific than part q.
MayBeInferredFrom(p, q) ==
    \/ p = "IntegerLike" /\ q \in IntegerParts
    \/ p = "NumberLike" /\ q \in IntegerParts \cup {"IntegerLike"}
    \/ p = "ArrayLike" /\ q \in ArrayParts
    \/ p = "PortLike" /\ q \in PortParts

\* Two parts at the same place of two types can be reconciled: they are equal,
\* or one of them is inferred from the other.
PartsAgree(p, q) ==
    \/ p = q
    \/ "Unknown" \in {p, q}
    \/ MayBeInferredFrom(p, q)
    \/ MayBeInferredFrom(q, p)

\* check_subtrees: nothing is inferred, the types are only compared.  Where one
\* of them ends, the other goes on only below an Unknown.
Compatible(s, t) ==
    \A i \in DOMAIN s \cap DOMAIN t : PartsAgree(s[i], t[i])

\* infer_part_for_single_type, for the less specific of two parts that agree.
MoreSpecific(p, q) == IF p = "Unknown" \/ MayBeInferredFrom(p, q) THEN q ELSE p

\* What infer_subtrees_for_both_types makes of two compatible types, and
\* infer_subtree_for_single_type of the one it infers.
Meet(s, t) ==
    [i \in DOMAIN s \cup DOMAIN t |->
        IF i \notin DOMAIN s THEN t[i]
        ELSE IF i \notin DOMAIN t THEN s[i]
        ELSE MoreSpecific(s[i], t[i])]

\* infer_subtree_for_single_type with forced_template: t must not be more
\* specific than the template in any part.
Forceable(t, template) == Compatible(t, template) /\ Meet(t, template) = template

\* The subtree of t at (zero-based) index i.
Subtree(t, i) == SubSeq(t, i + 1, Len(t))

\* replace_subtree
ReplaceSubtree(t, i, with) == SubSeq(t, 1, i) \o with
=============================================================================

------------------------------ MODULE Semantics ------------------------------
(***************************************************************************)
(* What the language says expressions are worth, independent of stacks,      *)
(* references and regions: the standard the evaluator is held to.  In the    *)
(* context c are the linked definitions, the messages and the firings of     *)
(* the round; `values` maps declarations to values.                          *)
(***************************************************************************)
EXTENDS Statements, Store

Empty == [x \in {} |-> x]
Abstract(kind, n, parts) == [kind |-> kind, n |-> n, parts |-> parts]
RECURSIVE Abs(_, _)
Abs(st, v) ==
    LET src == read_ref(st, v)
    IN  IF src.kind \in HeapKinds
        THEN Abstract(src.kind, src.i, [k \in 1..Len(st.regions[src.n]) |-> Abs(st, st.regions[src.n][k])])
        ELSE Abstract(src.kind, src.n, <<>>)
Truth(b) == Abstract("Bool", IF b THEN 1 ELSE 0, <<>>)

RECURSIVE Meaning(_, _, _), Runs(_, _, _, _), Bound(_, _, _, _)
MeaningBinary(op, a, b) ==
    CASE op = "Concatenate" -> [a EXCEPT !.parts = @ \o b.parts]
      [] op = "LogicalAnd" -> Truth(a.n = 1 /\ b.n = 1)
      [] op = "LogicalOr" -> Truth(a.n = 1 \/ b.n = 1)
      [] op = "Equality" -> Truth(a = b)
      [] op = "Inequality" -> Truth(a # b)
      [] op = "LessThan" -> Truth(a.n < b.n)
      [] op = "GreaterThan" -> Truth(b.n < a.n)
      [] op = "LessThanEqual" -> Truth(a.n <= b.n)
      [] op = "GreaterThanEqual" -> Truth(b.n <= a.n)
      [] OTHER -> Abstract(a.kind, IntResult(op, a.n, b.n), <<>>)
MeaningLiteral(e, parts) ==
    CASE e.op = "Integer" -> Abstract(e.name, e.n, <<>>)
      [] e.op \in {"True", "False"} -> Truth(e.op = "True")
      [] e.op = "Character" -> Abstract("Char", e.n, <<>>)
      [] e.op = "String" -> Abstract("String", 0, <<Abstract("Char", e.n, <<>>)>>)
      [] e.op = "Enum" -> Abstract("Enum", e.n, <<>>)
      [] e.op = "Struct" -> Abstract("Struct", 0, [f \in 1..Len(parts) |->
                                                     parts[CHOOSE k \in DOMAIN e.fields : e.fields[k] = f]])
      [] e.op = "Union" -> Abstract("Union", e.n, parts)
      [] e.op = "Array" -> Abstract("Array", 0, parts)
MeaningCall(c, e, a) ==
    CASE e.name = "get" -> c.inbox[a[1].n]
      [] e.name = "fires" -> Truth(c.firing[a[1].n])
      [] e.name = "create" -> Abstract("Message", 0, [k \in 1..a[1].n |-> Abstract("UInt8", 0, <<>>)])
      [] e.name = "length" -> Abstract("UInt32", Len(a[1].parts), <<>>)
      [] OTHER -> Runs(c, e.name, <<>>, [d \in {[scope |-> ParamScope, idx |-> i] : i \in DOMAIN a} |-> a[d.idx]])
Meaning(c, values, e) ==
    LET a == [k \in 1..Len(e.args) |-> Meaning(c, values, e.args[k])]
        test == Meaning(c, values, e.args[1])
    IN  CASE e.kind = "Variable" ->
                IF e.decl \in DOMAIN values THEN values[e.decl] ELSE Abstract("Unassigned", 0, <<>>)
          [] e.kind = "Literal" -> MeaningLiteral(e, a)
          [] e.kind = "Binary" -> MeaningBinary(e.op, a[1], a[2])
          [] e.kind = "Unary" -> IF e.op = "Negative" THEN [a[1] EXCEPT !.n = -@] ELSE Truth(a[1].n = 0)
          [] e.kind = "Conditional" -> Meaning(c, values, IF test.n = 1 THEN e.args[2] ELSE e.args[3])
          [] e.kind = "Indexing" -> a[1].parts[a[2].n + 1]
          [] e.kind = "Slicing" -> [a[1] EXCEPT !.parts = SubSeq(@, a[2].n + 1, a[3].n)]
          [] e.kind = "Select" -> a[1].parts[e.n]
          [] e.kind = "Cast" -> Abstract(e.name, IF a[1].kind = "Char" THEN As(a[1].n, e.name) ELSE a[1].n, <<>>)
          [] e.kind = "Call" -> MeaningCall(c, e, a)
          [] e.kind = "Binding" -> Truth(Bound(c, values, e.args[1], Meaning(c, values, e.args[2])).ok)

\* Whether a pattern matches, and the variables it binds if it does.
Bound(c, values, pattern, a) ==
    LET Field(k) == IF pattern.op = "Struct" THEN pattern.fields[k] ELSE k
        BoundPart(acc, k) == IF acc.ok THEN LET b == Bound(c, values, pattern.args[k], a.parts[Field(k)])
                                            IN  [ok |-> b.ok, vars |-> acc.vars @@ b.vars]
                             ELSE acc
    IN  CASE pattern.kind = "Variable" /\ pattern.op = "Binding" -> [ok |-> TRUE, vars |-> pattern.decl :> a]
          [] pattern.kind = "Literal" /\ pattern.op \in {"Struct", "Union", "Array"} ->
                IF Len(pattern.args) # Len(a.parts) \/ (pattern.op = "Union" /\ pattern.n # a.n)
                THEN [ok |-> FALSE, vars |-> Empty]
                ELSE FoldLeft(BoundPart, [ok |-> TRUE, vars |-> Empty], [k \in 1..Len(a.parts) |-> k])
          [] OTHER -> [ok |-> Meaning(c, values, pattern) = a, vars |-> Empty]

\* The variables that a test binds on its way to TRUE.
RECURSIVE TestBinds(_, _, _)
TestBinds(c, values, e) ==
    CASE e.kind = "Binding" -> Bound(c, values, e.args[1], Meaning(c, values, e.args[2])).vars
      [] e.kind = "Binary" -> TestBinds(c, values, e.args[1]) @@ TestBinds(c, values, e.args[2])
      [] OTHER -> Empty

\* The values after an assignment, into a variable or a part of its value.
RECURSIVE Updated(_, _, _, _, _)
Updated(c, values, lhs, op, a) ==
    LET old == Meaning(c, values, lhs)
        new == CASE op = "Set" -> a
                 [] op = "Concatenated" -> [old EXCEPT !.parts = @ \o a.parts]
                 [] op = "Added" -> [old EXCEPT !.n = @ + a.n]
                 [] op = "Subtracted" -> [old EXCEPT !.n = @ - a.n]
                 [] op = "Multiplied" -> [old EXCEPT !.n = @ * a.n]
        whole == Meaning(c, values, lhs.args[1])
        part == IF lhs.kind = "Select" THEN lhs.n ELSE Meaning(c, values, lhs.args[2]).n + 1
    IN  IF lhs.kind = "Variable"
        THEN [d \in DOMAIN values \cup {lhs.decl} |-> IF d = lhs.decl THEN new ELSE values[d]]
        ELSE Updated(c, values, lhs.args[1], "Set",
                     [whole EXCEPT !.parts = [k \in 1..Len(@) |-> IF k = part THEN new ELSE @[k]]])
Assigned(c, values, e) == Updated(c, values, e.args[1], e.op, Meaning(c, values, e.args[2]))

\* What a function returns: it is run along its links, a statement at a time.
Runs(c, f, p, values) ==
    LET s == c.linked[f].ast[p]
        test == Meaning(c, values, s.expr).n = 1
    IN  CASE s.kind = "Return" -> Meaning(c, values, s.expr)
          [] s.kind = "Expression" -> Runs(c, f, c.linked[f].next[p], Assigned(c, values, s.expr))
          [] s.kind = "If" -> Runs(c, f, IF test THEN Append(p, 1)
                                         ELSE IF s.hasElse THEN Append(p, 2) ELSE EndOf(c.linked[f].ast, p),
                                   TestBinds(c, values, s.expr) @@ values)
          [] OTHER -> Runs(c, f, c.linked[f].next[p], values)
=============================================================================

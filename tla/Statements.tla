----------------------------- MODULE Statements -----------------------------
(***************************************************************************)
(* A procedure body from its statements to the linked tree the evaluator     *)
(* walks: what the definition parser makes of the statements, and what the   *)
(* validation pass accepts, links and numbers.                               *)
(*                                                                           *)
(* A node is named by its path: the body is <<>>, the i-th statement of the  *)
(* block b is b \o <<i>>, the end of b is b \o <<0>>; the first block of an  *)
(* if, while or sync p is p \o <<1>>, the else block p \o <<2>>, and the     *)
(* statement behind the label p is p \o <<1>>.                               *)
(***************************************************************************)
EXTENDS Integers, FiniteSets, TLC, SequencesExt

CONSTANTS
    StructFields,    \* the number of fields of a struct
    UnionValues      \* for each variant of a union, the values it embeds

NoDecl == [scope |-> <<>>, idx |-> 0]
Expr(kind, op, args) ==
    [kind |-> kind, op |-> op, args |-> args, name |-> "", n |-> 0, fields |-> <<>>, decl |-> NoDecl]
NoExpr == Expr("None", "", <<>>)
Statement(kind) ==
    [kind |-> kind, label |-> "", names |-> <<>>, expr |-> NoExpr, body |-> <<>>,
     other |-> <<>>, hasElse |-> FALSE, size |-> 0]
-----------------------------------------------------------------------------
(***************************************************************************)
(* The definition parser.                                                    *)
(***************************************************************************)
EndKind == [If |-> "EndIf", While |-> "EndWhile", Synchronous |-> "EndSynchronous"]

\* The statements that one statement of the text becomes: an end node follows
\* the statement it ends, a declaration is followed by its first assignment,
\* a label takes the first statement and leaves the others behind it.
RECURSIVE ConsumeStatement(_)
ConsumeStatement(s) ==
    CASE s.kind \in DOMAIN EndKind -> <<s, Statement(EndKind[s.kind])>>
      [] s.kind = "Memory" ->
            LET variable == [Expr("Variable", "", <<>>) EXCEPT !.name = s.names[1]]
                assignment == Expr("Assignment", "Set", <<variable, s.expr>>)
            IN  <<[s EXCEPT !.expr = NoExpr], [Statement("Expression") EXCEPT !.expr = assignment]>>
      [] s.kind = "Labeled" ->
            LET inner == ConsumeStatement(s.body[1])
            IN  <<[s EXCEPT !.body = <<Head(inner)>>]>> \o Tail(inner)
      [] OTHER -> <<s>>

ConsumeBlock(stmts) == FlattenSeq([i \in 1..Len(stmts) |-> ConsumeStatement(stmts[i])])

\* The nodes below the path p, as a set of pairs.
RECURSIVE BlockNodes(_, _), StatementNodes(_, _)
BlockNodes(p, stmts) ==
    LET statements == ConsumeBlock(stmts)
    IN  {<<p, [Statement("Block") EXCEPT !.size = Len(statements)]>>,
         <<Append(p, 0), Statement("EndBlock")>>}
          \cup UNION {StatementNodes(Append(p, i), statements[i]) : i \in 1..Len(statements)}
StatementNodes(p, s) ==
    LET this == <<p, [s EXCEPT !.body = <<>>, !.other = <<>>]>>
    IN  CASE s.kind = "Block" -> BlockNodes(p, s.body)
          [] s.kind \in DOMAIN EndKind ->
                {this} \cup BlockNodes(Append(p, 1), s.body)
                  \cup (IF s.hasElse THEN BlockNodes(Append(p, 2), s.other) ELSE {})
          [] s.kind = "Labeled" -> {this} \cup StatementNodes(Append(p, 1), s.body[1])
          [] OTHER -> {this}

Parse(stmts) ==
    LET nodes == BlockNodes(<<>>, stmts)
    IN  [p \in {node[1] : node \in nodes} |-> (CHOOSE node \in nodes : node[1] = p)[2]]
-----------------------------------------------------------------------------
(***************************************************************************)
(* Scopes.  `pos` is the position of the statement around p in the block b.  *)
(***************************************************************************)
Blocks(ast) == {p \in DOMAIN ast : ast[p].kind = "Block"}
Chain(ast, p) == {b \in Blocks(ast) : IsStrictPrefix(b, p)}
Innermost(paths) == CHOOSE b \in paths : \A c \in paths : Len(c) <= Len(b)
ScopeOf(ast, p) == Innermost(Chain(ast, p))
PosIn(b, p) == p[Len(b) + 1] - 1
relative_pos_in_parent(ast, b) == IF b = <<>> THEN 0 ELSE PosIn(ScopeOf(ast, b), b)
InSync(ast, p) == {s \in DOMAIN ast : ast[s].kind = "Synchronous" /\ IsStrictPrefix(s, p)}

ParamScope == <<-1>>
HasTest(ast, b) == b # <<>> /\ Last(b) = 1 /\ ast[Front(b)].kind \in {"If", "While"}

\* The variables named on the left-hand sides of the bindings of a test.
RECURSIVE VariableNames(_), BindingNames(_)
VariableNames(e) ==
    IF e.kind = "Variable" THEN <<e.name>>
    ELSE FlattenSeq([k \in 1..Len(e.args) |-> VariableNames(e.args[k])])
BindingNames(e) ==
    IF e.kind = "Binding" THEN VariableNames(e.args[1])
    ELSE FlattenSeq([k \in 1..Len(e.args) |-> BindingNames(e.args[k])])

\* The variable a name denotes at p: the innermost block around p that has
\* declared it by then, after that the parameters.
find_variable(locals, params, p, name) ==
    LET Declares(b, i) == locals[b][i].name = name /\ locals[b][i].pos <= PosIn(b, p)
        blocks == {b \in DOMAIN locals : IsStrictPrefix(b, p) /\ \E i \in DOMAIN locals[b] : Declares(b, i)}
        scope == Innermost(blocks)
    IN  CASE blocks # {} -> [scope |-> scope, idx |-> CHOOSE i \in DOMAIN locals[scope] : Declares(scope, i)]
          [] blocks = {} /\ Contains(params, name) ->
                [scope |-> ParamScope, idx |-> CHOOSE i \in DOMAIN params : params[i] = name]
          [] OTHER -> NoDecl

\* The locals of a block: first, at position 0, those that the test before the
\* block binds (a name the test can resolve is no binding variable), then the
\* declared ones by position.
LocalsOfBlock(ast, params, locals, b) ==
    LET Local(name, pos, bound) == [name |-> name, pos |-> pos, bound |-> bound]
        names == IF HasTest(ast, b) THEN BindingNames(ast[Front(b)].expr) ELSE <<>>
        binding == SelectSeq(names, LAMBDA name : find_variable(locals, params, Front(b), name) = NoDecl)
        here == SetToSortSeq({p \in DOMAIN ast : /\ ast[p].kind \in {"Memory", "Channel"}
                                                 /\ ScopeOf(ast, p) = b},
                             LAMBDA p, q : PosIn(b, p) < PosIn(b, q))
        Declared(p) == [k \in 1..Len(ast[p].names) |-> Local(ast[p].names[k], PosIn(b, p), FALSE)]
    IN  [k \in 1..Len(binding) |-> Local(binding[k], 0, TRUE)]
          \o FlattenSeq([k \in 1..Len(here) |-> Declared(here[k])])

\* Outer blocks come before inner ones.
Locals(ast, params) ==
    FoldLeft(LAMBDA locals, b : locals @@ (b :> LocalsOfBlock(ast, params, locals, b)),
             [b \in {} |-> <<>>],
             SetToSortSeq(Blocks(ast), LAMBDA b, c : Len(b) < Len(c)))

\* A new name may not collide with an earlier one of its block.  For a declared
\* one the pass goes on to the parameters and the blocks around it: it looks
\* for names in a block below the body with the position of the block outside.
checked_add_local(ast, params, locals, b, i) ==
    LET local == locals[b][i]
        Hidden(c, j) == locals[c][j].pos > relative_pos_in_parent(ast, ScopeOf(ast, c))
    IN  /\ \A j \in 1..(i - 1) : locals[b][j].name # local.name
        /\ ~local.bound =>
              /\ ~Contains(params, local.name)
              /\ \A c \in Chain(ast, b) \ {<<>>} : \A j \in DOMAIN locals[c] :
                    Hidden(c, j) \/ locals[c][j].name # local.name

checked_add_label(ast, p) ==
    \A q \in DOMAIN ast \ {p} :
        (ast[q].kind = "Labeled" /\ ScopeOf(ast, q) \in Chain(ast, p)) => ast[q].label # ast[p].label
-----------------------------------------------------------------------------
(***************************************************************************)
(* Jumps.                                                                    *)
(***************************************************************************)
NoPath == <<-2>>

\* The label in the innermost block that has it.  It is refused when a local
\* of that block lies before the label and behind the block's own position in
\* its parent.
SkipsLocal(ast, locals, b, label) ==
    \E i \in DOMAIN locals[b] :
        relative_pos_in_parent(ast, b) < locals[b][i].pos /\ locals[b][i].pos < PosIn(b, label)

find_label(ast, locals, p, name) ==
    LET labels == {q \in DOMAIN ast : /\ ast[q].kind = "Labeled" /\ ast[q].label = name
                                      /\ ScopeOf(ast, q) \in Chain(ast, p)}
        label == CHOOSE q \in labels : \A r \in labels : Len(ScopeOf(ast, r)) <= Len(ScopeOf(ast, q))
    IN  IF labels = {} \/ SkipsLocal(ast, locals, ScopeOf(ast, label), label) THEN NoPath ELSE label

\* The loop a break or continue at p is about.
resolve_break_or_continue_target(ast, locals, p) ==
    LET label == find_label(ast, locals, p, ast[p].label)
        loops == {w \in DOMAIN ast : ast[w].kind = "While" /\ IsStrictPrefix(w, p)}
        target == CASE ast[p].label # "" /\ label # NoPath -> Append(label, 1)
                    [] ast[p].label = "" /\ loops # {} -> Innermost(loops)
                    [] OTHER -> NoPath
    IN  IF target \in loops /\ InSync(ast, target) = InSync(ast, p) THEN target ELSE NoPath

visit_goto_stmt_anywhere(ast, locals, p) == find_label(ast, locals, p, ast[p].label)
visit_goto_stmt(ast, locals, p) ==
    LET label == find_label(ast, locals, p, ast[p].label)
    IN  IF label # NoPath /\ InSync(ast, label) = InSync(ast, p) THEN label ELSE NoPath

\* The statement that ends p, and the one that follows it in its block.
EndOf(ast, p) == LET b == ScopeOf(ast, p) IN Append(b, PosIn(b, p) + 2)
RECURSIVE Entry(_, _)
Entry(ast, p) == IF ast[p].kind = "Labeled" THEN Entry(ast, Append(p, 1)) ELSE p
Following(ast, p) ==
    LET b == ScopeOf(ast, p)
        pos == PosIn(b, p) + 2
    IN  IF pos <= ast[b].size THEN Entry(ast, Append(b, pos)) ELSE Append(b, 0)

\* The statement to go to once p is done, unless p chooses it itself.
BlockEnd(ast, b) ==
    LET owner == IF b = <<>> THEN "None" ELSE ast[Front(b)].kind
    IN  CASE b = <<>> -> NoPath
          [] owner \in {"If", "Synchronous"} -> EndOf(ast, Front(b))
          [] owner = "While" -> Front(b)
          [] OTHER -> Following(ast, b)
LinkedNext(ast, p) ==
    CASE ast[p].kind = "Block" -> IF ast[p].size > 0 THEN Entry(ast, Append(p, 1)) ELSE Append(p, 0)
      [] ast[p].kind = "EndBlock" -> BlockEnd(ast, Front(p))
      [] ast[p].kind \in {"If", "While", "Synchronous", "Labeled", "Return"} -> NoPath
      [] OTHER -> Following(ast, p)

Link(ast, locals, p) ==
    CASE ast[p].kind = "Goto" -> visit_goto_stmt(ast, locals, p)
      [] ast[p].kind = "Continue" -> resolve_break_or_continue_target(ast, locals, p)
      [] ast[p].kind = "Break" ->
            LET target == resolve_break_or_continue_target(ast, locals, p)
            IN  IF target = NoPath THEN NoPath ELSE EndOf(ast, target)
      [] OTHER -> LinkedNext(ast, p)
-----------------------------------------------------------------------------
(***************************************************************************)
(* Expressions.  The context says where the expression stands:               *)
(* parent, what it is directly below; test, whether it is in the test of an  *)
(* if or while; onlyAnd, whether only && separates it from there; binding    *)
(* and lhs, whether it is in a binding, and in its left-hand side;           *)
(* assignable, whether it is to be assigned to.                              *)
(***************************************************************************)
LiteralComplete(e) ==
    CASE e.op = "Struct" -> /\ Len(e.fields) = StructFields
                            /\ ToSet(e.fields) = 1..StructFields
      [] e.op = "Union" -> e.n \in DOMAIN UnionValues /\ Len(e.args) = UnionValues[e.n]
      [] OTHER -> TRUE

MethodAllowedAnywhere(defs, c, name) ==
    CASE name \in {"get", "put", "fires", "assert"} -> c.type # "Function"
      [] name \in {"create", "length"} -> TRUE
      [] OTHER -> name \in DOMAIN defs
\* Where a method may be called; `defs` are the user's definitions.
MethodAllowed(defs, c, name) ==
    CASE name \in {"get", "put", "fires"} -> c.type = "Primitive" /\ c.inSync
      [] name = "assert" -> c.type # "Function" /\ c.inSync
      [] name \in {"create", "length"} -> TRUE
      [] OTHER -> name \in DOMAIN defs
IsComponent(defs, name) == name \in DOMAIN defs /\ defs[name].type # "Function"
NumArguments(defs, name) ==
    CASE name = "put" -> 2
      [] name \in DOMAIN defs -> Len(defs[name].params)
      [] OTHER -> 1

BindingAllowed(c, e) ==
    ~c.assignable /\ c.test /\ ~c.binding /\ c.onlyAnd /\ e.args[1].kind \in {"Variable", "Literal"}

RECURSIVE ValidExpr(_, _, _)
ValidExpr(defs, c, e) ==
    LET below == [c EXCEPT !.parent = e.kind, !.onlyAnd = @ /\ e.kind = "Binary" /\ e.op = "LogicalAnd"]
        Valid(k) == ValidExpr(defs, below, e.args[k])
        ValidAs(k, assignable) == ValidExpr(defs, [below EXCEPT !.assignable = assignable], e.args[k])
        ValidBound(k) == ValidExpr(defs, [below EXCEPT !.binding = TRUE, !.lhs = (k = 1)], e.args[k])
        AllValid == \A k \in DOMAIN e.args : Valid(k)
    IN  CASE e.kind = "Assignment" -> c.parent = "Expression" /\ ValidAs(1, TRUE) /\ ValidAs(2, FALSE)
          [] e.kind = "Binding" -> BindingAllowed(c, e) /\ ValidBound(1) /\ ValidBound(2)
          [] e.kind = "Indexing" -> Valid(1) /\ ValidAs(2, FALSE)
          [] e.kind = "Select" -> Valid(1)
          [] e.kind = "Literal" -> ~c.assignable /\ LiteralComplete(e) /\ AllValid
          [] e.kind = "Call" ->
                /\ ~c.assignable /\ MethodAllowed(defs, c, e.name)
                /\ IsComponent(defs, e.name) <=> c.parent = "New"
                /\ Len(e.args) = NumArguments(defs, e.name) /\ AllValid
          [] e.kind = "Variable" -> \/ e.name \in c.visible
                                    \/ c.lhs /\ c.parent \in {"Binding", "Literal"}
          [] OTHER -> ~c.assignable /\ AllValid

\* A variable expression knows its declaration and, on the left-hand side of
\* a binding, whether it is bound there.
RECURSIVE Resolved(_, _, _, _)
Resolved(locals, params, p, e) ==
    LET found == find_variable(locals, params, p, e.name)
        body == Append(p, 1)
    IN  CASE e.kind # "Variable" ->
                [e EXCEPT !.args = [k \in 1..Len(e.args) |-> Resolved(locals, params, p, e.args[k])]]
          [] e.kind = "Variable" /\ found # NoDecl -> [e EXCEPT !.decl = found]
          [] OTHER -> [e EXCEPT !.op = "Binding",
                                !.decl = [scope |-> body,
                                          idx |-> CHOOSE i \in DOMAIN locals[body] : locals[body][i].name = e.name]]
-----------------------------------------------------------------------------
(***************************************************************************)
(* The pass as a whole.                                                      *)
(***************************************************************************)
StatementAllowed(defs, def, ast, locals, p) ==
    LET s == ast[p]
        names == {name \in ToSet(VariableNames(s.expr)) :
                    find_variable(locals, def.params, p, name) # NoDecl}
        context == [type |-> def.type, inSync |-> InSync(ast, p) # {}, parent |-> s.kind,
                    test |-> s.kind \in {"If", "While"}, onlyAnd |-> TRUE, binding |-> FALSE,
                    lhs |-> FALSE, assignable |-> FALSE, visible |-> names]
    IN  /\ CASE s.kind = "Synchronous" -> InSync(ast, p) = {} /\ def.type = "Primitive"
             [] s.kind = "Return" -> def.type = "Function"
             [] s.kind = "New" -> def.type = "Composite"
             [] s.kind \in {"Goto", "Break", "Continue"} -> Link(ast, locals, p) # NoPath
             [] s.kind = "Labeled" -> checked_add_label(ast, p)
             [] s.kind = "Block" -> \A i \in DOMAIN locals[p] : checked_add_local(ast, def.params, locals, p, i)
             [] OTHER -> TRUE
        /\ s.expr # NoExpr => ValidExpr(defs, context, s.expr)

RECURSIVE first_unique_id_early(_, _, _)
first_unique_id_early(locals, params, b) ==
    IF b = <<>> THEN Len(params)
    ELSE LET parent == Innermost({c \in DOMAIN locals : IsStrictPrefix(c, b)})
         IN  first_unique_id_early(locals, params, parent)
               + Cardinality({i \in DOMAIN locals[parent] : locals[parent][i].pos < PosIn(parent, b)})
\* Slots on the stack: a block starts where the locals of the block around it
\* have got to, so blocks side by side share theirs.
RECURSIVE first_unique_id_in_scope(_, _, _)
first_unique_id_in_scope(locals, params, b) ==
    IF b = <<>> THEN Len(params)
    ELSE LET parent == Innermost({c \in DOMAIN locals : IsStrictPrefix(c, b)})
         IN  first_unique_id_in_scope(locals, params, parent)
               + Cardinality({i \in DOMAIN locals[parent] : locals[parent][i].pos <= PosIn(parent, b)})

max_stack_size(first, locals) == Max({first[b] + Len(locals[b]) : b \in DOMAIN locals})

\* The linked definition, or Refused.
Refused == [ok |-> FALSE]
Validate(defs, name) ==
    LET def == defs[name]
        ast == Parse(def.body)
        locals == Locals(ast, def.params)
        first == [b \in Blocks(ast) |-> first_unique_id_in_scope(locals, def.params, b)]
    IN  IF \A p \in DOMAIN ast : StatementAllowed(defs, def, ast, locals, p)
        THEN [ok |-> TRUE, type |-> def.type, locals |-> locals, first |-> first,
              size |-> max_stack_size(first, locals),
              ast |-> [p \in DOMAIN ast |->
                         [ast[p] EXCEPT !.expr = Resolved(locals, def.params, p, @)]],
              next |-> [p \in DOMAIN ast |-> Link(ast, locals, p)]]
        ELSE Refused

unique_id_in_scope(linked, decl) ==
    decl.idx - 1 + (IF decl.scope = ParamScope THEN 0 ELSE linked.first[decl.scope])

\* Whether a jump really passes a declaration of the block it stays in: the
\* check of find_label compares with another position.
SkipsDeclaration(linked) ==
    \E p \in DOMAIN linked.ast :
        /\ linked.ast[p].kind = "Goto"
        /\ LET label == linked.next[p]
               b == ScopeOf(linked.ast, label)
           IN  \E i \in DOMAIN linked.locals[b] :
                   PosIn(b, p) < linked.locals[b][i].pos /\ linked.locals[b][i].pos < PosIn(b, label)
=============================================================================

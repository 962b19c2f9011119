------------------------------ MODULE MCTyping ------------------------------
(***************************************************************************)
(* Typing on families of small programs.  Expressions are written as trees   *)
(* and numbered in the order in which the pass visits them.                  *)
(***************************************************************************)
EXTENDS Typing

Node(kind, op, args) ==
    [kind |-> kind, op |-> op, args |-> args, parent |-> NoExpr, this |-> NoExpr,
     context |-> "Expression", var |-> "", def |-> "", field |-> "", builtin |-> FALSE,
     to |-> Unknown, types |-> <<>>, ret |-> VOID_TEMPLATE, polyArg |-> NoArg]
Var(v) == [Node("var", "", <<>>) EXCEPT !.var = v]
Lit(op) == Node("lit", op, <<>>)
Bin(op, s, t) == Node("bin", op, <<s, t>>)
Set(v, t) == Node("assign", "Set", <<Var(v), t>>)
Cast(type, t) == [Node("cast", "", <<t>>) EXCEPT !.to = type]
Select(t, field) == [Node("select", "", <<t>>) EXCEPT !.field = field]
Call(f, types, ret, polyArg, args) ==
    [Node("call", "", args) EXCEPT !.def = f, !.types = types, !.ret = ret, !.polyArg = polyArg]
Builtin(f, types, ret, args) == [Call(f, types, ret, Unknown, args) EXCEPT !.builtin = TRUE]
New(d, types, ret, polyArg, args) ==
    [Node("lit", "Data", args) EXCEPT !.def = d, !.types = types, !.ret = ret, !.polyArg = polyArg]
In(context, t) == [t EXCEPT !.context = context]
Stmt(t) == In("Statement", t)

\* The expressions of trees in the order of the visit; `from` is the number of
\* the first one.
RECURSIVE Size(_), SizeAll(_), Flatten(_, _, _), FlattenAll(_, _, _)
Size(t) == 1 + SizeAll(t.args)
SizeAll(ts) == IF ts = <<>> THEN 0 ELSE Size(Head(ts)) + SizeAll(Tail(ts))
Flatten(t, from, parent) ==
    LET this == from + SizeAll(t.args)
        at(k) == from + SizeAll(SubSeq(t.args, 1, k)) - 1
    IN  Append(FlattenAll(t.args, from, this),
               [t EXCEPT !.this = this, !.parent = parent, !.args = [k \in DOMAIN t.args |-> at(k)]])
FlattenAll(ts, from, parent) ==
    IF ts = <<>> THEN <<>>
    ELSE Flatten(Head(ts), from, parent) \o FlattenAll(Tail(ts), from + Size(Head(ts)), parent)

Fun(poly, vs, ret, trees) ==
    [poly |-> poly, vars |-> vs, linked |-> [v \in {} |-> v], ret |-> ret, exprs |-> FlattenAll(trees, 1, NoExpr)]
NoData == [d \in {} |-> d]
Single(fun) == [procs |-> [f \in {"main"} |-> fun], roots |-> <<"main">>, data |-> NoData]
-----------------------------------------------------------------------------
U8 == <<"UInt8">>
Bool == BOOL_TEMPLATE
Str == STRING_TEMPLATE
ArrU8 == <<"Array", "UInt8">>
Auto == Unknown
Types == {Auto, U8, Bool, Str, ArrU8}

Locals(tx, ty) == [x |-> tx, y |-> ty, z |-> Auto]
Main(locals, trees) == Single(Fun(FALSE, locals, VOID_TEMPLATE, trees))

\* Every operation on variables and literals; its result goes into a variable.
Leaves == {Var("x"), Var("y"), Lit("Integer"), Lit("String")}
Ops == {"Concatenate", "LogicalOr", "LogicalAnd", "BitwiseAnd", "Equality", "LessThan", "Add"}
Operations ==
    {Bin(op, s, t) : op \in Ops, s \in Leaves, t \in Leaves}
      \cup {Node("index", "", <<s, t>>) : s \in Leaves, t \in Leaves}
      \cup {Node("slice", "", <<Var("x"), s, t>>) : s \in Leaves, t \in Leaves}
      \cup {Node("cond", "", <<s, Var("x"), t>>) : s \in Leaves, t \in Leaves}
      \cup {Node("un", op, <<s>>) : op \in {"Negative", "BitwiseNot", "LogicalNot"}, s \in Leaves}
      \cup {Cast(type, Var("x")) : type \in {Auto, U8, Str}}
      \cup {Node("lit", "Array", <<s, t>>) : s \in Leaves, t \in Leaves}
      \cup {Lit("Array")}
OperationPrograms ==
    {Main(Locals(tx, ty), <<Stmt(Set("z", op))>>) : op \in Operations, tx \in Types, ty \in Types}

\* Assignments between undeclared types: what is known travels both ways.
Assignments == {Set(v, t) : v \in {"x", "y", "z"}, t \in Leaves \cup {Lit("True")}}
ChainPrograms ==
    {Main(Locals(Auto, Auto), <<Stmt(s), Stmt(t), Stmt(u)>>) :
        s \in Assignments, t \in Assignments, u \in Assignments}

\* The other assignments, bindings, the contexts of an expression.
StatementPrograms ==
    {Main(Locals(tx, ty), <<st>>) :
        tx \in Types, ty \in Types,
        st \in {Stmt(Node("assign", op, <<Var("x"), s>>)) :
                    op \in {"Concatenate", "Add", "ShiftLeft"}, s \in Leaves}
             \cup {In("If", Node("bind", "", <<Var("x"), s>>)) : s \in Leaves}
             \cup {In(context, s) : context \in {"If", "While", "Return", "New"},
                                    s \in Leaves \cup {Lit("True"), Lit("Null"), Lit("Character")}}}

\* Polymorphic procedures: the identity, a constructor, and two that call each
\* other.
T == <<"T">>
Params == [a |-> T]
Id == Fun(TRUE, Params, T, <<In("Return", Var("a"))>>)
Wrap == Fun(TRUE, Params, <<"Array", "T">>, <<In("Return", Node("lit", "Array", <<Var("a")>>))>>)
CallOf(f, polyArg, arg) ==
    Call(f, <<T>>, IF f = "wrap" THEN <<"Array", "T">> ELSE T, polyArg, <<arg>>)
Ping(g) == Fun(TRUE, Params, T, <<In("Return", CallOf(g, T, Var("a")))>>)
WithProcs(locals, trees) ==
    [procs |-> [main |-> Fun(FALSE, locals, VOID_TEMPLATE, trees), id |-> Id, wrap |-> Wrap,
                ping |-> Ping("pong"), pong |-> Ping("ping")],
     roots |-> <<"main">>, data |-> NoData]
CallPrograms ==
    {WithProcs(Locals(tx, Auto), <<Stmt(Set("y", CallOf(f, pa, s))), Stmt(Set("z", CallOf(g, Auto, t)))>>) :
        tx \in {Auto, U8, ArrU8}, f \in {"id", "wrap", "ping"}, g \in {"id", "wrap", "pong"},
        pa \in {Auto, U8, Bool}, s \in {Var("x"), Lit("Integer")}, t \in {Var("x"), Var("y")}}

\* A struct, a union and an enum with a polymorphic argument; a plain struct.
MCData ==
    [S |-> [class |-> "struct", poly |-> TRUE, fields |-> [val |-> T, flag |-> Bool]],
     U |-> [class |-> "union", poly |-> TRUE, fields |-> [val |-> T]],
     E |-> [class |-> "enum", poly |-> TRUE, fields |-> [v \in {} |-> v]],
     P |-> [class |-> "struct", poly |-> FALSE, fields |-> [val |-> U8]]]
Make(d, polyArg, s, t) ==
    CASE d = "S" -> New(d, <<T, Bool>>, <<"S", "T">>, polyArg, <<s, t>>)
      [] d = "U" -> New(d, <<T>>, <<"U", "T">>, polyArg, <<s>>)
      [] d = "E" -> New(d, <<>>, <<"E", "T">>, polyArg, <<>>)
      [] d = "P" -> New(d, <<U8>>, <<"P">>, NoArg, <<s>>)
DataPrograms ==
    {[Main(Locals(tx, Auto), <<Stmt(Set("x", Make(d, pa, s, t))), Stmt(Set("y", Select(Var(v), field)))>>)
        EXCEPT !.data = MCData] :
        tx \in {Auto, <<"S", "UInt8">>, <<"S", "Unknown">>, <<"E", "Bool">>},
        d \in DOMAIN MCData, pa \in {Auto, U8}, s \in {Lit("Integer"), Lit("True"), Var("z")},
        t \in {Lit("True"), Var("y")}, v \in {"x", "z"}, field \in {"val", "flag"}}

\* The two ports of a channel, used by get and put.
Channel == [x |-> Auto, i |-> <<"Input", "Unknown">>, o |-> <<"Output", "Unknown">>]
Get == Builtin("get", <<<<"Input", "T">>>>, T, <<Var("i")>>)
Put(s) == Builtin("put", <<<<"Output", "T">>, T>>, VOID_TEMPLATE, <<Var("o"), s>>)
Linked(prg) == [prg EXCEPT !.procs["main"].linked = [i |-> "o", o |-> "i"]]
ChannelPrograms ==
    {Linked(Main([Channel EXCEPT !.x = tx, !.o = to], <<Stmt(s), Stmt(t)>>)) :
        tx \in {Auto, U8, Bool}, to \in {Channel.o, <<"Output", "UInt8">>},
        s \in {Put(Var("x")), Put(Lit("Integer")), Set("x", Get)},
        t \in {Put(Lit("True")), Put(Bin("Add", Var("x"), Get)), Set("x", Get)}}

\* Array literals of variables that are assigned to before and after: what the
\* declared type of the array says has to reach them, and what they say it.
ArrayPrograms ==
    {Main([Locals(Auto, ty) EXCEPT !.z = tz], order) :
        tz \in {Auto, ArrU8, <<"Array", "Unknown">>}, ty \in {Auto, Str},
        order \in UNION {{<<Stmt(a), Stmt(s), Stmt(t)>>, <<Stmt(s), Stmt(a), Stmt(t)>>, <<Stmt(s), Stmt(t), Stmt(a)>>} :
            a \in {Set("z", Node("lit", "Array", <<l, r>>)) :
                     l \in {Var("x"), Bin("Add", Var("x"), Lit("Integer"))}, r \in {Var("x"), Var("y")}},
            s \in {Set("x", Var("y")), Set("y", Var("x")), Set("x", Lit("Integer")), Set("x", Lit("True"))},
            t \in {Set("y", Var("x")), Set("y", Lit("Integer")), Set("y", Node("index", "", <<Var("z"), Var("x")>>))}}}

MCPrograms ==
    OperationPrograms \cup ChainPrograms \cup StatementPrograms \cup CallPrograms
      \cup DataPrograms \cup ChannelPrograms \cup ArrayPrograms
=============================================================================

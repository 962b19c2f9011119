----------------------------- MODULE MCPrograms -----------------------------
(***************************************************************************)
(* Small programs for Evaluator: every combination of statements in a few    *)
(* shapes of blocks, loops and synchronous blocks, and programs about the    *)
(* expressions of the language.                                              *)
(***************************************************************************)
EXTENDS Evaluator

\* Expressions.
Var(x) == [Expr("Variable", "", <<>>) EXCEPT !.name = x]
Bit(b) == Expr("Literal", IF b THEN "True" ELSE "False", <<>>)
Num(kind, n) == [Expr("Literal", "Integer", <<>>) EXCEPT !.name = kind, !.n = n]
U8(n) == Num("UInt8", n)
Arr(es) == Expr("Literal", "Array", es)
Str(n) == [Expr("Literal", "String", <<>>) EXCEPT !.n = n]
Chr(n) == [Expr("Literal", "Character", <<>>) EXCEPT !.n = n]
Enum(n) == [Expr("Literal", "Enum", <<>>) EXCEPT !.n = n]
Struct(fields, es) == [Expr("Literal", "Struct", es) EXCEPT !.fields = fields]
Union_(n, es) == [Expr("Literal", "Union", es) EXCEPT !.n = n]
Bin(op, a, b) == Expr("Binary", op, <<a, b>>)
Un(op, a) == Expr("Unary", op, <<a>>)
Cond(t, a, b) == Expr("Conditional", "", <<t, a, b>>)
Idx(a, i) == Expr("Indexing", "", <<a, i>>)
Sli(a, i, j) == Expr("Slicing", "", <<a, i, j>>)
Sel(a, n) == [Expr("Select", "", <<a>>) EXCEPT !.n = n]
CastTo(kind, a) == [Expr("Cast", "", <<a>>) EXCEPT !.name = kind]
Call(name, args) == [Expr("Call", "", args) EXCEPT !.name = name]
Let(a, b) == Expr("Binding", "", <<a, b>>)

\* Statements.
Do(e) == [Statement("Expression") EXCEPT !.expr = e]
Op(a, op, b) == Do(Expr("Assignment", op, <<a, b>>))
Set(a, b) == Op(a, "Set", b)
Decl(x, e) == [Statement("Memory") EXCEPT !.names = <<x>>, !.expr = e]
Channel(a, b) == [Statement("Channel") EXCEPT !.names = <<a, b>>]
If(t, body) == [Statement("If") EXCEPT !.expr = t, !.body = body]
IfElse(t, body, other) == [If(t, body) EXCEPT !.other = other, !.hasElse = TRUE]
While(t, body) == [Statement("While") EXCEPT !.expr = t, !.body = body]
Sync(body) == [Statement("Synchronous") EXCEPT !.body = body]
Block(body) == [Statement("Block") EXCEPT !.body = body]
Label(l, s) == [Statement("Labeled") EXCEPT !.label = l, !.body = <<s>>]
Jump(kind, l) == [Statement(kind) EXCEPT !.label = l]
Return(e) == [Statement("Return") EXCEPT !.expr = e]
New(name, args) == [Statement("New") EXCEPT !.expr = Call(name, args)]
Say(e) == Do(Call("put", <<Var("o"), e>>))

Definition(type, params, ports, body) == [type |-> type, params |-> params, ports |-> ports, body |-> body]
Function(params, body) == Definition("Function", params, <<>>, body)
Primitive(body) == [main |-> Definition("Primitive", <<"i", "o">>, <<"Input", "Output">>, body)]
-----------------------------------------------------------------------------
\* Control flow.
x == Var("x")
y == Var("y")
Inner == {
    Decl("y", Arr(<<U8(1)>>)), Set(x, Bit(FALSE)), Set(y, Arr(<<U8(2)>>)), Set(x, Bin("Equality", y, Arr(<<>>))),
    Jump("Break", ""), Jump("Continue", ""), Jump("Break", "l"), Jump("Continue", "l"), Jump("Goto", "l"),
    If(x, <<Jump("Goto", "l")>>), Block(<<Decl("z", Arr(<<x>>)), Jump("Goto", "l")>>),
    If(x, <<Decl("z", U8(3)), Jump("Break", "")>>),
    Sync(<<Say(Call("create", <<U8(1)>>))>>), Sync(<<Do(Call("assert", <<Call("fires", <<Var("i")>>)>>))>>),
    Say(Call("get", <<Var("i")>>)), Do(Call("assert", <<x>>)), Return(x)}

Shapes(a, b) == {
    <<Label("l", While(x, <<a, b>>)), Set(x, Bit(TRUE))>>,
    <<While(x, <<Sync(<<Set(x, x), Label("l", While(x, <<a, b>>))>>), Set(x, Bit(FALSE))>>)>>,
    <<While(x, <<a, Label("l", Sync(<<b>>)), Jump("Break", "")>>)>>,
    <<IfElse(x, <<a>>, <<b>>), Label("l", Decl("w", Arr(<<x>>)))>>,
    <<Set(x, x), Set(x, x), Block(<<If(x, <<Jump("Goto", "l")>>), a, Label("l", b)>>)>>,
    <<Decl("y", Arr(<<U8(5)>>)), Sync(<<Block(<<a>>), b>>), Label("l", Sync(<<>>))>>}

ControlFlow == {Primitive(<<Decl("x", Bit(TRUE))>> \o s) : s \in UNION {Shapes(a, b) : a, b \in Inner}}

\* Blocks of all kinds that begin with a label.
LabelFirst ==
    {Primitive(<<Decl("x", Bit(TRUE)), s, Set(x, x)>>) :
        s \in UNION {{Block(b), While(x, b), Sync(b), If(x, b), IfElse(Bin("Equality", x, Bit(FALSE)), <<>>, b)} :
                       b \in {<<Label("l", a)>> : a \in Inner}
                               \cup {<<Label("l", a), Set(x, Bit(FALSE))>> : a \in Inner}}}

-----------------------------------------------------------------------------
\* Expressions: of bytes, of arrays of them, and of what can hold both.
a == Var("a")
n == Var("n")
s == Var("s")
u == Var("u")
First == Idx(a, U8(0))
Prelude == <<
    Decl("n", U8(1)), Decl("a", Arr(<<U8(1), Bin("Add", n, U8(1))>>)),
    Decl("s", Struct(<<2, 1>>, <<a, Idx(a, n)>>)), Decl("u", Union_(2, <<a, n>>))>>

Functions == [
    inc |-> Function(<<"n">>, <<Return(Bin("Add", n, U8(1)))>>),
    twice |-> Function(<<"a">>, <<Decl("x", Bin("Concatenate", a, a)), Return(x)>>),
    count |-> Function(<<"n">>, <<
        IfElse(Bin("LessThan", n, U8(1)), <<Return(Arr(<<>>))>>, <<Decl("x", Bin("Subtract", n, U8(1)))>>),
        Decl("y", Call("count", <<Bin("Subtract", n, U8(1))>>)),
        Return(Bin("Concatenate", y, Arr(<<n>>)))>>)]
WithFunctions(body) == Functions @@ Primitive(body)

Bytes1 == {U8(0), n, First, Sel(s, 1)}
Arrays1 == {a, Sel(s, 2), Arr(<<n, First>>), Sli(a, U8(0), n), Bin("Concatenate", a, Sel(s, 2)),
            Call("twice", <<a>>), Cond(Bin("LessThan", n, First), a, Arr(<<n>>))}
Bytes2 ==
    {Idx(r, b) : r \in Arrays1, b \in Bytes1}
      \cup {Bin(op, b, c) : op \in {"Add", "Multiply"}, b, c \in Bytes1}
      \cup {Cond(Bin("GreaterThanEqual", b, c), b, c) : b, c \in Bytes1}
      \cup {Call("inc", <<b>>) : b \in Bytes1}
Arrays2 ==
    {Bin("Concatenate", r, q) : r, q \in Arrays1} \cup {Sli(r, n, b) : r \in Arrays1, b \in Bytes1}
      \cup {Arr(<<b, c>>) : b, c \in Bytes1} \cup {Call("twice", <<r>>) : r \in Arrays1}
      \cup {Call("count", <<b>>) : b \in Bytes1}
Tests2 ==
    {Bin(op, r, q) : op \in {"Equality", "Inequality"}, r, q \in Arrays1}
      \cup {Bin("Equality", Str(1), Str(2)), Bin("Equality", Bin("Concatenate", Str(1), Str(2)), Str(1)),
            Bin("Equality", Enum(1), Enum(2)), Bin("Inequality", Chr(1), Chr(2)),
            Bin("Equality", u, Union_(1, <<>>)), Bin("Equality", u, Union_(2, <<a, First>>)),
            Bin("Equality", s, Struct(<<1, 2>>, <<First, Arr(<<n, n>>)>>)),
            Bin("Equality", Call("length", <<a>>), Call("length", <<Arr(<<n>>)>>)),
            Bin("Equality", Call("length", <<a>>), Call("length", <<Sel(s, 2)>>)),
            Un("LogicalNot", Bin("LogicalOr", Bit(FALSE), Bin("LogicalAnd", Bin("LessThan", n, U8(2)), Bit(TRUE))))}
      \cup {Bin(op, b, c) : op \in {"LessThan", "GreaterThan", "LessThanEqual"}, b \in {U8(1), n}, c \in {n, First}}
Structs2 == {Struct(<<2, 1>>, <<r, b>>) : r \in Arrays1, b \in Bytes1}
Unions2 == {Union_(2, <<r, b>>) : r \in Arrays1, b \in Bytes1} \cup {Union_(1, <<>>)}

Computed(e) == WithFunctions(Prelude \o <<Decl("x", e), Set(x, e), If(Bin("Equality", x, e), <<Set(n, U8(9))>>)>>)
Chosen(t) == WithFunctions(Prelude \o <<IfElse(t, <<Set(n, U8(3))>>, <<Set(a, Arr(<<>>))>>)>>)

\* Assignments to variables and to parts of them, one after the other.
Assignments ==
    {Set(to, e) : to \in {First, Sel(s, 1), Idx(Sel(s, 2), n)}, e \in Bytes1}
      \cup {Op(to, op, e) : to \in {a, Sel(s, 2)}, op \in {"Set", "Concatenated"}, e \in Arrays1}
      \cup {Op(to, "Added", First) : to \in {n, Idx(a, n)}}
      \cup {Op(n, op, n) : op \in {"Subtracted", "Multiplied"}}
      \cup {Set(s, Struct(<<1, 2>>, <<First, Sel(s, 2)>>)), Set(u, Union_(1, <<>>)), Set(u, Union_(2, <<Sel(s, 2), n>>))}

\* Casts around the limits of the types.
Negative(e) == Un("Negative", e)
Lowest(kind) == Bin("Subtract", Negative(Num(kind, 127)), Num(kind, 1))
Numbers == {U8(k) : k \in {0, 127, 128, 255}}
             \cup UNION {{Negative(Num(kind, 1)), Lowest(kind), Bin("Subtract", Lowest(kind), Num(kind, 0)),
                          Num(kind, 127)} : kind \in {"SInt8", "SInt16"}}
             \cup {Num("SInt16", k) : k \in {128, 255, 256}} \cup {Negative(Num("SInt16", 129)), Bit(TRUE), Chr(200)}
Casts == {Primitive(<<Decl("x", e), Decl("y", CastTo(kind, x)), Set(x, e)>>) : e \in Numbers, kind \in IntKinds}

\* What is put into a port, a message or not.
Puts == {Primitive(Prelude \o <<Sync(<<Set(n, U8(2)), Say(e), Set(n, U8(3))>>)>>) :
           e \in {U8(1), n, a, s, u, Arr(<<n>>), Sli(a, U8(0), n), Str(1), Bit(TRUE),
                   Call("create", <<n>>), Call("get", <<Var("i")>>)}}

\* Patterns in tests.
Patterns == {
    Let(Union_(2, <<Var("p"), Var("q")>>), u), Let(Union_(2, <<Arr(<<Var("p"), n>>), Var("q")>>), u),
    Let(Union_(1, <<>>), u), Let(Struct(<<2, 1>>, <<Var("p"), U8(2)>>), s), Let(Var("p"), Sel(s, 2)),
    Let(Arr(<<Var("p"), Var("q")>>), a), Let(Arr(<<n, Var("p")>>), Call("twice", <<a>>)), Let(n, First)}
Bindings == {
    WithFunctions(Prelude \o <<
        Decl("x", Arr(<<n>>)),
        loop[1], Decl("y", Arr(<<n, n>>)), Set(x, y)>>) :
      loop \in UNION {
        {<<IfElse(t, <<Block(<<Decl("w", a)>>), Set(u, Union_(1, <<>>))>>, <<Decl("w", a)>>)>>,
         <<While(t, <<Decl("w", a), Set(a, Arr(<<>>)), Set(s, Struct(<<1, 2>>, <<n, w>>)), Jump("Break", "")>>)>>,
         <<While(Bin("LogicalAnd", t, Bin("LessThan", n, U8(3))), <<Op(n, "Added", U8(1))>>)>>} :
        t \in Patterns \cup {Bin("LogicalAnd", Let(Var("r"), a), t) : t \in Patterns}, w \in {Var("w")}}}

\* Components that hand ports to others.
Spawning == {
    [main |-> Definition("Composite", <<"i", "o">>, <<"Input", "Output">>,
        <<Channel("c", "d"), Decl("x", e), New("part", <<e>>), If(Bin("LessThan", U8(0), U8(1)), <<Channel("g", "h")>>),
          New("part", <<x>>)>>),
     part |-> Definition("Primitive", <<"p">>, <<"Output">>, <<Decl("x", Arr(<<U8(1)>>))>>)] :
      e \in {Var("c"), Var("i"), Arr(<<Var("c"), Var("o")>>), Struct(<<2, 1>>, <<Arr(<<Var("d"), Var("i")>>), Var("c")>>),
             Union_(2, <<Struct(<<1, 2>>, <<Var("c"), U8(1)>>), Arr(<<>>)>>), Idx(Arr(<<Var("c"), Var("o")>>), U8(1))}}

MCPrograms ==
    ControlFlow \cup LabelFirst \cup Casts \cup Puts \cup Bindings \cup Spawning
      \cup {Computed(e) : e \in Bytes2 \cup Arrays2 \cup Structs2 \cup Unions2} \cup {Chosen(t) : t \in Tests2}
      \cup {WithFunctions(Prelude \o <<first, second, Decl("x", a)>>) : first, second \in Assignments}
Byte(k) == Abstract("UInt8", k, <<>>)
MCPayloads == {Abstract("Message", 0, <<>>), Abstract("Message", 0, <<Byte(7)>>)}
MCUnionValues == <<0, 2>>
=============================================================================

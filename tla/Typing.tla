------------------------------- MODULE Typing -------------------------------
(***************************************************************************)
(* Type inference: protocol/parser/pass_typing.rs, driven by the typing loop  *)
(* of Parser::parse (protocol/parser/mod.rs) and sharing the procedure        *)
(* monomorphs of protocol/parser/type_table.rs.                               *)
(*                                                                           *)
(* A procedure is typed once for every list of types its polymorphic          *)
(* variables take.  All expressions are visited depth-first; each visit       *)
(* applies the constraints of the expression to itself and its arguments.     *)
(* An expression whose type has changed is queued, or its parent is, until    *)
(* nothing is queued.  Integer types that are still open then become s32.     *)
(*                                                                           *)
(* The expressions of a procedure are numbered in the order of the visit.     *)
(* A procedure or a data type has at most one polymorphic variable.           *)
(***************************************************************************)
EXTENDS InferenceTypes, FiniteSets, SequencesExt

CONSTANT Programs    \* the programs that are compiled, see Procs, Expr and Data

VARIABLES
    prog,       \* the program
    todo,       \* ResolveQueue: the monomorphs to be typed, the last one first
    monos,      \* monos[f]: the monomorphs of procedure f in the type table
    cur,        \* the monomorph that is being typed
    pc,         \* where in handle_module_definition, take, visit, infer, reinfer, done or error
    p           \* the state of PassTyping, see Pass

vars == <<prog, todo, monos, cur, pc, p>>

(* Programs.  A parser type is a sequence of parts in which "T" stands for the *)
(* polymorphic variable of the definition it is written in.                    *)
Procs == DOMAIN prog.procs
Proc(f) == prog.procs[f]
Data(d) == prog.data[d]
IsPolymorph(f) == Proc(f).poly
Body == Proc(cur.proc).exprs
Expr(e) == Body[e]
NoExpr == 0

\* `untold` is not in the code, see Pass.
Monomorph(arg) == [arg |-> arg, exprs |-> <<>>, calls |-> <<>>, untold |-> {}]
NoArg == <<>>
-----------------------------------------------------------------------------
(* Initial types *)

\* determine_inference_type_from_parser_type_elements, in the body of a
\* procedure whose polymorphic variable is known to be `arg` ...
KnownType(ptype, arg) ==
    IF Last(ptype) = "T" THEN Front(ptype) \o arg ELSE ptype

\* ... and in a signature, where a marker says where the type of the variable
\* of the called or constructed definition starts.
Signature(ptype) ==
    IF Last(ptype) = "T"
    THEN [parts |-> Front(ptype) \o Unknown, marker |-> Len(ptype)]
    ELSE [parts |-> ptype, marker |-> 0]

\* insert_initial_expr_inference_type: what the context of the expression asks
\* for.  Expressions below another expression are open, but for the test of a
\* conditional expression.
InitialType(x, arg) ==
    CASE x.context = "Statement" -> Unknown
      [] x.context \in {"If", "While"} -> BOOL_TEMPLATE
      [] x.context = "Return" -> KnownType(Proc(cur'.proc).ret, arg)
      [] x.context = "New" -> VOID_TEMPLATE
      [] x.context = "Expression" ->
           LET parent == Proc(cur'.proc).exprs[x.parent]
           IN  IF parent.kind = "cond" /\ parent.args[1] = x.this
               THEN BOOL_TEMPLATE ELSE Unknown

\* insert_initial_{call, struct, enum, union}_polymorph_data.  x.types are the
\* parser types of the parameters, fields or values, x.ret the one of the
\* result, x.polyArg what the programmer wrote between the brackets.
InitialExtra(x, arg) ==
    LET written == IF x.polyArg = NoArg THEN NoArg ELSE KnownType(x.polyArg, arg)
        ret == Signature(x.ret)
    IN  [poly |-> written,
         embedded |-> [k \in DOMAIN x.types |-> Signature(x.types[k])],
         returned |-> IF x.kind = "lit" /\ ret.marker > 0
                      THEN [ret EXCEPT !.parts = Front(@) \o written] ELSE ret,
         known |-> x.kind # "select"]

\* insert_initial_select_polymorph_data, once the struct d is known.
SelectExtra(d, field) ==
    [poly |-> IF Data(d).poly THEN Unknown ELSE NoArg,
     embedded |-> <<Signature(IF Data(d).poly THEN <<d, "T">> ELSE <<d>>)>>,
     returned |-> Signature(Data(d).fields[field]),
     known |-> TRUE]

\* reset, and the part of the visit that does not depend on the order: the
\* types of variables and expressions before any constraint is applied.
\* (visit_component_definition, visit_function_definition, the statements.)
Pass(f, arg) ==
    [et |-> [e \in DOMAIN Proc(f).exprs |-> InitialType(Proc(f).exprs[e], arg)],
     vt |-> [v \in DOMAIN Proc(f).vars |-> KnownType(Proc(f).vars[v], arg)],
     used |-> [v \in DOMAIN Proc(f).vars |-> <<>>],      \* VarData.used_at
     extra |-> [e \in DOMAIN Proc(f).exprs |-> InitialExtra(Proc(f).exprs[e], arg)],
     index |-> [e \in DOMAIN Proc(f).exprs |-> 0],       \* field_or_monomorph_idx
     visited |-> 0,                                      \* expressions visited so far
     queue |-> <<>>,                                     \* expr_queued
     forced |-> {},      \* implicitly made s32: their is_done is out of date
     notes |-> {},       \* expressions whose type the current step has changed
     untold |-> {},      \* (not in the code) those it changed without queueing them
     status |-> "ok"]    \* or error, or panic

DoneExpr(q, e) == IsDone(q.et[e]) /\ e \notin q.forced
-----------------------------------------------------------------------------
(* The queue and the constraints.  Each takes the state of the pass to a new  *)
(* one; after an error nothing happens any more.                              *)

Fail(q) == [q EXCEPT !.status = "error"]

\* DequeSet::push_back
Push(q, e) ==
    IF e = NoExpr \/ e \in Range(q.queue) THEN q ELSE [q EXCEPT !.queue = Append(@, e)]
PushAll(q, seq) ==
    [q EXCEPT !.queue = @ \o SelectSeq(seq, LAMBDA e : e \notin Range(q.queue))]

\* e has the type t now; somebody has to be told if that is new.
SetType(q, e, t) ==
    IF t = q.et[e] THEN q ELSE [q EXCEPT !.et[e] = t, !.notes = @ \cup {e}]

\* apply_template_constraint; `also` are told as well if it makes progress.
Template(q, e, template, also) ==
    IF q.status # "ok" THEN q
    ELSE IF ~Compatible(q.et[e], template) THEN Fail(q)
    ELSE LET r == SetType(q, e, Meet(q.et[e], template))
         IN  IF r.et[e] = q.et[e] THEN r ELSE [r EXCEPT !.notes = @ \cup also]

\* apply_forced_constraint
Forced(q, e, template) ==
    IF q.status # "ok" THEN q
    ELSE IF ~Forceable(q.et[e], template) THEN Fail(q)
    ELSE SetType(q, e, template)

\* apply_equal2_constraint
Equal2(q, e, i, f, j) ==
    IF q.status # "ok" THEN q
    ELSE LET s == Subtree(q.et[e], i)
             t == Subtree(q.et[f], j)
         IN  IF ~Compatible(s, t) THEN Fail(q)
             ELSE SetType(SetType(q, e, ReplaceSubtree(q.et[e], i, Meet(s, t))),
                          f, ReplaceSubtree(q.et[f], j, Meet(s, t)))

\* apply_equal3_constraint: if the second argument clarifies the first one,
\* the expression takes the type too.
Equal3(q, e, f, g, i) ==
    LET r == Equal2(Equal2(q, e, i, f, i), f, i, g, i)
    IN  IF r.status # "ok" THEN r
        ELSE SetType(r, e, ReplaceSubtree(r.et[e], i, Subtree(r.et[g], i)))

\* apply_equal_n_constraint: pairwise from left to right, then everything up
\* to the last one that has changed takes the type of the last argument.
EqualN(q, args) ==
    IF Len(args) < 2 \/ q.status # "ok" THEN q
    ELSE LET r == FoldLeft(LAMBDA acc, k : Equal2(acc, args[k], 0, args[k + 1], 0),
                           q, [k \in 1..(Len(args) - 1) |-> k])
         IN  IF r.status # "ok" THEN r
             ELSE FoldLeft(LAMBDA acc, e : SetType(acc, e, r.et[Last(args)]), r, args)

\* type_is_certainly_or_certainly_not_string
IsString(q, e) == DoneExpr(q, e) /\ q.et[e][1] = "String"
IsNotString(q, e) == DoneExpr(q, e) /\ q.et[e][1] # "String"
-----------------------------------------------------------------------------
(* Polymorphic signatures of calls, literals and field accesses.  Position 0  *)
(* is the result, position k the k-th argument.                               *)

SigAt(x, k) == IF k = 0 THEN x.returned ELSE x.embedded[k]
SetSig(x, k, sig) ==
    IF k = 0 THEN [x EXCEPT !.returned = sig] ELSE [x EXCEPT !.embedded[k] = sig]
TargetAt(e, k) == IF k = 0 THEN e ELSE Expr(e).args[k]
\* whom to queue when the expression at that position has changed
ListenerAt(e, k) == IF k = 0 THEN Expr(e).parent ELSE Expr(e).args[k]

\* (mutant) it is not compared with what is known already
LearntFitsAlways(poly, learns, section) == TRUE

\* What a signature has learnt agrees with what is known of the variable.
LearntFits(poly, learns, section) == learns => Compatible(poly, section)

\* apply_equal2_signature_constraint: the signature and the expression infer
\* each other; what the signature has learnt goes to the polymorphic variable.
MatchSignature(q, e, k) ==
    IF q.status # "ok" THEN q
    ELSE LET x == q.extra[e]
             sig == SigAt(x, k)
             f == TargetAt(e, k)
             t == Meet(sig.parts, q.et[f])
             learns == t # sig.parts /\ sig.marker > 0
             section == Subtree(t, sig.marker - 1)
         IN  IF \/ ~Compatible(sig.parts, q.et[f])
                \/ ~LearntFits(x.poly, learns, section)
             THEN Fail(q)
             ELSE LET told == IF t = q.et[f] THEN q ELSE Push(q, ListenerAt(e, k))
                  IN  [told EXCEPT !.et[f] = t,
                                   !.extra[e] = [SetSig(x, k, [sig EXCEPT !.parts = t])
                                                   EXCEPT !.poly = IF learns THEN Meet(@, section) ELSE @]]

\* apply_equal2_polyvar_constraint: the variable goes back into the signature
\* and from there, by force, into the expression.  A mismatch would be a panic.
ReapplyPolyVar(q, e, k) ==
    IF q.status # "ok" \/ SigAt(q.extra[e], k).marker = 0 THEN q
    ELSE LET x == q.extra[e]
             sig == SigAt(x, k)
             f == TargetAt(e, k)
             section == Subtree(sig.parts, sig.marker - 1)
             t == ReplaceSubtree(sig.parts, sig.marker - 1, Meet(section, x.poly))
         IN  IF ~Compatible(section, x.poly) THEN [q EXCEPT !.status = "panic"]
             ELSE IF t = sig.parts THEN q
             ELSE IF ~Forceable(q.et[f], t) THEN [q EXCEPT !.status = "panic"]
             ELSE LET told == IF t = q.et[f] THEN q ELSE Push(q, ListenerAt(e, k))
                  IN  [told EXCEPT !.et[f] = t,
                                   !.extra[e] = SetSig(x, k, [sig EXCEPT !.parts = t])]

\* progress_call_expr, and the struct, enum and union literals of
\* progress_literal_expr: the arguments, the result, and once more.
ProgressSignature(q, e) ==
    LET n == Len(q.extra[e].embedded)
        positions == [k \in 1..(n + 1) |-> IF k <= n THEN k ELSE 0]
    IN  FoldLeft(LAMBDA acc, k : ReapplyPolyVar(acc, e, k),
                 FoldLeft(LAMBDA acc, k : MatchSignature(acc, e, k), q, positions),
                 positions)

\* determine_inference_type_instance
FirstConcrete(t) == SelectSeq(t, LAMBDA part : part \notin PartialParts)

\* progress_select_expr: nothing happens until the struct is known.
ProgressSelect(q, e) ==
    LET x == Expr(e)
        subject == FirstConcrete(q.et[x.args[1]])
        d == Head(subject)
        known == [q EXCEPT !.extra[e] = SelectExtra(d, x.field)]
    IN  IF q.extra[e].known THEN ProgressSignature(q, e)
        ELSE IF subject = <<>> THEN q
        ELSE IF d \notin DOMAIN prog.data THEN Fail(q)
        ELSE IF Data(d).class # "struct" \/ x.field \notin DOMAIN Data(d).fields THEN Fail(q)
        ELSE ProgressSignature(known, e)
-----------------------------------------------------------------------------
(* One progress operator per kind of expression *)

\* queue_expr_parent and queue_expr at the end of the others.
Tell(q, e, args) ==
    PushAll(Push(q, IF e \in q.notes THEN Expr(e).parent ELSE NoExpr),
            SelectSeq(args, LAMBDA a : a \in q.notes))

ArithmeticOps == {"Add", "Subtract", "Multiply", "Divide"}
BitOps == {"BitwiseOr", "BitwiseXor", "BitwiseAnd", "Remainder", "ShiftLeft", "ShiftRight"}
CompareOps == {"LessThan", "GreaterThan", "LessThanEqual", "GreaterThanEqual"}
EqualityOps == {"Equality", "Inequality"}

ProgressAssignment(q, e, a) ==
    LET op == Expr(e).op
        r == Forced(q, e, VOID_TEMPLATE)
        s == CASE op = "Set" -> r
               [] op = "Concatenate" -> Template(r, a[1], ARRAYLIKE_TEMPLATE, {})
               [] op \in ArithmeticOps -> Template(r, a[1], NUMBERLIKE_TEMPLATE, {})
               [] op \in BitOps -> Template(r, a[1], INTEGERLIKE_TEMPLATE, {})
    IN  Tell(Equal2(s, a[1], 0, a[2], 0), e, a)

\* the arguments are visited as <<bound_to, bound_from>>
ProgressBinding(q, e, a) ==
    Tell(Equal2(Forced(q, e, BOOL_TEMPLATE), a[2], 0, a[1], 0), e, Reverse(a))

ProgressConditional(q, e, a) == Tell(Equal3(q, e, a[2], a[3], 0), e, a)

\* Strings are concatenated with strings only, and arrays and slices to arrays.
ProgressConcatenate(q, e, a) ==
    LET all == {e, a[1], a[2]}
        base == IF \E f \in all : IsNotString(q, f) THEN ARRAY_TEMPLATE ELSE ARRAYLIKE_TEMPLATE
        r == Template(q, e, base, {})
        s == Template(r, a[1], ARRAYLIKE_TEMPLATE, {})
        t == Template(s, a[2], ARRAYLIKE_TEMPLATE, {})
    IN  IF \E f \in all : IsString(q, f)
        THEN Equal3(q, e, a[1], a[2], 0) ELSE Equal3(t, e, a[1], a[2], 1)

\* LogicalAnd forces only its own type, three times.
ProgressBinary(q, e, a) ==
    LET op == Expr(e).op
        r == CASE op = "Concatenate" -> ProgressConcatenate(q, e, a)
               [] op = "LogicalAnd" -> Forced(q, e, BOOL_TEMPLATE)
               [] op = "LogicalOr" -> Forced(Forced(Forced(q, e, BOOL_TEMPLATE),
                                                    a[1], BOOL_TEMPLATE), a[2], BOOL_TEMPLATE)
               [] op \in BitOps ->
                    Equal3(Template(q, e, INTEGERLIKE_TEMPLATE, {a[1], a[2]}), e, a[1], a[2], 0)
               [] op \in EqualityOps -> Equal2(Forced(q, e, BOOL_TEMPLATE), a[1], 0, a[2], 0)
               [] op \in CompareOps ->
                    Equal2(Template(Forced(q, e, BOOL_TEMPLATE), a[1], NUMBERLIKE_TEMPLATE, {a[2]}),
                           a[1], 0, a[2], 0)
               [] op \in ArithmeticOps ->
                    Equal3(Template(q, e, NUMBERLIKE_TEMPLATE, {a[1], a[2]}), e, a[1], a[2], 0)
    IN  Tell(r, e, a)

\* LogicalNot forces only its own type, twice.
ProgressUnary(q, e, a) ==
    LET op == Expr(e).op
        r == CASE op \in {"Positive", "Negative"} ->
                    Equal2(Template(q, e, NUMBERLIKE_TEMPLATE, {a[1]}), e, 0, a[1], 0)
               [] op = "BitwiseNot" ->
                    Equal2(Template(q, e, INTEGERLIKE_TEMPLATE, {a[1]}), e, 0, a[1], 0)
               [] op = "LogicalNot" -> Forced(q, e, BOOL_TEMPLATE)
    IN  Tell(r, e, a)

\* (mutant) any type is an index
ProgressIndexingAny(q, e, a) ==
    Tell(Equal2(Template(q, a[1], ARRAYLIKE_TEMPLATE, {}), e, 0, a[1], 1), e, a)

ProgressIndexing(q, e, a) ==
    LET r == Template(Template(q, a[1], ARRAYLIKE_TEMPLATE, {}), a[2], INTEGERLIKE_TEMPLATE, {})
    IN  Tell(Equal2(r, e, 0, a[1], 1), e, a)

\* A slice of a string is a string, of anything else a slice.
ProgressSlicing(q, e, a) ==
    LET r == Template(Template(q, a[1], ARRAYLIKE_TEMPLATE, {}), a[2], INTEGERLIKE_TEMPLATE, {a[3]})
        s == Equal2(r, a[2], 0, a[3], 0)
        base == IF IsNotString(s, a[1]) THEN SLICE_TEMPLATE ELSE ARRAYLIKE_TEMPLATE
    IN  Tell(IF s.status # "ok" THEN s
             ELSE IF IsString(s, a[1]) THEN Forced(s, e, STRING_TEMPLATE)
             ELSE Equal2(Template(s, e, base, {}), e, 1, a[1], 1), e, a)

\* An array literal.  If the type of the array tells something about the first
\* element, the literal itself is queued (and passes it on to the others), but
\* not that element.
ProgressArray(q, e, a) ==
    LET r == EqualN(q, a)
        told == PushAll(r, SelectSeq(a, LAMBDA f : f \in r.notes))
        s == Template([told EXCEPT !.notes = {}], e, ARRAY_TEMPLATE, {})
        t == Equal2(s, e, 1, a[1], 0)
    IN  IF a = <<>> THEN Tell(s, e, <<>>)
        ELSE LET again == IF a[1] \in t.notes THEN {a[1]} ELSE {}
             IN  Tell([Push(t, IF again # {} THEN e ELSE NoExpr) EXCEPT !.untold = @ \cup again], e, <<>>)

ProgressLiteral(q, e, a) ==
    LET op == Expr(e).op
    IN  CASE op = "Null" -> Tell(Template(q, e, MESSAGE_TEMPLATE, {}), e, a)
          [] op = "Integer" -> Tell(Template(q, e, INTEGERLIKE_TEMPLATE, {}), e, a)
          [] op \in {"True", "False"} -> Tell(Forced(q, e, BOOL_TEMPLATE), e, a)
          [] op = "Character" -> Tell(Forced(q, e, CHARACTER_TEMPLATE), e, a)
          [] op = "String" -> Tell(Forced(q, e, STRING_TEMPLATE), e, a)
          [] op = "Array" -> ProgressArray(q, e, a)
          [] op = "Data" -> ProgressSignature(q, e)

IsBoolIntOrChar(t) == Len(t) = 1 /\ t[1] \in IntegerParts \cup {"Bool", "Character"}

\* The subject of a cast is never inferred; the cast is judged when both types
\* are known.
ProgressCast(q, e, a) ==
    LET r == Tell(Template(q, e, KnownType(Expr(e).to, cur.arg), {}), e, <<>>)
        valid == \/ IsBoolIntOrChar(r.et[e]) /\ IsBoolIntOrChar(r.et[a[1]])
                 \/ r.et[e] = r.et[a[1]]
    IN  IF r.status = "ok" /\ DoneExpr(r, e) /\ DoneExpr(r, a[1]) /\ ~valid THEN Fail(r) ELSE r

\* The other port of the channel takes the message type of v.
InformLinked(q, v) ==
    LET w == Proc(cur.proc).linked[v]
        s == Subtree(q.vt[w], 1)
        t == Subtree(q.vt[v], 1)
    IN  IF v \notin DOMAIN Proc(cur.proc).linked THEN q
        ELSE IF ~Compatible(s, t) THEN Fail(q)
        ELSE IF Meet(s, t) = s THEN q
        ELSE PushAll([q EXCEPT !.vt[w] = ReplaceSubtree(@, 1, Meet(s, t))], q.used[w])

\* (mutant) the other uses of a variable are never told
OthersUntold(q, v, e, isNew) == q

\* The other uses of a variable are queued when its type has changed, and the
\* other end of the channel is informed.
TellUses(q, v, e, isNew) ==
    IF isNew THEN InformLinked(PushAll(q, SelectSeq(q.used[v], LAMBDA f : f # e)), v) ELSE q

\* The variable and its use infer each other; all other uses are told.
ProgressVariable(q, e) ==
    LET v == Expr(e).var
        t == Meet(q.vt[v], q.et[e])
        r == SetType([q EXCEPT !.vt[v] = t], e, t)
    IN  IF ~Compatible(q.vt[v], q.et[e]) THEN Fail(q)
        ELSE Tell(TellUses(r, v, e, t # q.vt[v]), e, <<>>)

\* progress_expr
Progress(q0, e) ==
    LET q == [q0 EXCEPT !.notes = {}, !.untold = @ \ {e}]
        a == Expr(e).args
        kind == Expr(e).kind
        r == CASE kind = "assign" -> ProgressAssignment(q, e, a)
               [] kind = "bind" -> ProgressBinding(q, e, a)
               [] kind = "cond" -> ProgressConditional(q, e, a)
               [] kind = "bin" -> ProgressBinary(q, e, a)
               [] kind = "un" -> ProgressUnary(q, e, a)
               [] kind = "index" -> ProgressIndexing(q, e, a)
               [] kind = "slice" -> ProgressSlicing(q, e, a)
               [] kind = "select" -> ProgressSelect(q, e)
               [] kind = "lit" -> ProgressLiteral(q, e, a)
               [] kind = "cast" -> ProgressCast(q, e, a)
               [] kind = "call" -> ProgressSignature(q, e)
               [] kind = "var" -> ProgressVariable(q, e)
    IN  [r EXCEPT !.notes = {}]
-----------------------------------------------------------------------------
(* The typing loop *)

\* queue_module_definitions: procedures without polymorphic variables are
\* reserved and queued at once, the others when somebody calls them.
Init ==
    /\ prog \in Programs
    /\ monos = [f \in Procs |-> IF IsPolymorph(f) THEN <<>> ELSE <<Monomorph(NoArg)>>]
    /\ todo = [k \in DOMAIN prog.roots |-> [proc |-> prog.roots[k], idx |-> 1, arg |-> NoArg]]
    /\ cur = [proc |-> "none", idx |-> 0, arg |-> NoArg]
    /\ pc = "take"
    /\ p = [status |-> "ok"]

\* The last element of the queue is taken; without one the program is typed.
Take ==
    /\ pc = "take"
    /\ todo # <<>>
    /\ cur' = Last(todo)
    /\ todo' = Front(todo)
    /\ p' = Pass(cur'.proc, cur'.arg)
    /\ pc' = "visit"
    /\ UNCHANGED <<prog, monos>>

Accept ==
    /\ pc = "take"
    /\ todo = <<>>
    /\ pc' = "done"
    /\ UNCHANGED <<prog, todo, monos, cur, p>>

\* The next expression is visited: its arguments have been.
VisitExpr ==
    /\ pc = "visit"
    /\ p.status = "ok"
    /\ \E e \in DOMAIN Body :
         /\ e = p.visited + 1
         /\ LET x == Expr(e)
                seen == IF x.kind = "var" THEN [p EXCEPT !.used[x.var] = Append(@, e)] ELSE p
            IN  p' = Progress([seen EXCEPT !.visited = e], e)
    /\ UNCHANGED <<prog, todo, monos, cur, pc>>

\* resolve_types, first loop: in the order in which they were queued.
InferNext ==
    /\ pc \in {"visit", "infer"}
    /\ p.status = "ok"
    /\ p.visited = Len(Body)
    /\ p.queue # <<>>
    /\ p' = Progress([p EXCEPT !.queue = Tail(@)], Head(p.queue))
    /\ pc' = "infer"
    /\ UNCHANGED <<prog, todo, monos, cur>>

\* TypeTable::get_procedure_monomorph_index: the monomorph of a
\* procedure for a polymorphic argument.
KnownAt(known, poly) == {k \in DOMAIN known : known[k].arg = poly}

\* What the second loop of resolve_types does for expression e: an open integer
\* becomes s32, anything else that is open is an error; a call of a polymorphic
\* procedure gets its monomorph, which is queued unless it is known already.
\* acc = [q, monos, todo]
Resolved(acc, e) ==
    LET x == Expr(e)
        open == ~IsDone(acc.q.et[e])
        q == IF ~open THEN acc.q
             ELSE IF acc.q.et[e] = INTEGERLIKE_TEMPLATE
             THEN Push([acc.q EXCEPT !.et[e] = <<"SInt32">>, !.forced = @ \cup {e}], e)
             ELSE Fail(acc.q)
        poly == q.extra[e].poly
        known == acc.monos[x.def]
        at == KnownAt(known, poly)
    IN  IF acc.q.status # "ok" \/ q.status # "ok" \/ poly = NoArg
           \/ x.kind = "select" \/ x.builtin
        THEN [acc EXCEPT !.q = q]
        ELSE IF ~IsDone(poly) THEN [acc EXCEPT !.q = Fail(q)]
        ELSE IF x.kind = "lit" THEN [acc EXCEPT !.q = q]
        ELSE IF at # {} THEN [acc EXCEPT !.q = [q EXCEPT !.index[e] = CHOOSE k \in at : TRUE]]
        ELSE [q |-> [q EXCEPT !.index[e] = Len(known) + 1],
              monos |-> [acc.monos EXCEPT ![x.def] = Append(@, Monomorph(poly))],
              todo |-> Append(acc.todo, [proc |-> x.def, idx |-> Len(known) + 1, arg |-> poly])]

Resolve ==
    /\ pc \in {"visit", "infer"}
    /\ p.status = "ok"
    /\ p.visited = Len(Body)
    /\ p.queue = <<>>
    /\ LET end == FoldLeft(Resolved, [q |-> p, monos |-> monos, todo |-> todo],
                           [e \in DOMAIN Body |-> e])
       IN  p' = end.q /\ monos' = end.monos /\ todo' = end.todo
    /\ pc' = "reinfer"
    /\ UNCHANGED <<prog, cur>>

\* Third loop: the implicit types are passed on, the last one first.
ReinferNext ==
    /\ pc = "reinfer"
    /\ p.status = "ok"
    /\ p.queue # <<>>
    /\ p' = Progress([p EXCEPT !.queue = Front(@)], Last(p.queue))
    /\ UNCHANGED <<prog, todo, monos, cur, pc>>

\* The types go to the type table.  (write_concrete_type)
Store ==
    /\ pc = "reinfer"
    /\ p.status = "ok"
    /\ p.queue = <<>>
    /\ monos' = [monos EXCEPT ![cur.proc][cur.idx].exprs = p.et,
                              ![cur.proc][cur.idx].calls = p.index,
                              ![cur.proc][cur.idx].untold = p.untold]
    /\ pc' = "take"
    /\ UNCHANGED <<prog, todo, cur, p>>

\* Any error ends the compilation.
Reject ==
    /\ pc # "error"
    /\ p.status # "ok"
    /\ pc' = "error"
    /\ UNCHANGED <<prog, todo, monos, cur, p>>

Next == Take \/ Accept \/ VisitExpr \/ InferNext \/ Resolve \/ ReinferNext \/ Store \/ Reject

Spec == Init /\ [][Next]_vars
-----------------------------------------------------------------------------
(* Properties *)

IsInteger(t) == Len(t) = 1 /\ t[1] \in IntegerParts
IsArray(t) == Len(t) > 1 /\ t[1] \in ArrayParts

\* There is a type for the polymorphic variable with which the signature of a
\* call, a literal or a field access fits the types of m.
FitsSignature(m, x, types, ret) ==
    LET e == x.this
        positions == {<<types[k], m.exprs[x.args[k]]>> : k \in DOMAIN types} \cup {<<ret, m.exprs[e]>>}
        fits(arg) == \A ps \in positions :
            Compatible(KnownType(ps[1], arg), ps[2]) /\ Meet(KnownType(ps[1], arg), ps[2]) = ps[2]
    IN  \E ps \in positions : \E i \in DOMAIN ps[2] : fits(Subtree(ps[2], i - 1))

\* ... for the operator of a binary expression of type t on types a1 and a2.
WellTypedBinary(op, t, a1, a2) ==
    CASE op = "Concatenate" ->
           /\ IsArray(t) /\ IsArray(a1) /\ IsArray(a2)
           /\ Subtree(a1, 1) = Subtree(t, 1) /\ Subtree(a2, 1) = Subtree(t, 1)
           /\ (t[1] = "String") = (a1[1] = "String")
           /\ (t[1] = "String") = (a2[1] = "String")
      [] op = "LogicalAnd" -> t = BOOL_TEMPLATE
      [] op = "LogicalOr" ->
           t = BOOL_TEMPLATE /\ a1 = BOOL_TEMPLATE /\ a2 = BOOL_TEMPLATE
      [] op \in EqualityOps -> t = BOOL_TEMPLATE /\ a1 = a2
      [] op \in CompareOps -> t = BOOL_TEMPLATE /\ a1 = a2 /\ IsInteger(a1)
      [] op \in ArithmeticOps \cup BitOps -> IsInteger(t) /\ a1 = t /\ a2 = t

\* What the evaluator relies on when it executes expression x of monomorph m.
WellTyped(m, f, x) ==
    LET t == m.exprs[x.this]
        a == [k \in DOMAIN x.args |-> m.exprs[x.args[k]]]
    IN  CASE x.kind = "assign" ->
               /\ t = VOID_TEMPLATE /\ a[1] = a[2]
               /\ x.op = "Concatenate" => IsArray(a[1])
               /\ x.op \in ArithmeticOps \cup BitOps => IsInteger(a[1])
          [] x.kind = "bind" -> t = BOOL_TEMPLATE /\ a[1] = a[2]
          [] x.kind = "cond" -> a[1] = BOOL_TEMPLATE /\ a[2] = t /\ a[3] = t
          [] x.kind = "bin" -> WellTypedBinary(x.op, t, a[1], a[2])
          [] x.kind = "un" ->
               IF x.op = "LogicalNot" THEN t = BOOL_TEMPLATE ELSE IsInteger(t) /\ a[1] = t
          [] x.kind = "index" -> IsArray(a[1]) /\ Subtree(a[1], 1) = t /\ IsInteger(a[2])
          [] x.kind = "slice" ->
               /\ IsArray(a[1]) /\ IsInteger(a[2]) /\ a[2] = a[3]
               /\ Subtree(t, 1) = Subtree(a[1], 1)
               /\ t[1] = IF a[1][1] = "String" THEN "String" ELSE "Slice"
          [] x.kind = "lit" /\ x.op = "Array" ->
               t[1] = "Array" /\ \A k \in DOMAIN a : a[k] = Subtree(t, 1)
          [] x.kind = "lit" /\ x.op = "Integer" -> IsInteger(t)
          [] x.kind = "select" ->
               /\ a[1][1] \in DOMAIN prog.data
               /\ LET d == Data(a[1][1])
                  IN  t = KnownType(d.fields[x.field], Subtree(a[1], 1))
          [] x.kind = "call" \/ x.op = "Data" -> FitsSignature(m, x, x.types, x.ret)
          [] OTHER -> TRUE

\* Every call of a polymorphic procedure points to the monomorph for the types
\* it is called with, and no procedure is typed twice for the same types.
\* ("makes sure we never queue something twice")
CallsResolved ==
    /\ \A f \in Procs : \A i, j \in DOMAIN monos[f] : monos[f][i].arg = monos[f][j].arg => i = j
    /\ pc = "done" =>
        \A f \in Procs : \A m \in Range(monos[f]) : \A x \in Range(Proc(f).exprs) :
            x.kind = "call" /\ ~x.builtin /\ IsPolymorph(x.def) =>
                LET g == monos[x.def][m.calls[x.this]]
                IN  /\ g.exprs # <<>>
                    /\ m.exprs[x.this] = KnownType(x.ret, g.arg)
                    /\ \A k \in DOMAIN x.args : m.exprs[x.args[k]] = KnownType(x.types[k], g.arg)

\* Use x of a variable has the type that is declared, that of all other uses,
\* and at the end of a channel that of the uses of the other end; uses in
\* `but` are left aside.
UsesAgree(m, f, x, but) ==
    LET t == m.exprs[x.this]
        declared == KnownType(Proc(f).vars[x.var], m.arg)
    IN  /\ Compatible(declared, t) /\ Meet(declared, t) = t
        /\ \A y \in Range(Proc(f).exprs) : y.kind = "var" /\ y.this \notin but =>
             /\ y.var = x.var => m.exprs[y.this] = t
             /\ x.var \in DOMAIN Proc(f).linked /\ Proc(f).linked[x.var] = y.var
                  => Subtree(m.exprs[y.this], 1) = Subtree(t, 1)

WellTypedBut(f, m, but) ==
    \A x \in Range(Proc(f).exprs) :
        /\ IsDone(m.exprs[x.this])
        /\ x.this \notin but =>
             WellTyped(m, f, x) /\ (x.kind = "var" => UsesAgree(m, f, x, but))

\* A program that passes is well typed: every expression of every monomorph has
\* a concrete type, operations get operands they are defined for, all uses of
\* a variable and of both ends of a channel agree with each other and with the
\* declaration, and every call has its monomorph.  (Left out are the operands of
\* && and !, see LogicalOperandsAreBool; the cast of an integer whose type is
\* implied; and a first element of an array literal that was not queued when the
\* literal gave it its type, see AllWellTyped.)
AcceptedIsWellTyped ==
    /\ CallsResolved
    /\ pc = "done" =>
        \A f \in Procs : \A m \in Range(monos[f]) : WellTypedBut(f, m, m.untold)

\* The same for the first elements of array literals too, which does not hold:
\* after `x = 5` the literal {x + 1} of type u8[] is accepted with an addition of
\* type u8 whose operands are s32.
AllWellTyped ==
    pc = "done" =>
        \A f \in Procs : \A m \in Range(monos[f]) : WellTypedBut(f, m, {})

\* progress_binary_expr, "Forced boolean on all": the operands of && and of !
\* are booleans in a program that passes.
LogicalOperandsAreBool ==
    pc = "done" =>
        \A f \in Procs : \A m \in Range(monos[f]) : \A x \in Range(Proc(f).exprs) :
            x.op \in {"LogicalAnd", "LogicalNot"} =>
                \A k \in DOMAIN x.args : m.exprs[x.args[k]] = BOOL_TEMPLATE

\* Applying the constraints of e once more changes nothing.
Settled(e) == LET q == Progress(p, e) IN q.status = "ok" /\ q.et = p.et /\ q.vt = p.vt
Resolves == pc' = "reinfer" /\ pc # "reinfer"
ResolvesSettled == Resolves => \A e \in DOMAIN Body \ p.untold : Settled(e)

\* No expect and no unreachable! of the pass is reached.
NoPanic == p.status # "panic"

\* s has become t, and knows at least as much as before.
Refines(t, s) == Compatible(s, t) /\ Meet(s, t) = t

InferenceStep ==
    pc \in {"visit", "infer", "reinfer"} /\ cur' = cur /\ p'.status = "ok" =>
        /\ \A e \in DOMAIN p.et : Refines(p'.et[e], p.et[e])
        /\ \A v \in DOMAIN p.vt : Refines(p'.vt[v], p.vt[v])
        /\ \/ Len(p'.queue) < Len(p.queue)
           \/ p'.visited > p.visited
           \/ <<p'.et, p'.vt>> # <<p.et, p.vt>>
           \/ pc' # pc

\* What the worklist does is exact.  When nothing is queued any more and the
\* types are about to be resolved, applying the constraints of an expression
\* again changes no type.  The exception are the first elements of array
\* literals to which the literal has given a type since they were last applied:
\* the pass never queues them for that (see AllSettled).  And the worklist
\* ends: no type becomes less specific again, and an expression is queued again
\* only when some type has become more specific.
WorklistExact == [][ResolvesSettled /\ InferenceStep]_vars

\* The same without the exception, as the comment on the pass has it.  It does
\* not hold.
\* "Whenever a type is progressed we queue the related expressions [...]"
AllSettled == [][Resolves => \A e \in DOMAIN Body : Settled(e)]_vars
=============================================================================

------------------------------ MODULE Evaluator ------------------------------
(***************************************************************************)
(* The evaluator of a validated component: Prompt::step, one expression      *)
(* instruction or one statement at a time, and the loops of nonsync_run and  *)
(* sync_run around it.                                                       *)
(*                                                                           *)
(* A frame has its position, the instructions still to do for the statement  *)
(* there (`expr_stack`, taken from the back) and the values of those done    *)
(* (`expr_values`).  The variable `env` is not in the code: it maps every    *)
(* variable of the component to the value the language gives it.             *)
(***************************************************************************)
EXTENDS Semantics

CONSTANTS
    Programs,    \* the programs: their definitions, the main one is "main"
    Payloads     \* the messages other components may send: sequences of bytes

VARIABLES
    program,     \* the program
    linked,      \* its definitions once they are validated
    outcome,     \* how far the component is
    mode,        \* "Nonsync" or "Sync": which of the two loops runs it
    frames, store,
    inbox,       \* port -> the message for it in this round, if it is known
    firing,      \* port -> whether the branch assumes that it fires
    puts,        \* port -> the messages put into it in this round
    spawned,     \* the components it has created
    env

vars == <<program, linked, outcome, mode, frames, store, inbox, firing, puts, spawned, env>>
round == <<inbox, firing, puts>>

Frame(def, pos) == [definition |-> def, position |-> pos, expr_stack |-> <<>>, expr_values |-> <<>>]
Cur == Last(frames)
Code == linked[Cur.definition]
CurStmt == Code.ast[Cur.position]
Running == outcome = "Running"
Main == Len(frames) = 1
Now == [linked |-> linked, inbox |-> inbox, firing |-> firing]
MeaningNow(e) == Meaning(Now, env, e)
-----------------------------------------------------------------------------
(***************************************************************************)
(* Parsing, validation, and the component's first prompt.                    *)
(***************************************************************************)
Init ==
    /\ program \in Programs
    /\ linked = Empty /\ outcome = "Source" /\ mode = "Nonsync"
    /\ frames = <<>> /\ store = EmptyStore
    /\ inbox = Empty /\ firing = Empty /\ puts = Empty /\ spawned = <<>> /\ env = Empty

\* The ports of the main component are its arguments.
Arguments(def) == [i \in 1..Len(def.params) |-> Value(def.ports[i], i)]

Compile ==
    LET result == [name \in DOMAIN program |-> Validate(program, name)]
        ok == \A name \in DOMAIN program : result[name].ok
        args == Arguments(program["main"])
    IN  /\ outcome = "Source"
        /\ outcome' = IF ok THEN "Running" ELSE "Refused"
        /\ linked' = IF ok THEN result ELSE Empty
        /\ frames' = IF ok THEN <<Frame("main", <<>>)>> ELSE <<>>
        /\ store' = IF ok THEN StoreWith(EmptyStore, args, result["main"].size) ELSE store
        /\ env' = [d \in {[scope |-> ParamScope, idx |-> i] : i \in DOMAIN args} |->
                      Abstract(args[d.idx].kind, args[d.idx].n, <<>>)]
        /\ UNCHANGED <<program, mode, round, spawned>>
-----------------------------------------------------------------------------
(***************************************************************************)
(* Expression instructions.                                                  *)
(***************************************************************************)
PushValToFront == Expr("PushValToFront", "", <<>>)

\* The instructions of an expression; the last one is the first to run.
RECURSIVE serialize_expression(_)
prepare_multiple_expressions(es) ==
    FlattenSeq([k \in 1..Len(es) |-> <<PushValToFront>> \o serialize_expression(es[k])])
serialize_expression(e) ==
    LET ByField == [f \in 1..Len(e.args) |-> e.args[CHOOSE k \in DOMAIN e.fields : e.fields[k] = f]]
        Each(order) == FlattenSeq([k \in 1..Len(order) |-> serialize_expression(e.args[order[k]])])
    IN  <<e>> \o
        CASE e.kind \in {"Assignment", "Binding", "Binary"} -> Each(<<1, 2>>)
          [] e.kind \in {"Conditional", "Unary", "Select", "Cast"} -> Each(<<1>>)
          [] e.kind = "Indexing" -> Each(<<2, 1>>)
          [] e.kind = "Slicing" -> Each(<<2, 3, 1>>)
          [] e.kind = "Literal" /\ e.op = "Struct" -> prepare_multiple_expressions(ByField)
          [] OTHER -> prepare_multiple_expressions(e.args)

\* Running an instruction makes a result of a context: the store, the values
\* and the instructions left, and how the component goes on.
Context == [st |-> store, vals |-> Cur.expr_values, todo |-> Front(Cur.expr_stack), out |-> "Running"]
Push(c, st, popped, v) ==
    IF v = Panic THEN [c EXCEPT !.out = "Panic"]
    ELSE [c EXCEPT !.st = st, !.vals = Append(SubSeq(@, 1, Len(@) - popped), v)]
Operand(c, k) == c.vals[Len(c.vals) + 1 - k]
DropAll(st, vs) == FoldLeft(drop_value, st, vs)

ToFront(c, e) == [c EXCEPT !.vals = <<Last(@)>> \o Front(@)]

Assign(c, e) ==
    LET to == Operand(c, 1)
        rhs == read_take_ownership(c.st, Operand(c, 2))
        old == read_ref(rhs.st, to)
        Accepts == old.kind = rhs.v.kind \/ (old.kind = "Unassigned" /\ e.op = "Set")
    IN  IF ~Accepts THEN [c EXCEPT !.out = "Panic"]
        ELSE [c EXCEPT !.st = apply_assignment_operator(rhs.st, to, e.op, rhs.v),
                       !.vals = SubSeq(@, 1, Len(@) - 2)]

Bind(c, e) ==
    LET bound == apply_binding_operator(c.st, Operand(c, 1), Operand(c, 2))
    IN  Push(c, DropAll(bound.st, <<Operand(c, 1), Operand(c, 2)>>), 2, Bool(bound.ok))

\* The branch that is chosen is evaluated next.
Choose(c, e) ==
    LET test == Operand(c, 1)
    IN  IF test.kind # "Bool" THEN [c EXCEPT !.out = "Panic"]
        ELSE [c EXCEPT !.vals = Front(@),
                       !.todo = @ \o serialize_expression(IF IsTrue(test) THEN e.args[2] ELSE e.args[3])]

Combine(c, e) ==
    LET lhs == Operand(c, 1)
        rhs == Operand(c, 2)
        r == IF e.op = "Concatenate" THEN Concatenate(c.st, lhs, rhs)
             ELSE [st |-> c.st, v |-> apply_binary_operator(c.st, lhs, e.op, rhs)]
    IN  Push(c, DropAll(r.st, <<lhs, rhs>>), 2, r.v)

Negate(c, e) == Push(c, drop_value(c.st, Operand(c, 1)), 1, apply_unary_operator(c.st, e.op, Operand(c, 1)))

\* A part of a value that lives in the store is a reference; a part of a value
\* that only lives among the values is copied, and the rest of it freed.
Part(c, popped, subject, k) ==
    LET pos == read_ref(c.st, subject).n
        copy == clone_value(c.st, HeapRef(pos, k))
    IN  IF subject.kind \in HeapKinds THEN Push(c, drop_value(copy.st, subject), popped, copy.v)
        ELSE Push(c, c.st, popped, HeapRef(pos, k))
InRegion(st, v) == st.regions[read_ref(st, v).n]

Index(c, e) ==
    LET index == read_ref(c.st, Operand(c, 1)).n
        subject == Operand(c, 2)
    IN  IF index < 0 \/ index >= Len(InRegion(c.st, subject)) THEN [c EXCEPT !.out = "Error"]
        ELSE Part(c, 2, subject, index + 1)

Select(c, e) == Part(c, 1, Operand(c, 1), e.n)

Slice(c, e) ==
    LET from == read_ref(c.st, Operand(c, 1)).n
        to == read_ref(c.st, Operand(c, 2)).n
        subject == Operand(c, 3)
        values == InRegion(c.st, subject)
        new == alloc_heap(c.st)
        copies == CloneAll(new.st, SubSeq(values, from + 1, to))
    IN  IF from < 0 \/ from >= Len(values) \/ to < 0 \/ to > Len(values) THEN [c EXCEPT !.out = "Error"]
        ELSE Push(c, drop_value([copies.st EXCEPT !.regions[new.pos] = copies.vs], subject), 3,
                  [read_ref(c.st, subject) EXCEPT !.n = new.pos])

\* The parts of a literal wait at the front of the values.
FromFront(c, n, kind, tag) ==
    LET new == alloc_heap(c.st)
        owned == TakeAll(new.st, SubSeq(c.vals, 1, n))
    IN  [c EXCEPT !.st = [owned.st EXCEPT !.regions[new.pos] = owned.vs],
                  !.vals = Append(SubSeq(@, n + 1, Len(@)), [kind |-> kind, n |-> new.pos, i |-> tag])]
NewRegion(c, kind, values) ==
    LET new == alloc_heap(c.st)
    IN  Push(c, [new.st EXCEPT !.regions[new.pos] = values], 0, Value(kind, new.pos))
Literal(c, e) ==
    CASE e.op \in {"True", "False"} -> Push(c, c.st, 0, Bool(e.op = "True"))
      [] e.op = "Integer" -> Push(c, c.st, 0, Value(e.name, As(e.n, e.name)))
      [] e.op = "Character" -> Push(c, c.st, 0, Value("Char", e.n))
      [] e.op = "Enum" -> Push(c, c.st, 0, Value("Enum", e.n))
      [] e.op = "String" -> NewRegion(c, "String", <<Value("Char", e.n)>>)
      [] e.op \in {"Struct", "Union", "Array"} -> FromFront(c, Len(e.args), e.op, e.n)

Cast(c, e) ==
    LET v == apply_casting(read_ref(c.st, Operand(c, 1)), e.name)
    IN  IF v = Panic THEN [c EXCEPT !.out = "Error"] ELSE Push(c, c.st, 1, v)

Variable(c, e) ==
    Push(c, c.st, 0, Value(IF e.op = "Binding" THEN "Binding" ELSE "StackRef", unique_id_in_scope(Code, e.decl)))

\* Methods that need nothing but the store.
Create(c, e) ==
    LET length == read_ref(c.st, Head(c.vals)).n
    IN  IF length < 0 THEN [c EXCEPT !.out = "Error"]
        ELSE NewRegion([c EXCEPT !.vals = Tail(@)], "Message", [k \in 1..length |-> Value("UInt8", 0)])
Length(c, e) ==
    LET subject == Head(c.vals)
    IN  IF read_ref(c.st, subject).kind \notin {"Array", "String"} THEN [c EXCEPT !.out = "Panic"]
        ELSE Push([c EXCEPT !.vals = Tail(@)], drop_value(c.st, subject), 0,
                  Value("UInt32", Len(InRegion(c.st, subject))))
AssertHolds(c, e) ==
    [c EXCEPT !.vals = Tail(@), !.out = IF IsTrue(read_ref(c.st, Head(c.vals))) THEN @ ELSE "Inconsistent"]

Todo == Last(Cur.expr_stack)
Instruction(kind) == Running /\ Cur.expr_stack # <<>> /\ Todo.kind = kind
Method(name) == Instruction("Call") /\ Todo.name = name
Continue(r) ==
    /\ store' = r.st /\ outcome' = r.out
    /\ frames' = [frames EXCEPT ![Len(frames)].expr_stack = r.todo, ![Len(frames)].expr_values = r.vals]
Rest == <<program, linked, mode, round, spawned>>

EvalToFront == Instruction("PushValToFront") /\ Continue(ToFront(Context, Todo)) /\ UNCHANGED <<Rest, env>>
EvalAssignment ==
    /\ Instruction("Assignment") /\ Continue(Assign(Context, Todo))
    /\ env' = IF Main THEN Assigned(Now, env, Todo) ELSE env
    /\ UNCHANGED Rest
EvalBinding == Instruction("Binding") /\ Continue(Bind(Context, Todo)) /\ UNCHANGED <<Rest, env>>
EvalConditional == Instruction("Conditional") /\ Continue(Choose(Context, Todo)) /\ UNCHANGED <<Rest, env>>
EvalBinary == Instruction("Binary") /\ Continue(Combine(Context, Todo)) /\ UNCHANGED <<Rest, env>>
EvalUnary == Instruction("Unary") /\ Continue(Negate(Context, Todo)) /\ UNCHANGED <<Rest, env>>
EvalIndexing == Instruction("Indexing") /\ Continue(Index(Context, Todo)) /\ UNCHANGED <<Rest, env>>
EvalSlicing == Instruction("Slicing") /\ Continue(Slice(Context, Todo)) /\ UNCHANGED <<Rest, env>>
EvalSelect == Instruction("Select") /\ Continue(Select(Context, Todo)) /\ UNCHANGED <<Rest, env>>
EvalLiteral == Instruction("Literal") /\ Continue(Literal(Context, Todo)) /\ UNCHANGED <<Rest, env>>
EvalCast == Instruction("Cast") /\ Continue(Cast(Context, Todo)) /\ UNCHANGED <<Rest, env>>
EvalVariable == Instruction("Variable") /\ Continue(Variable(Context, Todo)) /\ UNCHANGED <<Rest, env>>
EvalCreate == Method("create") /\ Continue(Create(Context, Todo)) /\ UNCHANGED <<Rest, env>>
EvalLength == Method("length") /\ Continue(Length(Context, Todo)) /\ UNCHANGED <<Rest, env>>
EvalAssert == Method("assert") /\ Continue(AssertHolds(Context, Todo)) /\ UNCHANGED <<Rest, env>>

\* get, put and fires ask the round; nonsync_run takes them for unreachable.
PortArgument == read_ref(store, Head(Cur.expr_values))
Bytes(payload) == [k \in 1..Len(payload.parts) |-> Value("UInt8", payload.parts[k].n)]
InRound(c, r) == IF mode = "Sync" THEN r ELSE [c EXCEPT !.out = "Panic"]
Known(port, answers) == mode = "Sync" => port.n \in DOMAIN answers

Get(c, e) == InRound(c, NewRegion([c EXCEPT !.vals = Tail(@)], "Message", Bytes(inbox[PortArgument.n])))
EvalGet ==
    /\ Method("get") /\ Known(PortArgument, inbox)
    /\ Continue(Get(Context, Todo)) /\ UNCHANGED <<Rest, env>>
\* Without a message the call is left in place with the port in front.
BlockGet ==
    /\ Method("get") /\ ~Known(PortArgument, inbox)
    /\ outcome' = "BlockGet"
    /\ frames' = [frames EXCEPT ![Len(frames)].expr_values = <<PortArgument>> \o Tail(@)]
    /\ UNCHANGED <<Rest, store, env>>
Deliver(payload) ==
    /\ outcome = "BlockGet" /\ outcome' = "Running"
    /\ inbox' = inbox @@ (PortArgument.n :> payload)
    /\ UNCHANGED <<program, linked, mode, frames, store, firing, puts, spawned, env>>

Fires(c, e) == InRound(c, Push([c EXCEPT !.vals = Tail(@)], c.st, 0, Bool(firing[PortArgument.n])))
EvalFires ==
    /\ Method("fires") /\ Known(PortArgument, firing)
    /\ Continue(Fires(Context, Todo)) /\ UNCHANGED <<Rest, env>>
BlockFires ==
    /\ Method("fires") /\ ~Known(PortArgument, firing)
    /\ outcome' = "BlockFires" /\ UNCHANGED <<Rest, store, frames, env>>
Speculate(fires) ==
    /\ outcome = "BlockFires" /\ outcome' = "Running"
    /\ firing' = firing @@ (PortArgument.n :> fires)
    /\ UNCHANGED <<program, linked, mode, frames, store, inbox, puts, spawned, env>>

\* Only a msg may be put.  The first evaluation hands the message to the round
\* and leaves the call in place; the second finds that the port was used and
\* frees it.
PutsMessage == read_ref(store, Cur.expr_values[2]).kind = "Message"
RefusePut ==
    /\ Method("put") /\ ~PutsMessage
    /\ Continue([Context EXCEPT !.vals = Tail(Tail(@)), !.out = "Error"])
    /\ UNCHANGED <<Rest, env>>
HandOver ==
    /\ Method("put") /\ PutsMessage /\ ~Known(PortArgument, puts)
    /\ puts' = puts @@ (PortArgument.n :> Abs(store, Cur.expr_values[2]))
    /\ UNCHANGED <<program, linked, outcome, mode, frames, store, inbox, firing, spawned, env>>
DidPut(c, e) == InRound(c, [c EXCEPT !.st = drop_value(c.st, c.vals[2]), !.vals = Tail(Tail(@))])
EvalPut ==
    /\ Method("put") /\ PutsMessage /\ Known(PortArgument, puts)
    /\ Continue(DidPut(Context, Todo)) /\ UNCHANGED <<Rest, env>>

\* A call of a function takes its arguments from the front into a new frame.
CallFunction ==
    LET e == Todo
        n == Len(e.args)
        args == TakeAll(store, SubSeq(Cur.expr_values, 1, n))
    IN  /\ Instruction("Call") /\ e.name \in DOMAIN linked
        /\ store' = PushFrame(args.st, args.vs, linked[e.name].size)
        /\ frames' = Append([frames EXCEPT ![Len(frames)].expr_stack = Front(@),
                                           ![Len(frames)].expr_values = SubSeq(@, n + 1, Len(@))],
                            Frame(e.name, <<>>))
        /\ UNCHANGED <<Rest, outcome, env>>
-----------------------------------------------------------------------------
(***************************************************************************)
(* Statements.                                                               *)
(***************************************************************************)
Ready(kind) == Running /\ Cur.expr_stack = <<>> /\ Cur.position # NoPath /\ CurStmt.kind = kind
Prepared(p) ==
    IF p = NoPath THEN <<>>
    ELSE LET s == Code.ast[p]
         IN  CASE s.kind = "New" -> prepare_multiple_expressions(s.expr.args)
               [] s.kind # "New" /\ s.expr # NoExpr -> serialize_expression(s.expr)
               [] OTHER -> <<>>
\* The frame goes to p with the given values left over: none may be.
GoToIf(allowed, p, left) ==
    IF allowed /\ left = <<>>
    THEN /\ frames' = [frames EXCEPT ![Len(frames)] =
                         [@ EXCEPT !.position = p, !.expr_stack = Prepared(p), !.expr_values = left]]
         /\ outcome' = "Running"
    ELSE outcome' = "Panic" /\ UNCHANGED frames
GoTo(p, left) == GoToIf(TRUE, p, left)

\* A block is asserted to be linked to the first of its statements, if any.
StepBlock ==
    /\ Ready("Block")
    /\ GoToIf(CurStmt.size = 0 \/ Code.next[Cur.position] = Append(Cur.position, 1),
              Code.next[Cur.position], Cur.expr_values)
    /\ UNCHANGED <<Rest, store, env>>
StepEndBlock ==
    /\ Ready("EndBlock")
    /\ store' = clear_stack(store, Code.first[Front(Cur.position)])
    /\ GoTo(Code.next[Cur.position], Cur.expr_values) /\ UNCHANGED <<Rest, env>>

DeclOf(k) == find_variable(Code.locals, <<>>, Cur.position, CurStmt.names[k])
Slot(k) == unique_id_in_scope(Code, DeclOf(k))
StepMemory ==
    /\ Ready("Memory")
    /\ store' = write(store, Slot(1), Unassigned)
    /\ env' = IF Main THEN [d \in DOMAIN env \ {DeclOf(1)} |-> env[d]] ELSE env
    /\ GoTo(Code.next[Cur.position], Cur.expr_values) /\ UNCHANGED Rest
\* new_channel hands out the next two ports.
NextPort == Len(program["main"].params) + 1 + 2 * Cardinality({d \in DOMAIN env : env[d].kind = "Output"})
StepChannel ==
    LET port == NextPort
    IN  /\ Ready("Channel")
        /\ store' = write(write(store, Slot(1), Value("Output", port)), Slot(2), Value("Input", port + 1))
        /\ env' = (DeclOf(1) :> Abstract("Output", port, <<>>))
                    @@ ((DeclOf(2) :> Abstract("Input", port + 1, <<>>)) @@ env)
        /\ GoTo(Code.next[Cur.position], Cur.expr_values) /\ UNCHANGED Rest

StepLabeled == Ready("Labeled") /\ GoTo(Append(Cur.position, 1), Cur.expr_values) /\ UNCHANGED <<Rest, store, env>>
StepEnd ==
    /\ \E kind \in {"EndIf", "EndWhile"} : Ready(kind)
    /\ GoTo(Code.next[Cur.position], Cur.expr_values) /\ UNCHANGED <<Rest, store, env>>
StepJump ==
    /\ \E kind \in {"Break", "Continue", "Goto"} : Ready(kind)
    /\ GoTo(Code.next[Cur.position], Cur.expr_values) /\ UNCHANGED <<Rest, store, env>>

\* The test decides; what it has bound is in the slots of the block it opens.
StepTest ==
    LET test == read_ref(store, Last(Cur.expr_values))
        p == Cur.position
    IN  /\ \E kind \in {"If", "While"} : Ready(kind)
        /\ GoToIf(test.kind = "Bool",
                  CASE IsTrue(test) -> Append(p, 1)
                    [] ~IsTrue(test) /\ CurStmt.hasElse -> Append(p, 2)
                    [] OTHER -> EndOf(Code.ast, p),
                  Front(Cur.expr_values))
        /\ env' = IF Main /\ IsTrue(test) THEN TestBinds(Now, env, CurStmt.expr) @@ env ELSE env
        /\ UNCHANGED <<Rest, store>>

\* The loops around step: a block may only start outside and end inside a round.
StepSynchronous ==
    /\ Ready("Synchronous")
    /\ GoToIf(mode = "Nonsync", Append(Cur.position, 1), Cur.expr_values)
    /\ mode' = "Sync" /\ UNCHANGED <<program, linked, store, round, spawned, env>>
StepEndSynchronous ==
    /\ Ready("EndSynchronous")
    /\ GoToIf(mode = "Sync", Code.next[Cur.position], Cur.expr_values)
    /\ mode' = "Nonsync" /\ inbox' = Empty /\ firing' = Empty /\ puts' = Empty
    /\ UNCHANGED <<program, linked, store, spawned, env>>

\* The value of a return is copied if it is a reference, before the frame goes.
StepReturn ==
    LET v == read_take_ownership(store, Last(Cur.expr_values))
    IN  /\ Ready("Return")
        /\ store' = PopFrame(v.st)
        /\ frames' = [Front(frames) EXCEPT ![Len(frames) - 1].expr_values = Append(@, v.v)]
        /\ UNCHANGED <<Rest, outcome, env>>

StepNew ==
    LET vs == Cur.expr_values
        def == CurStmt.expr.name
    IN  /\ Ready("New")
        /\ spawned' = Append(spawned, [store |-> StoreWith(store, vs, linked[def].size),
                                       moved |-> UNION {PortsIn(store, vs[k]) : k \in DOMAIN vs},
                                       args |-> [k \in 1..Len(vs) |-> MeaningNow(CurStmt.expr.args[k])]])
        /\ store' = DropAll(store, vs)
        /\ GoToIf(mode = "Nonsync", Code.next[Cur.position], <<>>)
        /\ UNCHANGED <<program, linked, mode, round, env>>

StepExpression ==
    /\ Ready("Expression") /\ GoTo(Code.next[Cur.position], Cur.expr_values)
    /\ UNCHANGED <<Rest, store, env>>

\* The end of the body: a function should have returned, and a component must
\* have left its synchronous block.
StepTerminal ==
    /\ Running /\ Cur.expr_stack = <<>> /\ Cur.position = NoPath
    /\ outcome' = IF Main /\ mode = "Nonsync" THEN "Exited" ELSE "Panic"
    /\ UNCHANGED <<Rest, store, frames, env>>

Expressions ==
    \/ EvalToFront \/ EvalAssignment \/ EvalBinding \/ EvalConditional \/ EvalBinary \/ EvalUnary
    \/ EvalIndexing \/ EvalSlicing \/ EvalSelect \/ EvalLiteral \/ EvalCast \/ EvalVariable
    \/ EvalCreate \/ EvalLength \/ EvalAssert \/ EvalGet \/ BlockGet \/ EvalFires \/ BlockFires
    \/ RefusePut \/ HandOver \/ EvalPut \/ CallFunction
StatementSteps ==
    \/ StepBlock \/ StepEndBlock \/ StepMemory \/ StepChannel \/ StepLabeled \/ StepEnd \/ StepJump
    \/ StepTest \/ StepSynchronous \/ StepEndSynchronous \/ StepReturn \/ StepNew \/ StepExpression
    \/ StepTerminal
Next ==
    \/ Compile \/ Expressions \/ StatementSteps
    \/ \E payload \in Payloads : Deliver(payload)
    \/ \E fires \in BOOLEAN : Speculate(fires)
Spec == Init /\ [][Next]_vars
-----------------------------------------------------------------------------
(***************************************************************************)
(* Properties.                                                               *)
(***************************************************************************)
Skips == \E name \in DOMAIN linked : SkipsDeclaration(linked[name])

\* The component is at a block that begins with a label: validation links the
\* block to the statement behind the label, which StepBlock's assertion refuses.
AtLabeledBlock ==
    /\ Cur.position # NoPath /\ CurStmt.kind = "Block"
    /\ Append(Cur.position, 1) \in DOMAIN Code.ast
    /\ Code.ast[Append(Cur.position, 1)].kind = "Labeled"

\* No accepted program runs into an unreachable!() or a failed assertion of the
\* evaluator or of the loops around it: no value of the wrong kind, no read of
\* a variable before its assignment, no value left over by a statement, no
\* method of a round outside one, no end of the component inside one.  There are
\* two exceptions, and both do occur: a jump past a declaration, which
\* validation lets through in some blocks, and a block that begins with a label.
NoPanic == outcome = "Panic" => Skips \/ AtLabeledBlock

\* The loop that runs the component is the right one for where it stands:
\* sync_run exactly from the start of a synchronous block to its end, whatever
\* jumps are taken.
InsideSync(p) == InSync(linked["main"].ast, p) # {} \/ linked["main"].ast[p].kind = "EndSynchronous"
SyncMatchesPosition ==
    Running => (mode = "Sync" <=> frames[1].position # NoPath /\ InsideSync(frames[1].position))

\* Between statements every variable in scope holds, in the slot validation
\* gave it, the value last assigned to it: blocks that share slots, loops left
\* halfway and calls do not disturb it.
InScope(d, p) ==
    \/ d.scope = ParamScope
    \/ /\ IsStrictPrefix(d.scope, p)
       /\ LET local == linked["main"].locals[d.scope][d.idx]
          IN  IF local.bound THEN PosIn(d.scope, p) >= 0 ELSE PosIn(d.scope, p) > local.pos
VariablesKept ==
    (Running /\ Main /\ Cur.expr_stack = <<>> /\ Cur.position # NoPath /\ ~Skips) =>
        \A d \in DOMAIN env :
            InScope(d, Cur.position) =>
                Abs(store, store.stack[StackIdx(store, unique_id_in_scope(linked["main"], d))]) = env[d]

\* Every heap region is free exactly once or owned exactly once: by a slot of
\* the stack, by a value of a frame or by another region.
Regions(vs) == SelectSeq(vs, LAMBDA v : v.kind \in HeapKinds)
Owned(st, values) ==
    [k \in 1..Len(values) |-> values[k].n] \o st.free
RegionsOwned ==
    LET values == Regions(store.stack) \o FlattenSeq([k \in 1..Len(frames) |-> Regions(frames[k].expr_values)])
                    \o FlattenSeq([k \in 1..Len(store.regions) |-> Regions(store.regions[k])])
        owned == Owned(store, values)
    IN  Running => Len(owned) = Len(store.regions) /\ ToSet(owned) = DOMAIN store.regions

\* A new component starts with copies of its arguments in a heap of its own,
\* and takes along every port among them, also those inside other values.
RECURSIVE PortsOf(_)
PortsOf(a) == IF a.kind \in {"Input", "Output"} THEN {a.n} ELSE UNION {PortsOf(b) : b \in ToSet(a.parts)}
ArgumentsMoved ==
    \A k \in DOMAIN spawned :
        LET c == spawned[k]
        IN  /\ \A j \in DOMAIN c.args : Abs(c.store, c.store.stack[j + 1]) = c.args[j]
            /\ c.moved = UNION {PortsOf(a) : a \in ToSet(c.args)}
            /\ Len(FlattenSeq([r \in 1..Len(c.store.regions) |-> Regions(c.store.regions[r])])
                     \o Regions(c.store.stack)) = Len(c.store.regions)

\* Values are neither shared nor lost: no region of the component's heap has two
\* owners or none, and what it gives to a component it creates arrives complete.
\* (For programs that assign to no variable of string type: such an assignment
\* leaks the region the variable had.)
HeapExact == RegionsOwned /\ ArgumentsMoved

\* When a test or a new is reached, the values the stack machine has computed
\* are the ones the language gives the expressions, and so is the message of
\* every put; a cast fails exactly when the type cannot hold the number.
Expected == IF CurStmt.kind = "New" THEN [k \in 1..Len(CurStmt.expr.args) |-> MeaningNow(CurStmt.expr.args[k])]
            ELSE <<MeaningNow(CurStmt.expr)>>
ValuesExact ==
    /\ (Main /\ \E kind \in {"If", "While", "New"} : Ready(kind)) =>
          [k \in 1..Len(Cur.expr_values) |-> Abs(store, Cur.expr_values[k])] = Expected
    /\ (Main /\ Method("put")) =>
          Abs(store, Cur.expr_values[2]) = MeaningNow(Todo.args[2])
CastExact ==
    LET e == Todo
        v == read_ref(store, Last(Cur.expr_values))
    IN  (Instruction("Cast") /\ v.kind \in IntKinds) =>
            (outcome' = "Error" <=> v.n \notin MinOf(e.name)..MaxOf(e.name))
EvaluationExact == [][~Skips => ValuesExact /\ CastExact]_vars
=============================================================================

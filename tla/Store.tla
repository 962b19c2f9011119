-------------------------------- MODULE Store --------------------------------
(***************************************************************************)
(* The values of the evaluator and the store that holds them: a stack with   *)
(* a boundary per frame, heap regions and the list of the free ones.  A      *)
(* value of one of the HeapKinds owns the region its n names; i is the       *)
(* variant of a union and the element a heap reference points to.            *)
(***************************************************************************)
EXTENDS Integers, FiniteSets, SequencesExt

Value(kind, n) == [kind |-> kind, n |-> n, i |-> 0]
Bool(b) == Value("Bool", IF b THEN 1 ELSE 0)
Unassigned == Value("Unassigned", 0)
HeapRef(pos, i) == [kind |-> "HeapRef", n |-> pos, i |-> i]
HeapKinds == {"Message", "String", "Array", "Union", "Struct"}
IsTrue(v) == v.n = 1

EmptyStore == [stack |-> <<Value("PrevStackBoundary", -1)>>, boundary |-> 1, regions |-> <<>>, free |-> <<>>]
StackIdx(st, pos) == st.boundary + 1 + pos

\* The most recently freed region is the first to be used again.
alloc_heap(st) ==
    IF st.free = <<>>
    THEN [pos |-> Len(st.regions) + 1, st |-> [st EXCEPT !.regions = Append(@, <<>>)]]
    ELSE [pos |-> Last(st.free), st |-> [st EXCEPT !.free = Front(@)]]

RECURSIVE drop_value(_, _)
drop_value(st, v) ==
    IF v.kind \notin HeapKinds THEN st
    ELSE LET emptied == FoldLeft(LAMBDA s, w : drop_value(s, w), st, st.regions[v.n])
         IN  [emptied EXCEPT !.regions[v.n] = <<>>, !.free = Append(@, v.n)]

read_ref(st, v) ==
    CASE v.kind = "StackRef" -> st.stack[StackIdx(st, v.n)]
      [] v.kind = "HeapRef" -> st.regions[v.n][v.i]
      [] OTHER -> v

\* A copy that owns what it points to, all the way down.
RECURSIVE clone_value(_, _)
clone_value(st, v) ==
    LET src == read_ref(st, v)
        new == alloc_heap(st)
        Copy(acc, w) == LET c == clone_value(acc, w)
                        IN  [c.st EXCEPT !.regions[new.pos] = Append(@, c.v)]
    IN  IF src.kind \notin HeapKinds THEN [st |-> st, v |-> src]
        ELSE [st |-> FoldLeft(Copy, new.st, st.regions[src.n]), v |-> [src EXCEPT !.n = new.pos]]

CloneAll(st, vs) ==
    FoldLeft(LAMBDA acc, v : LET c == clone_value(acc.st, v) IN [st |-> c.st, vs |-> Append(acc.vs, c.v)],
             [st |-> st, vs |-> <<>>], vs)

\* Only a value behind a reference is copied.
read_take_ownership(st, v) ==
    IF v.kind \in {"StackRef", "HeapRef"} THEN clone_value(st, v) ELSE [st |-> st, v |-> v]
TakeAll(st, vs) ==
    FoldLeft(LAMBDA acc, v : LET c == read_take_ownership(acc.st, v)
                             IN  [st |-> c.st, vs |-> Append(acc.vs, c.v)],
             [st |-> st, vs |-> <<>>], vs)

write_over(st, pos, v) == [st EXCEPT !.stack[StackIdx(st, pos)] = v]
\* Writing a slot frees what it held.
write(st, pos, v) ==
    LET idx == StackIdx(st, pos)
    IN  [drop_value(st, st.stack[idx]) EXCEPT !.stack[idx] = v]

\* Every slot of the frame from pos on is freed.
clear_stack(st, pos) ==
    FoldLeft(LAMBDA s, idx : [drop_value(s, s.stack[idx]) EXCEPT !.stack[idx] = Unassigned],
             st, [k \in 1..(Len(st.stack) - st.boundary - pos) |-> st.boundary + pos + k])

reserve_stack(st, size) ==
    LET missing == st.boundary + size - Len(st.stack)
    IN  [st EXCEPT !.stack = @ \o [k \in 1..missing |-> Unassigned]]

\* New storage for a frame of `size` slots that starts with the given values.
PushFrame(st, args, size) ==
    reserve_stack([st EXCEPT !.boundary = Len(st.stack) + 1,
                             !.stack = (@ \o <<Value("PrevStackBoundary", st.boundary)>>) \o args], size)
PopFrame(st) ==
    LET cleared == clear_stack(st, 0)
    IN  [cleared EXCEPT !.stack = SubSeq(@, 1, st.boundary - 1), !.boundary = st.stack[st.boundary].n]
-----------------------------------------------------------------------------
\* A value group holds values and their regions outside of any store.
RECURSIVE provide_value(_, _, _)
provide_value(from, to, v) ==
    LET src == read_ref(from, v)
        new == alloc_heap(to)
        Provide(acc, w) == LET c == provide_value(from, acc, w)
                           IN  [c.st EXCEPT !.regions[new.pos] = Append(@, c.v)]
    IN  IF src.kind \notin HeapKinds THEN [st |-> to, v |-> src]
        ELSE [st |-> FoldLeft(Provide, new.st, from.regions[src.n]), v |-> [src EXCEPT !.n = new.pos]]

\* The store of a component that starts with these values of another store.
StoreWith(from, args, size) ==
    LET into_store(to, v) == LET c == provide_value(from, to, v)
                             IN  [c.st EXCEPT !.stack = Append(@, c.v)]
    IN  reserve_stack(FoldLeft(into_store, EmptyStore, args), size)

\* The ports among the values and in all the regions of the group.
RECURSIVE PortsIn(_, _)
PortsIn(st, v) ==
    LET src == read_ref(st, v)
    IN  CASE src.kind \in {"Input", "Output"} -> {src.n}
          [] src.kind \in HeapKinds -> UNION {PortsIn(st, w) : w \in ToSet(st.regions[src.n])}
          [] OTHER -> {}
-----------------------------------------------------------------------------
(***************************************************************************)
(* Operators on values.  Panic stands for an unreachable!().                 *)
(***************************************************************************)
Panic == Value("Panic", 0)

\* Widths in bits, and the numbers a type can hold.
IntKinds == {"UInt8", "SInt8", "SInt16"}
Signed(kind) == kind \in {"SInt8", "SInt16"}
Width(kind) == IF kind = "SInt16" THEN 16 ELSE 8
MaxOf(kind) == IF Signed(kind) THEN 2^(Width(kind) - 1) - 1 ELSE 2^Width(kind) - 1
MinOf(kind) == IF Signed(kind) THEN -(2^(Width(kind) - 1)) ELSE 0
\* x as kind: the low bits, read in two's complement.
As(x, kind) ==
    LET low == x % 2^Width(kind)
    IN  IF low > MaxOf(kind) THEN low - 2^Width(kind) ELSE low

CastFitsUnmasked(x, from, to) ==
    /\ x <= As(MaxOf(to), from)
    /\ Signed(from) => x >= As(MinOf(to), from)
\* Which numbers of one integer type another takes: the bounds are cast to the
\* type of the input and masked with its largest and its smallest number.
CastFits(x, from, to) ==
    LET half == 2^(Width(from) - 1)
    IN  IF Signed(from)
        THEN /\ x <= As(MaxOf(to), from) % half
             /\ x >= IF Signed(to) THEN (As(MinOf(to), from) % half) - half ELSE 0
        ELSE x <= As(MaxOf(to), from)

\* The result of casting to an integer type, Panic where the cast fails.
apply_casting(v, kind) ==
    CASE v.kind \in {"Bool", "Char"} -> Value(kind, As(v.n, kind))
      [] v.kind \in IntKinds /\ CastFits(v.n, v.kind, kind) -> Value(kind, As(v.n, kind))
      [] OTHER -> Panic

RECURSIVE apply_equality_operator(_, _, _)
apply_equality_operator(st, v, w) ==
    LET lhs == read_ref(st, v)
        rhs == read_ref(st, w)
        ls == st.regions[lhs.n]
        rs == st.regions[rhs.n]
    IN  IF lhs.kind \notin HeapKinds THEN lhs.n = rhs.n
        ELSE /\ lhs.i = rhs.i /\ Len(ls) = Len(rs)
             /\ \A k \in DOMAIN ls : apply_equality_operator(st, ls[k], rs[k])

\* Of the operators on integers, division, remainder, shifts and the bitwise
\* ones are left out; results are taken to fit their type.
IntResult(op, a, b) ==
    CASE op = "Add" -> a + b
      [] op = "Subtract" -> a - b
      [] op = "Multiply" -> a * b
Compares(op, a, b) ==
    CASE op = "LessThan" -> a < b
      [] op = "GreaterThan" -> a > b
      [] op = "LessThanEqual" -> a <= b
      [] op = "GreaterThanEqual" -> a >= b

\* An operator on two values that are not concatenated.
apply_binary_operator(st, v, op, w) ==
    LET lhs == read_ref(st, v)
        rhs == read_ref(st, w)
        ints == lhs.kind \in IntKinds /\ rhs.kind = lhs.kind
    IN  CASE lhs.kind = "Unassigned" \/ rhs.kind # lhs.kind -> Panic
          [] op = "LogicalAnd" -> Bool(IsTrue(lhs) /\ IsTrue(rhs))
          [] op = "LogicalOr" -> Bool(IsTrue(lhs) \/ IsTrue(rhs))
          [] op = "Equality" -> Bool(apply_equality_operator(st, lhs, rhs))
          [] op = "Inequality" -> Bool(~apply_equality_operator(st, lhs, rhs))
          [] op \in {"Add", "Subtract", "Multiply"} /\ ints -> Value(lhs.kind, IntResult(op, lhs.n, rhs.n))
          [] op \in {"LessThan", "GreaterThan", "LessThanEqual", "GreaterThanEqual"} /\ ints ->
                Bool(Compares(op, lhs.n, rhs.n))
          [] OTHER -> Panic

apply_unary_operator(st, op, v) ==
    LET val == read_ref(st, v)
    IN  CASE op = "Negative" /\ Signed(val.kind) -> Value(val.kind, -val.n)
          [] op = "LogicalNot" /\ val.kind = "Bool" -> Bool(~IsTrue(val))
          [] OTHER -> Panic

\* Concatenation copies both sides into a new region.
Concatenate(st, v, w) ==
    LET new == alloc_heap(st)
        lhs == read_ref(st, v)
        rhs == read_ref(st, w)
        all == CloneAll(new.st, st.regions[lhs.n] \o st.regions[rhs.n])
    IN  [st |-> [all.st EXCEPT !.regions[new.pos] = all.vs], v |-> [lhs EXCEPT !.n = new.pos]]

\* Assignment through a reference; the value is owned by then.  What a slot or
\* an element held is freed, but not the region of a string.
Put(st, ref, v) ==
    IF ref.kind = "StackRef" THEN [st EXCEPT !.stack[StackIdx(st, ref.n)] = v]
    ELSE [st EXCEPT !.regions[ref.n][ref.i] = v]
SetValue(st, ref, v) ==
    LET old == read_ref(st, ref)
        set == Put(st, ref, v)
    IN  IF old.kind = "String" THEN set ELSE drop_value(set, old)
Appended(st, ref, v) ==
    LET lhs == read_ref(st, ref)
        copies == CloneAll(st, st.regions[v.n])
    IN  drop_value([copies.st EXCEPT !.regions[lhs.n] = @ \o copies.vs], v)
apply_assignment_operator(st, ref, op, v) ==
    CASE op = "Set" -> SetValue(st, ref, v)
      [] op = "Concatenated" -> Appended(st, ref, v)
      [] op = "Added" -> Put(st, ref, Value(v.kind, read_ref(st, ref).n + v.n))
      [] op = "Subtracted" -> Put(st, ref, Value(v.kind, read_ref(st, ref).n - v.n))
      [] op = "Multiplied" -> Put(st, ref, Value(v.kind, read_ref(st, ref).n * v.n))

\* Binding compares, and writes a copy where the left-hand side has a variable.
RECURSIVE apply_binding_operator(_, _, _)
apply_binding_operator(st, v, w) ==
    LET lhs == read_ref(st, v)
        rhs == read_ref(st, w)
        copy == clone_value(st, rhs)
        ls == st.regions[lhs.n]
        rs == st.regions[rhs.n]
        Both(acc, k) == IF acc.ok THEN apply_binding_operator(acc.st, ls[k], rs[k]) ELSE acc
    IN  CASE lhs.kind = "Binding" -> [st |-> write(copy.st, lhs.n, copy.v), ok |-> TRUE]
          [] lhs.kind \notin HeapKinds -> [st |-> st, ok |-> lhs.n = rhs.n]
          [] lhs.i # rhs.i \/ Len(ls) # Len(rs) -> [st |-> st, ok |-> FALSE]
          [] OTHER -> FoldLeft(Both, [st |-> st, ok |-> TRUE], [k \in 1..Len(ls) |-> k])
=============================================================================

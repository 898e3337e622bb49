---------------------------- MODULE ScalarNative ----------------------------
(***************************************************************************)
(* Native code of scalar rules: emit_eval_expr, the callables of recursive *)
(* programs, and the part of x86-64 that the emitted code uses.            *)
(*                                                                         *)
(* Code is a sequence of instructions; a conditional jump over a block is  *)
(* an instruction that holds the block.  The result is left in rax.        *)
(***************************************************************************)
EXTENDS ScalarSource, MagicDivision, SequencesExt

CONSTANT StackLimit   \* words of stack a run may use

ASSUME StackAssumption == StackLimit \in Nat

Registers == {"rax", "rcx", "rdx", "r8", "rdi", "rsi", "rbx", "r15"}

Mov(dst, src) == <<"mov", dst, src>>
Imm(dst, n) == <<"imm", dst, n>>
Push(r) == <<"push", r>>
Pop(r) == <<"pop", r>>
StoreRax(slot) == <<"store", slot>>              \* rax, to a word of the frame
Op(name, dst, src) == <<name, dst, src>>
ShiftBy(name, r, k) == <<"shift", name, r, k>>   \* by a constant
Cqo == <<"cqo">>
Idiv(r) == <<"idiv", r>>

-----------------------------------------------------------------------------
(* Which register conventions a site takes *)

\* is_simple_operand: a leaf that can be loaded without touching rax.
IsSimple(e) == Kind(e) \in {"num", "field", "scalar"}

\* subtree_has_call_crossing_binop: some operator below wants to keep its
\* left operand while it evaluates its right one.  BuiltinOps always push.
\* A call is looked through to its argument, not to the callee.
HasCrossing(e) ==
    \E x \in Parts(e) :
        /\ Kind(x) = "bin" /\ x[2] \in ArithOps \cup CompareOps
        /\ ~IsSimple(x[4])

\* Variant: the right operand is not searched.
UseR15Always(r) == ~IsSimple(r)

\* use_r15_save
UseR15(r) == ~IsSimple(r) /\ ~HasCrossing(r)

\* body_uses_r15_save
BodyUsesR15(e) ==
    \E x \in Parts(e) :
        /\ Kind(x) = "bin" /\ x[2] \in ArithOps \cup CompareOps
        /\ UseR15(x[4])

-----------------------------------------------------------------------------
(* emit_eval_expr.  ctx.labels: the rules with code of their own, called;  *)
(* any other rule is inlined.  ctx.inRbx: the parameter lives in rbx       *)
(* instead of the frame.  ctx.span: the declared range of the field.       *)
(* ctx.offsets: the words of the frame by name; the fields of all records  *)
(* in scope and the locals share these names.                              *)

\* The frame of the record loop: the field v is in its first word.
RecordContext(labels, inRbx, span) ==
    [labels |-> labels, inRbx |-> inRbx, span |-> span,
     offsets |-> [x \in {"v"} |-> 1], field |-> "v", scalar |-> "v"]

NameOf(ctx, leaf) ==
    CASE Kind(leaf) = "field" -> ctx.field
      [] Kind(leaf) = "scalar" -> ctx.scalar
      [] Kind(leaf) = "local" -> leaf[2]

LoadLeaf(ctx, leaf, r) ==
    IF ctx.inRbx THEN Mov(r, "rbx") ELSE <<"load", r, ctx.offsets[NameOf(ctx, leaf)]>>

SimpleInto(ctx, e, r) ==
    IF Kind(e) = "num" THEN Imm(r, e[2]) ELSE LoadLeaf(ctx, e, r)

PowerOfTwo(n) == n \in {2^k : k \in 0..(Bits - 2)}
LogTwo(n) == CHOOSE k \in 0..(Bits - 2) : 2^k = n
IsPower(e) == Kind(e) = "num" /\ PowerOfTwo(e[2])

NonNegative(e, span) == ComputeRange(e, span).known /\ ComputeRange(e, span).lo >= 0

\* Division by 2^k: a logical shift for a dividend known to be nonnegative,
\* else a negative dividend is biased by 2^k - 1 before the arithmetic shift.
DividePower(e, k, span) ==
    IF k = 0 THEN << >>
    ELSE IF NonNegative(e, span) THEN << ShiftBy("shr", "rax", k) >>
    ELSE << Cqo, ShiftBy("shr", "rdx", Bits - k), Op("add", "rax", "rdx"),
            ShiftBy("sar", "rax", k) >>

HasMagic(e) ==
    /\ Kind(e) = "num" /\ e[2] > 1
    /\ MagicUsable(e[2], 2^(Bits \div 2))

DivideMagic(d) ==
    << Imm("rcx", Signed(Magic(d, FloorPower(d)))), <<"umul", "rcx">>,
       ShiftBy("shr", "rdx", LogTwo(FloorPower(d))), Mov("rax", "rdx") >>

\* Operator encodings with the left operand in rax, the right one in rcx ...
ApplySimple(op) ==
    CASE op \in {"add", "sub", "mul"} -> << Op(op, "rax", "rcx") >>
      [] op = "div" -> << Cqo, Idiv("rcx") >>
      [] op = "mod" -> << Cqo, Idiv("rcx"), Mov("rax", "rdx") >>
      [] op \in CompareOps -> << <<"set", op, "rax", "rcx">> >>

\* ... and with the left one in rcx, the right one in rax.
ApplyHeld(op) ==
    CASE op \in {"add", "mul"} -> << Op(op, "rax", "rcx") >>
      [] op = "sub" -> << Op("sub", "rcx", "rax"), Mov("rax", "rcx") >>
      [] op = "div" -> << Mov("r8", "rax"), Mov("rax", "rcx"),
                          Cqo, Idiv("r8") >>
      [] op = "mod" -> << Mov("r8", "rax"), Mov("rax", "rcx"),
                          Cqo, Idiv("r8"), Mov("rax", "rdx") >>
      [] op \in CompareOps -> << <<"set", op, "rcx", "rax">> >>

\* Min, Max, the bit operations and the shifts, after the left operand was
\* pushed and the right one evaluated.
ApplyBuiltin(op) ==
    IF op \in {"min", "max"}
    THEN << Pop("rcx"), <<"cmov", IF op = "min" THEN "lt" ELSE "gt">> >>
    ELSE << Mov("rcx", "rax"), Pop("rax"), Op(op, "rax", "rcx") >>

ApplyUnary(op) ==
    CASE op = "neg" -> << <<"neg", "rax">> >>
      [] op = "bnot" -> << <<"not", "rax">> >>
      [] op = "not" -> << <<"flip", "rax">> >>
      [] op = "abs" -> << Cqo, Op("bxor", "rax", "rdx"),
                          Op("sub", "rax", "rdx") >>

RECURSIVE Emit(_, _, _)

\* The literal folding of the emitter itself.
EmitFolds(op, l, r) ==
    /\ Kind(l) = "num" /\ Kind(r) = "num"
    /\ op \in {"add", "sub", "mul", "div"}
    /\ ~Failed(Arith(op, l[2], r[2]))

\* The first case of the emitter that applies to an operator site.
Strategy(op, l, r, span) ==
    CASE EmitFolds(op, l, r) -> "fold"
      [] ~EmitFolds(op, l, r) /\ op \in {"mul", "div"} /\ IsPower(r) -> "shift"
      [] /\ op = "div" /\ ~EmitFolds(op, l, r) /\ ~IsPower(r)
         /\ HasMagic(r) /\ NonNegative(l, span) -> "magic"
      [] /\ op = "mul" /\ ~EmitFolds(op, l, r)
         /\ IsNumber(l, 0) \/ IsNumber(r, 0) -> "zero"
      [] op = "mul" /\ ~EmitFolds(op, l, r) /\ IsNumber(l, 1) -> "right"
      [] op \in {"add", "sub"} /\ ~EmitFolds(op, l, r) /\ IsNumber(r, 0) -> "left"
      [] OTHER -> IF IsSimple(r) THEN "simple" ELSE "held"

\* Where the left operand waits while the right one is evaluated.
EmitHeld(rules, ctx, op, l, r) ==
    LET held == ctx.inRbx /\ UseR15(r)
    IN  Emit(rules, ctx, l)
        \o (IF held THEN << Mov("r15", "rax") >> ELSE << Push("rax") >>)
        \o Emit(rules, ctx, r)
        \o (IF held THEN << Mov("rcx", "r15") >> ELSE << Pop("rcx") >>)
        \o ApplyHeld(op)

\* Multiplication by zero still evaluates an operand that can fail.
EmitZero(rules, ctx, kept) ==
    (IF CanDiscard(kept, ctx.span) THEN << >> ELSE Emit(rules, ctx, kept))
    \o << Op("bxor", "rax", "rax") >>

EmitAs(strategy, rules, ctx, op, l, r) ==
    CASE strategy = "fold" -> << Imm("rax", Arith(op, l[2], r[2])[2]) >>
      [] strategy = "shift" ->
            Emit(rules, ctx, l)
            \o (IF op = "mul" THEN << ShiftBy("shl", "rax", LogTwo(r[2])) >>
                ELSE DividePower(l, LogTwo(r[2]), ctx.span))
      [] strategy = "magic" -> Emit(rules, ctx, l) \o DivideMagic(r[2])
      [] strategy = "zero" ->
            EmitZero(rules, ctx, IF IsNumber(r, 0) THEN l ELSE r)
      [] strategy = "left" -> Emit(rules, ctx, l)
      [] strategy = "right" -> Emit(rules, ctx, r)
      [] strategy = "simple" ->
            Emit(rules, ctx, l)
            \o << SimpleInto(ctx, r, "rcx") >> \o ApplySimple(op)
      [] strategy = "held" -> EmitHeld(rules, ctx, op, l, r)

EmitBinary(rules, ctx, op, l, r) ==
    EmitAs(Strategy(op, l, r, ctx.span), rules, ctx, op, l, r)

EmitIf(truth, test, yes, no) ==
    CASE truth = "always" -> yes
      [] truth = "never" -> no
      [] truth = "open" -> test \o << <<"branch", yes, no>> >>

\* A rule with a label is called with its argument in rdi.  Any other rule
\* is inlined: its body is emitted over the caller's own field, whatever the
\* argument of the call is.
EmitCall(rules, ctx, name, arg) ==
    IF name \in ctx.labels
    THEN (IF arg = Input THEN << LoadLeaf(ctx, Field, "rdi") >>
          ELSE Emit(rules, ctx, arg) \o << Mov("rdi", "rax") >>)
         \o << <<"call", name>> >>
    ELSE Emit(rules, ctx, rules[name])

Emit(rules, ctx, e) ==
    CASE Kind(e) = "num" -> << Imm("rax", e[2]) >>
      [] Kind(e) \in {"field", "scalar", "local"} -> << LoadLeaf(ctx, e, "rax") >>
      [] Kind(e) = "un" -> Emit(rules, ctx, e[3]) \o ApplyUnary(e[2])
      [] Kind(e) = "bin" /\ e[2] \in LogicOps ->
            Emit(rules, ctx, e[3])
            \o << <<"unless", e[2] = "or", Emit(rules, ctx, e[4])>> >>
      [] Kind(e) = "bin" /\ e[2] \in BuiltinOps ->
            Emit(rules, ctx, e[3]) \o << Push("rax") >>
            \o Emit(rules, ctx, e[4]) \o ApplyBuiltin(e[2])
      [] Kind(e) = "bin" /\ e[2] \in ArithOps \cup CompareOps ->
            EmitBinary(rules, ctx, e[2], e[3], e[4])
      [] Kind(e) = "if" ->
            EmitIf(StaticTruth(e[2], ctx.span),
                   Emit(rules, ctx, e[2]), Emit(rules, ctx, e[3]), Emit(rules, ctx, e[4]))
      [] Kind(e) = "call" -> EmitCall(rules, ctx, e[2], e[3])

-----------------------------------------------------------------------------
(* Whole programs *)

\* The rules reachable from a rule, itself excluded unless it is on a cycle.
RECURSIVE ReachedFrom(_, _)
ReachedFrom(rules, reached) ==
    LET next == reached \cup UNION {Callees(rules[r]) : r \in reached}
    IN  IF next = reached THEN reached ELSE ReachedFrom(rules, next)

\* detect_native_recursion
Recursive(rules, r) ==
    \E s \in ReachedFrom(rules, {r}) :
        s \in ReachedFrom(rules, Callees(rules[s]))

\* The rules that get code of their own: none in a program without
\* recursion, else the entry and the rules that reach a cycle.
Labels(rules, entry) ==
    IF Recursive(rules, entry)
    THEN {entry} \cup {r \in ReachedFrom(rules, {entry}) : Recursive(rules, r)}
    ELSE {}

\* emit_callable_into for a one-field scalar rule without lets: the parameter
\* is kept in rbx, and r15 is saved if a site of the body uses it.  The body
\* is always pure scalar arithmetic here.
Callable(rules, labels, span, r) ==
    LET ctx == RecordContext(labels, TRUE, span)
        saves == BodyUsesR15(rules[r])
    IN  << <<"enter">>, Push("rbx") >>
        \o (IF saves THEN << Push("r15") >> ELSE << >>)
        \o << Mov("rbx", "rdi") >>
        \o Emit(rules, ctx, rules[r])
        \o (IF saves THEN << Pop("r15") >> ELSE << >>)
        \o << Pop("rbx"), <<"pop rbp">>, <<"ret">> >>

\* emit_bounds_check: a field with a declared range is checked when it is
\* loaded (no check for the full range).  Arguments of calls are not.
CheckBounds(span) ==
    IF span = Between(MinWord, MaxWord) THEN << >>
    ELSE << <<"check", span.lo, span.hi>> >>

\* The body of the record loop: the field goes to its slot, and the entry is
\* either called or expanded in place.
NativeProgram(rules, entry, span) ==
    LET labels == Labels(rules, entry)
        ctx == RecordContext(labels, FALSE, span)
    IN  [labels |-> [r \in labels |-> Callable(rules, labels, span, r)],
         start  |-> CheckBounds(span) \o
                    IF labels = {} THEN Emit(rules, ctx, rules[entry])
                    ELSE << LoadLeaf(ctx, Field, "rdi"), <<"call", entry>> >>]

-----------------------------------------------------------------------------
(* The machine.  The stack grows to the right; rbp is the depth at which    *)
(* the current frame starts, so that [rbp - 8 * n] is its n-th word.        *)

ReturnAddress == 4 * Half      \* not a word

Machine(frame) ==
    [reg |-> [r \in Registers |-> 0], stack |-> frame, rbp |-> 0,
     trapped |-> FALSE]

Trap(m) == [m EXCEPT !.trapped = TRUE]
SetReg(m, r, n) == [m EXCEPT !.reg[r] = n]
Top(m) == Last(m.stack)
Pushed(m, n) ==
    IF Len(m.stack) >= StackLimit THEN Trap(m)
    ELSE [m EXCEPT !.stack = Append(@, n)]
Popped(m) == [m EXCEPT !.stack = Front(@)]

\* mul: rdx:rax = rax * reg, unsigned.
Multiply(m, r) ==
    LET product == Unsigned(m.reg["rax"]) * Unsigned(m.reg[r])
    IN  SetReg(SetReg(m, "rax", Signed(product % (2 * Half))),
               "rdx", Signed(product \div (2 * Half)))

\* idiv with rdx:rax the sign extension of rax: a fault on zero and MIN / -1.
Divide(m, r) ==
    LET a == m.reg["rax"]
        b == m.reg[r]
    IN  IF DivisionFails(a, b) THEN Trap(m)
        ELSE SetReg(SetReg(m, "rax", Quot(a, b)), "rdx", Rem(a, b))

Alu(op, a, b) ==
    IF op \in {"add", "sub", "mul"} THEN Arith(op, a, b)[2] ELSE Builtin(op, a, b)

\* sar keeps the sign; a negative word is rounded down.
Shifted(op, a, k) == IF op = "sar" THEN a \div 2^k ELSE Builtin(op, a, k)

RECURSIVE Execute(_, _, _)

Step(labels, i, m) ==
    CASE i[1] = "mov" -> SetReg(m, i[2], m.reg[i[3]])
      [] i[1] = "imm" -> SetReg(m, i[2], i[3])
      [] i[1] = "check" -> IF m.stack[1] \in i[2]..i[3] THEN m ELSE Trap(m)
      [] i[1] = "load" ->
            IF m.rbp + i[3] \in DOMAIN m.stack
            THEN SetReg(m, i[2], m.stack[m.rbp + i[3]]) ELSE Trap(m)
      [] i[1] = "store" -> [m EXCEPT !.stack[m.rbp + i[2]] = m.reg["rax"]]
      [] i[1] = "push" -> Pushed(m, m.reg[i[2]])
      [] i[1] = "pop" -> Popped(SetReg(m, i[2], Top(m)))
      [] i[1] = "cqo" -> SetReg(m, "rdx", IF m.reg["rax"] < 0 THEN -1 ELSE 0)
      [] i[1] = "idiv" -> Divide(m, i[2])
      [] i[1] = "umul" -> Multiply(m, i[2])
      [] i[1] \in {"add", "sub", "mul"} \cup BuiltinOps ->
            SetReg(m, i[2], Alu(i[1], m.reg[i[2]], m.reg[i[3]]))
      [] i[1] = "shift" -> SetReg(m, i[3], Shifted(i[2], m.reg[i[3]], i[4]))
      [] i[1] = "neg" -> SetReg(m, i[2], Wrap(-m.reg[i[2]]))
      [] i[1] = "not" -> SetReg(m, i[2], -m.reg[i[2]] - 1)
      [] i[1] = "flip" -> SetReg(m, i[2], Builtin("bxor", m.reg[i[2]], 1))
      [] i[1] = "set" ->
            SetReg(m, "rax",
                   IF Compare(i[2], m.reg[i[3]], m.reg[i[4]]) THEN 1 ELSE 0)
      [] i[1] = "cmov" ->
            IF Compare(i[2], m.reg["rcx"], m.reg["rax"])
            THEN SetReg(m, "rax", m.reg["rcx"]) ELSE m
      [] i[1] = "unless" ->
            IF (m.reg["rax"] # 0) = i[2] THEN m ELSE Execute(labels, i[3], m)
      [] i[1] = "branch" ->
            Execute(labels, IF m.reg["rax"] # 0 THEN i[2] ELSE i[3], m)
      [] i[1] = "call" ->
            LET inside == Pushed(m, ReturnAddress)
            IN  IF inside.trapped THEN inside
                ELSE Execute(labels, labels[i[2]], inside)
      [] i[1] = "enter" ->
            LET saved == Pushed(m, m.rbp)
            IN  [saved EXCEPT !.rbp = Len(saved.stack)]
      [] i[1] = "pop rbp" -> Popped([m EXCEPT !.rbp = Top(m)])
      [] i[1] = "ret" ->
            IF Top(m) = ReturnAddress THEN Popped(m) ELSE Trap(m)

Execute(labels, code, m) ==
    IF code = << >> \/ m.trapped THEN m
    ELSE Execute(labels, Tail(code), Step(labels, Head(code), m))

\* What the emitted program computes for one record: rax, or a fault.
Answer(m) == IF m.trapped THEN Error ELSE Num(m.reg["rax"])
RunNative(image, v) == Answer(Execute(image.labels, image.start, Machine(<< v >>)))

=============================================================================

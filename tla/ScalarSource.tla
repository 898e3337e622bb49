---------------------------- MODULE ScalarSource ----------------------------
(***************************************************************************)
(* Scalar rules: their value (interpreter.rs, eval_expr), their interval   *)
(* (verifier.rs, compute_range) and the rewriting every artifact is built  *)
(* from (optimizer.rs, optimize_expr).                                     *)
(*                                                                         *)
(* An expression is a tuple headed by its kind:                            *)
(*   <<"num", n>>  <<"field">>  <<"un", op, x>>  <<"bin", op, l, r>>       *)
(*   <<"if", c, t, e>>  <<"call", rule, arg>>                              *)
(* All rules take the one-field concept C { v }.  <<"field">> is n.v; the  *)
(* argument of a call is <<"input">>, the whole record handed on, or the   *)
(* expression of C { v: ... }.  A program maps rule names to bodies.       *)
(*                                                                         *)
(* Rules over a collection (Collections) have more leaves, <<"local", x>>  *)
(* and <<"scalar">>, and <<"all", predicate>>, <<"any", predicate>>,       *)
(* <<"map", body>>, <<"filter", predicate>>, <<"fold", init, acc, body>>   *)
(* and <<"fold_bytes", init, body>>.  <<"value", out>> is an expression    *)
(* the interpreter has already evaluated.                                  *)
(***************************************************************************)
EXTENDS Intervals, Sequences, Bitwise, FiniteSets

CONSTANT Bits        \* the width of a word; 64 in the program

ASSUME BitsAssumption == Bits \in Nat /\ 2^Bits = 2 * Half

Number(n) == <<"num", n>>
Field == <<"field">>
Input == <<"input">>

Kind(e) == e[1]
IsNumber(e, n) == e = Number(n)

ArithOps == {"add", "sub", "mul", "div", "mod"}
CompareOps == {"gt", "lt", "ge", "le", "eq", "ne"}
LogicOps == {"and", "or"}
\* Primitives with two operands: expressions of their own, not BinOps.
BuiltinOps == {"min", "max", "band", "bor", "bxor", "shl", "shr"}

-----------------------------------------------------------------------------
(* Values.  A rule ends with a number, a bool, a RuntimeError, or the panic *)
(* of Rust's division overflow.  Sums and products wrap: the release build. *)

Num(n) == <<"n", n>>
Bool(b) == <<"b", b>>
Error == <<"error">>
Panic == <<"panic">>
Failed(out) == out \in {Error, Panic}

Unsigned(n) == n % (2 * Half)
Signed(u) == Wrap(u)

\* x86 and wrapping_shl / wrapping_shr use the count's low bits only.
Count(n) == n % Bits
ShiftLeft(a, k) == Wrap(a * 2^Count(k))
ShiftRight(a, k) == Signed(Unsigned(a) \div 2^Count(k))

Arith(op, a, b) ==
    CASE op = "add" -> Num(Wrap(a + b))
      [] op = "sub" -> Num(Wrap(a - b))
      [] op = "mul" -> Num(Wrap(a * b))
      [] op \in {"div", "mod"} /\ b = 0 -> Error
      [] op \in {"div", "mod"} /\ b # 0 /\ DivisionFails(a, b) -> Panic
      [] op = "div" /\ ~DivisionFails(a, b) -> Num(Quot(a, b))
      [] op = "mod" /\ ~DivisionFails(a, b) -> Num(Rem(a, b))

Builtin(op, a, b) ==
    CASE op = "min" -> Lower(a, b)
      [] op = "max" -> Upper(a, b)
      [] op = "band" -> Signed(Unsigned(a) & Unsigned(b))
      [] op = "bor"  -> Signed(Unsigned(a) | Unsigned(b))
      [] op = "bxor" -> Signed(Unsigned(a) ^^ Unsigned(b))
      [] op = "shl"  -> ShiftLeft(a, b)
      [] op = "shr"  -> ShiftRight(a, b)

Unary(op, out) ==
    CASE op = "neg"  -> Num(Wrap(-out[2]))
      [] op = "abs"  -> Num(Wrap(Magnitude(out[2])))
      [] op = "bnot" -> Num(-out[2] - 1)
      [] op = "not"  -> Bool(~out[2])

Binary(op, a, b) ==
    CASE op \in ArithOps -> Arith(op, a, b)
      [] op \in CompareOps -> Bool(Compare(op, a, b))
      [] op \in BuiltinOps -> Num(Builtin(op, a, b))

\* eval_expr.  The operands of everything but and, or and if are evaluated
\* from left to right, and the first failure is the result.
RECURSIVE Eval(_, _, _)
Eval(rules, e, v) ==
    CASE Kind(e) = "num" -> Num(e[2])
      [] Kind(e) = "value" -> e[2]
      [] Kind(e) = "field" -> Num(v)
      [] Kind(e) = "un" ->
            LET x == Eval(rules, e[3], v)
            IN  IF Failed(x) THEN x ELSE Unary(e[2], x)
      [] Kind(e) = "bin" /\ e[2] \in LogicOps ->
            LET l == Eval(rules, e[3], v)
            IN  IF Failed(l) \/ l = Bool(e[2] = "or")
                THEN l ELSE Eval(rules, e[4], v)
      [] Kind(e) = "bin" /\ e[2] \notin LogicOps ->
            LET l == Eval(rules, e[3], v)
                r == Eval(rules, e[4], v)
            IN  IF Failed(l) THEN l
                ELSE IF Failed(r) THEN r ELSE Binary(e[2], l[2], r[2])
      [] Kind(e) = "if" ->
            LET c == Eval(rules, e[2], v)
            IN  IF Failed(c) THEN c
                ELSE Eval(rules, IF c[2] THEN e[3] ELSE e[4], v)
      [] Kind(e) = "call" /\ e[3] = Input -> Eval(rules, rules[e[2]], v)
      [] Kind(e) = "call" /\ e[3] # Input ->
            LET a == Eval(rules, e[3], v)
            IN  IF Failed(a) THEN a ELSE Eval(rules, rules[e[2]], a[2])

-----------------------------------------------------------------------------
(* compute_range: the interval of an expression, given that of the field.  *)

RECURSIVE ComputeRange(_, _)
ComputeRange(e, span) ==
    CASE Kind(e) = "num" -> Between(e[2], e[2])
      [] Kind(e) = "field" -> span
      [] Kind(e) = "bin" /\ e[2] \in ArithOps ->
            LET l == ComputeRange(e[3], span)
                r == ComputeRange(e[4], span)
            IN (CASE e[2] = "add" -> AddRange(l, r)
                  [] e[2] = "sub" -> SubRange(l, r)
                  [] e[2] = "mul" -> MulRange(l, r)
                  [] e[2] = "div" -> DivRange(l, r)
                  [] e[2] = "mod" -> ModRange(l, r))
      [] Kind(e) = "un" /\ e[2] = "neg" -> NegRange(ComputeRange(e[3], span))
      [] Kind(e) = "if" -> JoinRange(ComputeRange(e[3], span), ComputeRange(e[4], span))
      [] OTHER -> Unknown

\* can_discard_scalar_eval: dropping the evaluation cannot drop a failure.
RECURSIVE CanDiscard(_, _)
CanDiscard(e, span) ==
    CASE Kind(e) \in {"num", "field", "scalar", "local"} -> TRUE
      [] Kind(e) = "bin" /\ e[2] \notin BuiltinOps ->
            /\ CanDiscard(e[3], span)
            /\ CanDiscard(e[4], span)
            /\ e[2] \in ArithOps => ComputeRange(e, span).known
      [] Kind(e) = "un" /\ e[2] = "neg" ->
            CanDiscard(e[3], span) /\ ComputeRange(e, span).known
      [] Kind(e) = "un" /\ e[2] = "not" -> CanDiscard(e[3], span)
      [] Kind(e) = "if" -> \A i \in 2..4 : CanDiscard(e[i], span)
      [] OTHER -> FALSE

\* A comparison is decided only if dropping its evaluation drops no failure.
StaticTruth(e, span) ==
    IF Kind(e) = "bin" /\ CanDiscard(e, span)
    THEN TruthOf(e[2], ComputeRange(e[3], span), ComputeRange(e[4], span)) ELSE "open"

-----------------------------------------------------------------------------
(* optimize_expr, bottom up.  A folded comparison becomes the number 0 or 1. *)

AsWord(out) == IF out[1] = "b" THEN (IF out[2] THEN 1 ELSE 0) ELSE out[2]

OptimizedUnary(op, x) ==
    CASE op \in {"neg", "not"} /\ Kind(x) = "un" /\ x[2] = op -> x[3]
      [] op \in {"neg", "abs"} /\ Kind(x) = "num" ->
            Number(Unary(op, Num(x[2]))[2])
      [] OTHER -> <<"un", op, x>>

\* Literal operands; a division that would fail is left to the run.
FoldsTo(op, l, r) ==
    LET out == Binary(op, l[2], r[2])
    IN  IF /\ Kind(l) = "num" /\ Kind(r) = "num"
           /\ op \in ArithOps \cup CompareOps \cup {"min", "max"}
           /\ ~Failed(out)
        THEN {Number(AsWord(out))} ELSE {}

\* x + 0, 0 + x, x - 0, x * 0, x * 1, 1 * x and x / 1.
Identity(op, l, r, span) ==
    CASE op = "add" /\ IsNumber(r, 0) -> {l}
      [] op = "add" /\ ~IsNumber(r, 0) /\ IsNumber(l, 0) -> {r}
      [] op = "sub" /\ IsNumber(r, 0) -> {l}
      [] op = "mul" /\ \/ IsNumber(r, 0) /\ CanDiscard(l, span)
                       \/ IsNumber(l, 0) /\ CanDiscard(r, span)
            -> {Number(0)}
      [] op = "mul" /\ IsNumber(r, 1) -> {l}
      [] op = "mul" /\ ~IsNumber(r, 1) /\ IsNumber(l, 1) -> {r}
      [] op = "div" /\ IsNumber(r, 1) -> {l}
      [] OTHER -> {}

OptimizedBinary(op, l, r, span) ==
    LET folded == FoldsTo(op, l, r)
        simpler == Identity(op, l, r, span)
    IN  IF folded # {} THEN CHOOSE x \in folded : TRUE
        ELSE IF simpler # {} THEN CHOOSE x \in simpler : TRUE
        ELSE <<"bin", op, l, r>>

OptimizedIf(truth, c, t, e) ==
    CASE truth = "always" -> t
      [] truth = "never" -> e
      [] truth = "open" -> <<"if", c, t, e>>

RECURSIVE Optimized(_, _)
Optimized(e, span) ==
    CASE Kind(e) = "un" -> OptimizedUnary(e[2], Optimized(e[3], span))
      [] Kind(e) = "bin" ->
            OptimizedBinary(e[2], Optimized(e[3], span),
                            Optimized(e[4], span), span)
      [] Kind(e) = "if" ->
            LET c == Optimized(e[2], span)
            IN  OptimizedIf(StaticTruth(c, span), c, Optimized(e[3], span),
                            Optimized(e[4], span))
      [] Kind(e) = "call" -> <<"call", e[2], Optimized(e[3], span)>>
      [] Kind(e) \in {"all", "any", "map", "filter"} -> <<Kind(e), Optimized(e[2], span)>>
      [] Kind(e) = "fold" -> <<"fold", e[2], e[3], Optimized(e[4], span)>>
      [] Kind(e) = "fold_bytes" -> <<"fold_bytes", e[2], Optimized(e[3], span)>>
      [] OTHER -> e

\* Every expression below e, e included.
RECURSIVE Parts(_)
Parts(e) ==
    {e} \cup CASE Kind(e) = "un" -> Parts(e[3])
               [] Kind(e) = "bin" -> Parts(e[3]) \cup Parts(e[4])
               [] Kind(e) = "if" -> UNION {Parts(e[i]) : i \in 2..4}
               [] Kind(e) = "call" -> Parts(e[3])
               [] OTHER -> {}

\* The rules a body calls.
Callees(e) == {c[2] : c \in {x \in Parts(e) : Kind(x) = "call"}}

=============================================================================

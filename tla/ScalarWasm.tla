----------------------------- MODULE ScalarWasm -----------------------------
(***************************************************************************)
(* WebAssembly code of scalar rules (wasm.rs, emit_wasm_expr) and the part *)
(* of the WebAssembly machine that it uses.  Every rule is inlined; a bool *)
(* is the i64 zero or one.                                                 *)
(***************************************************************************)
EXTENDS ScalarSource, SequencesExt

\* The bit operations have no lowering: the compiler refuses the rule.
WasmRefuses(rules, reached) ==
    \E r \in reached : \E x \in Parts(rules[r]) :
        \/ Kind(x) = "bin" /\ x[2] \in BuiltinOps \ {"min", "max"}
        \/ Kind(x) = "un" /\ x[2] = "bnot"

\* The two scratch locals are written only once both operands are on the
\* stack: a nested min, max or abs uses the same locals.
SelectExtreme(op) ==
    << <<"set", "b">>, <<"set", "a">>, <<"get", "a">>, <<"get", "b">>,
       <<"get", "a">>, <<"get", "b">>,
       <<"compare", IF op = "min" THEN "lt" ELSE "gt">>, <<"select">> >>

SelectMagnitude ==
    << <<"tee", "a">>, <<"const", 0>>, <<"get", "a">>, <<"arith", "sub">>,
       <<"get", "a">>, <<"const", 0>>, <<"compare", "ge">>, <<"select">> >>

RECURSIVE EmitWasm(_, _)

\* Variant: the left operand is parked in its local before the right one is
\* evaluated.
EmitExtremeEarly(rules, op, l, r) ==
    EmitWasm(rules, l) \o << <<"set", "a">> >> \o EmitWasm(rules, r)
    \o << <<"set", "b">>, <<"get", "a">>, <<"get", "b">>, <<"get", "a">>,
          <<"get", "b">>, <<"compare", IF op = "min" THEN "lt" ELSE "gt">>,
          <<"select">> >>

\* The left operand of min and max stays on the operand stack.
EmitExtreme(rules, op, l, r) ==
    EmitWasm(rules, l) \o EmitWasm(rules, r) \o SelectExtreme(op)

EmitWasm(rules, e) ==
    CASE Kind(e) = "num" -> << <<"const", e[2]>> >>
      [] Kind(e) = "field" -> << <<"get", "v">> >>
      [] Kind(e) = "bin" /\ e[2] = "and" ->
            EmitWasm(rules, e[3])
            \o << <<"eqz">>, <<"if", << <<"const", 0>> >>, EmitWasm(rules, e[4])>> >>
      [] Kind(e) = "bin" /\ e[2] = "or" ->
            EmitWasm(rules, e[3])
            \o << <<"eqz">>, <<"if", EmitWasm(rules, e[4]), << <<"const", 1>> >> >> >>
      [] Kind(e) = "bin" /\ e[2] \in {"min", "max"} ->
            EmitExtreme(rules, e[2], e[3], e[4])
      [] Kind(e) = "bin" /\ e[2] \in ArithOps ->
            EmitWasm(rules, e[3]) \o EmitWasm(rules, e[4])
            \o << <<"arith", e[2]>> >>
      [] Kind(e) = "bin" /\ e[2] \in CompareOps ->
            EmitWasm(rules, e[3]) \o EmitWasm(rules, e[4])
            \o << <<"compare", e[2]>> >>
      [] Kind(e) = "if" ->
            EmitWasm(rules, e[2])
            \o << <<"if", EmitWasm(rules, e[3]), EmitWasm(rules, e[4])>> >>
      [] Kind(e) = "un" /\ e[2] = "not" -> EmitWasm(rules, e[3]) \o << <<"eqz">> >>
      [] Kind(e) = "un" /\ e[2] = "neg" ->
            << <<"const", 0>> >> \o EmitWasm(rules, e[3]) \o << <<"arith", "sub">> >>
      [] Kind(e) = "un" /\ e[2] = "abs" -> EmitWasm(rules, e[3]) \o SelectMagnitude
      [] Kind(e) = "call" -> EmitWasm(rules, rules[e[2]])

-----------------------------------------------------------------------------
(* The machine: an operand stack and three locals.  div_s traps on zero and *)
(* on MIN / -1; rem_s traps on zero only, and MIN rem -1 is 0.              *)

WasmMachine(v) ==
    [stack |-> << >>, local |-> [x \in {"v", "a", "b"} |-> IF x = "v" THEN v ELSE 0],
     trapped |-> FALSE]

Below(m, n) == SubSeq(m.stack, 1, Len(m.stack) - n)
Operand(m, n) == m.stack[Len(m.stack) - n + 1]
Replace(m, n, v) == [m EXCEPT !.stack = Append(Below(m, n), v)]
Flag(b) == IF b THEN 1 ELSE 0

WasmArith(op, a, b) ==
    IF op = "mod" /\ a = MinWord /\ b = -1 THEN Num(0) ELSE Arith(op, a, b)

RECURSIVE ExecuteWasm(_, _)

WasmStep(i, m) ==
    CASE i[1] = "const" -> Replace(m, 0, i[2])
      [] i[1] = "get" -> Replace(m, 0, m.local[i[2]])
      [] i[1] = "tee" -> [m EXCEPT !.local[i[2]] = Operand(m, 1)]
      [] i[1] = "set" ->
            [m EXCEPT !.local[i[2]] = Operand(m, 1), !.stack = Below(m, 1)]
      [] i[1] = "arith" ->
            LET out == WasmArith(i[2], Operand(m, 2), Operand(m, 1))
            IN  IF Failed(out) THEN [m EXCEPT !.trapped = TRUE]
                ELSE Replace(m, 2, out[2])
      [] i[1] = "compare" ->
            Replace(m, 2, Flag(Compare(i[2], Operand(m, 2), Operand(m, 1))))
      [] i[1] = "eqz" -> Replace(m, 1, Flag(Operand(m, 1) = 0))
      [] i[1] = "select" ->
            Replace(m, 3, IF Operand(m, 1) # 0 THEN Operand(m, 3) ELSE Operand(m, 2))
      [] i[1] = "if" ->
            ExecuteWasm(IF Operand(m, 1) # 0 THEN i[2] ELSE i[3],
                        [m EXCEPT !.stack = Below(m, 1)])

ExecuteWasm(code, m) ==
    IF code = << >> \/ m.trapped THEN m
    ELSE ExecuteWasm(Tail(code), WasmStep(Head(code), m))

\* What the exported function returns for one argument.
RunWasm(code, v) ==
    LET m == ExecuteWasm(code, WasmMachine(v))
    IN  IF m.trapped THEN Error ELSE Num(Last(m.stack))

=============================================================================

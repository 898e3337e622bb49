--------------------------- MODULE ContractNative ---------------------------
(***************************************************************************)
(* Native code of rules with a strict overflow contract                    *)
(* (native/bounded.rs, native/bounded/liveness.rs).                        *)
(*                                                                         *)
(* Every call is expanded.  Lets and intermediate values live in one pool  *)
(* of frame words: a let gives its word back after the last expression     *)
(* that reads it, an intermediate value after the expression it belongs    *)
(* to, and a field or let that is an operand is read where it already is.  *)
(***************************************************************************)
EXTENDS ContractSource, TextNative

-----------------------------------------------------------------------------
(* liveness.rs *)

Expressions(rule) == Append([i \in DOMAIN rule.lets |-> rule.lets[i][2]], rule.value)

\* The last expression that reads let i, not a later let of the same name;
\* zero if there is none.
LastRead(rule, i) ==
    LET name == rule.lets[i][1]
        Hidden(j) == \E k \in (i + 1)..(j - 1) : rule.lets[k][1] = name
        readers == {j \in (i + 1)..(Len(rule.lets) + 1) :
                       <<"name", name>> \in Subterms(Expressions(rule)[j]) /\ ~Hidden(j)}
    IN  Max({0} \cup readers)

\* Slots::allocate and Slots::release
Allocate(s) ==
    IF s.free # {} THEN [s EXCEPT !.free = @ \ {Min(s.free)}] ELSE [s EXCEPT !.count = @ + 1]
Allocated(s) == IF s.free # {} THEN Min(s.free) ELSE s.count + 1
FreeSlots(s, slots) == [s EXCEPT !.free = @ \cup slots]

-----------------------------------------------------------------------------
(* bounded.rs.  The state of the emitter is [code, free, count, held], held *)
(* the words of intermediate values; a word is the number of a slot, after  *)
(* those of the input fields.                                               *)

FieldWord(concept, f) == CHOOSE i \in DOMAIN concept : concept[i].name = f

\* numeric_local: the value in rax moves to a slot.
Keep(s) == Store(Allocate(s), "rax", Allocated(s))

\* save
Save(s) == [Keep(s) EXCEPT !.held = Append(@, Allocated(s))]

SaveOperand(s, operands) == With(Save(s), Append(operands, Allocated(s)))

\* The words of the operands since mark are given back.
GiveBack(s, mark) ==
    FreeSlots([s EXCEPT !.held = SubSeq(@, 1, mark)],
              {s.held[i] : i \in (mark + 1)..Len(s.held)})

\* A let no one reads is evaluated and not kept.
BindSlot(acc, i, name, read, s) ==
    IF read THEN [s |-> Keep(s), env |-> (name :> Allocated(s)) @@ acc.env,
                  slots |-> (i :> Allocated(s)) @@ acc.slots]
    ELSE [acc EXCEPT !.s = s, !.env = [m \in DOMAIN @ \ {name} |-> acc.env[m]]]

RECURSIVE EmitScalar(_, _, _, _, _), EmitStrict(_, _, _, _)

\* The operands of an operator: borrowed where they are, or saved.
EmitOperand(rules, concept, acc, e, env) ==
    CASE Kind(e) = "name" -> With(acc.s, Append(acc.v, env[e[2]]))
      [] Kind(e) = "get" -> With(acc.s, Append(acc.v, FieldWord(concept, e[3])))
      [] OTHER -> SaveOperand(EmitScalar(rules, concept, acc.s, e, env), acc.v)

\* expr_inner
EmitValue(rules, concept, s, e, env) ==
    LET Sub(t, x) == EmitScalar(rules, concept, t, x, env)
        Operands(exprs) ==
            FoldLeft(LAMBDA acc, x : EmitOperand(rules, concept, acc, x, env),
                     With(s, << >>), exprs)
        IsNum(x) == Kind(x) = "num"
    IN  CASE Kind(e) = "num" -> Asm(s, <<"imm", e[2]>>)
          [] Kind(e) = "name" -> Load(s, "rax", env[e[2]])
          [] Kind(e) = "get" -> Load(s, "rax", FieldWord(concept, e[3]))
          [] Kind(e) = "call" -> EmitStrict(rules, concept, s, e[2])
          [] Kind(e) = "if" ->
                LET test == Jump(Sub(s, e[2]), "zero")
                    yes == Jump(Sub(test, e[3]), "always")
                    no == Sub(FinishJump(yes, Len(test.code)), e[4])
                IN  FinishJump(no, Len(yes.code))
          [] Kind(e) = "un" ->
                LET x == Operands(<< e[3] >>)
                IN  Asm(Load(x.s, "rax", x.v[1]), <<e[2]>>)
          [] Kind(e) = "bin" /\ e[2] \in LogicOps ->
                LET test == Jump(Sub(s, e[3]), IF e[2] = "and" THEN "zero" ELSE "nonzero")
                IN  FinishJump(Sub(test, e[4]), Len(test.code))
          [] Kind(e) = "bin" /\ e[2] = "eq" /\ IsNum(e[3]) /\ IsNum(e[4]) ->
                Asm(s, <<"imm", IF e[3] = e[4] THEN 1 ELSE 0>>)
          [] Kind(e) = "bin" /\ e[2] \notin LogicOps /\ ~(e[2] = "eq" /\ IsNum(e[3]) /\ IsNum(e[4])) ->
                LET x == Operands(<< e[3], e[4] >>)
                    loaded == Load(Load(x.s, "rax", x.v[1]), "rcx", x.v[2])
                IN  [loaded EXCEPT !.code = @ \o ApplyText(e[2])]

\* Emit::expr: the words of the expression's own operands are given back.
EmitScalar(rules, concept, s, e, env) ==
    GiveBack(Strictly(LAMBDA t : EmitValue(rules, concept, t, e, env), s), Len(s.held))

\* numeric_rule
EmitStrict(rules, concept, s, r) ==
    LET rule == rules[r]
        n == Len(rule.lets)
        last == [i \in 1..n |-> LastRead(rule, i)]
        Dead(slots, at) == {slots[i] : i \in {k \in DOMAIN slots : last[k] = at}}
        Bind(acc, i) ==
            BindSlot(acc, i, rule.lets[i][1], last[i] # 0,
                     FreeSlots(EmitScalar(rules, concept, acc.s, rule.lets[i][2], acc.env),
                               Dead(acc.slots, i)))
        bound == FoldLeft(Bind, [s |-> s, env |-> << >>, slots |-> << >>], [i \in 1..n |-> i])
    IN  FreeSlots(EmitScalar(rules, concept, bound.s, rule.value, bound.env),
                  Dead(bound.slots, n + 1))

\* prepare_body: the fields have the first words of the frame.
StrictImage(s, concept) ==
    [code |-> s.code, words |-> s.count, place |-> [i \in 1..s.count |-> i],
     fields |-> [i \in DOMAIN concept |-> <<concept[i].name, <<"number", i>>>>],
     extent |-> 0]

StrictFragment(p) ==
    LET concept == RuleInput(p, "main")
        empty == [code |-> << >>, free |-> {}, count |-> Len(concept), held |-> << >>]
        rules == [r \in StrictRules(p) |-> LowerRule(p, r)]
    IN  StrictImage(EmitStrict(rules, concept, empty, "main"), concept)

\* The result is in rax after the body.
RunStrict(image, record) ==
    LET m == ExecuteText(image, 1, TextMachine(image, record))
    IN  IF m.lost THEN Stray ELSE m.reg["rax"]

=============================================================================

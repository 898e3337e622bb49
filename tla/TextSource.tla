----------------------------- MODULE TextSource -----------------------------
(***************************************************************************)
(* Rules with bounded text results: their value (interpreter.rs) and the   *)
(* analysis that accepts them (text_bounds.rs).                            *)
(*                                                                         *)
(* The expressions of ScalarSource without its field and input, and        *)
(*   <<"text", s>>  <<"name", x>>  <<"get", e, f>>  <<"concat", args>>     *)
(*   <<"record", concept, << <<f, e>>, ... >> >>                           *)
(* with the unary operator "length".  Text is a sequence of bytes.         *)
(*                                                                         *)
(* A program has rules [input, type, max, overflow, lets, value], whose    *)
(* input is bound to "it" and whose overflow contract is << >> or the      *)
(* bounds of the result, and concepts: sequences of fields                 *)
(* [name, type, ranged, lo, hi].                                           *)
(***************************************************************************)
EXTENDS ScalarSource, SequencesExt

CONSTANTS
    NumberCapacity,   \* bytes of the longest number; 20 in the program
    MaxCapacity       \* bytes of the longest text; 1048576 in the program

ASSUME CapacityAssumption ==
    /\ NumberCapacity \in Nat
    /\ MaxCapacity \in 0..MaxWord

Unlimited == -1        \* a rule without text [..N]

Str(s) == <<"s", s>>
Rec(fields) == <<"r", fields>>

RuleInput(p, r) == p.concepts[p.rules[r].input]
FieldNames(concept) == {concept[i].name : i \in DOMAIN concept}
FieldOf(concept, f) == SelectSeq(concept, LAMBDA d : d.name = f)[1]

\* Decimal digits (to_string, emit_itoa_to_buffer).
Digits == <<"0", "1", "2", "3", "4", "5", "6", "7", "8", "9">>
RECURSIVE Unsigned10(_)
Unsigned10(n) ==
    (IF n < 10 THEN << >> ELSE Unsigned10(n \div 10)) \o << Digits[(n % 10) + 1] >>
Decimal(n) == (IF n < 0 THEN <<"-">> ELSE << >>) \o Unsigned10(Magnitude(n))

RECURSIVE Subterms(_)
Subterms(e) ==
    {e} \cup CASE Kind(e) \in {"un", "call"} -> Subterms(e[3])
               [] Kind(e) = "get" -> Subterms(e[2])
               [] Kind(e) = "bin" -> Subterms(e[3]) \cup Subterms(e[4])
               [] Kind(e) = "if" -> UNION {Subterms(e[i]) : i \in 2..4}
               [] Kind(e) = "concat" -> UNION {Subterms(x) : x \in Range(e[2])}
               [] Kind(e) = "record" -> UNION {Subterms(f[2]) : f \in Range(e[3])}
               [] OTHER -> {}

Bodies(rule) == {rule.value} \cup {l[2] : l \in Range(rule.lets)}
CalledBy(rule) ==
    {e[2] : e \in {x \in UNION {Subterms(b) : b \in Bodies(rule)} : Kind(x) = "call"}}

\* participating: the rules with a bound, whatever calls one of them, and
\* everything they call.
RECURSIVE Participating(_, _)
Participating(rules, active) ==
    LET caught == {r \in DOMAIN rules : r \in active \/ CalledBy(rules[r]) \cap active # {}}
        next == active \cup caught \cup UNION {CalledBy(rules[r]) : r \in caught}
    IN  IF next = active THEN active ELSE Participating(rules, next)

ActiveRules(p) ==
    Participating(p.rules, {r \in DOMAIN p.rules : p.rules[r].max # Unlimited})

\* The same closure over the rules with a strict overflow contract.
StrictRules(p) ==
    Participating(p.rules, {r \in DOMAIN p.rules : p.rules[r].overflow # << >>})

-----------------------------------------------------------------------------
(* The interpreter *)

FitsField(d, v) ==
    CASE d.type = "text" -> d.ranged => Len(v[2]) <= d.hi
      [] d.type = "number" -> d.ranged => v[2] \in d.lo..d.hi

\* The input guards of eval_rule_with_value.
ValidInput(p, r, fields) ==
    \A i \in DOMAIN RuleInput(p, r) :
        LET d == RuleInput(p, r)[i] IN FitsField(d, fields[d.name])

Joined(values) ==
    FoldLeft(LAMBDA s, v : s \o (IF v[1] = "s" THEN v[2] ELSE Decimal(v[2])), << >>, values)

\* The first failure of a sequence of evaluations, if there is one.
FirstFailure(values) == SelectSeq(values, Failed)

\* A let that fails ends the rule, and so does a text beyond its capacity.
BindValue(acc, name, v) ==
    IF acc.failed # << >> THEN acc
    ELSE [env |-> (name :> v) @@ acc.env, failed |-> FirstFailure(<< v >>)]

WithinCapacity(rule, v) ==
    IF ~Failed(v) /\ rule.max # Unlimited /\ Len(v[2]) > rule.max THEN Error ELSE v

RECURSIVE EvalText(_, _, _), EvalRule(_, _, _)

EvalRule(p, r, input) ==
    LET rule == p.rules[r]
        Bind(acc, l) == BindValue(acc, l[1], EvalText(p, l[2], acc.env))
        bound == FoldLeft(Bind, [env |-> "it" :> input, failed |-> << >>], rule.lets)
    IN  IF r \in ActiveRules(p) \cup StrictRules(p) /\ ~ValidInput(p, r, input[2]) THEN Error
        ELSE IF bound.failed # << >> THEN bound.failed[1]
        ELSE WithinCapacity(rule, EvalText(p, rule.value, bound.env))

EvalText(p, e, env) ==
    CASE Kind(e) = "num" -> Num(e[2])
      [] Kind(e) = "text" -> Str(e[2])
      [] Kind(e) = "name" -> env[e[2]]
      [] Kind(e) = "get" ->
            LET base == EvalText(p, e[2], env)
            IN  IF Failed(base) THEN base ELSE base[2][e[3]]
      [] Kind(e) = "un" ->
            LET x == EvalText(p, e[3], env)
            IN  IF Failed(x) THEN x
                ELSE IF e[2] = "length" THEN Num(Len(x[2])) ELSE Unary(e[2], x)
      [] Kind(e) = "bin" /\ e[2] \in LogicOps ->
            LET l == EvalText(p, e[3], env)
            IN  IF Failed(l) \/ l = Bool(e[2] = "or")
                THEN l ELSE EvalText(p, e[4], env)
      [] Kind(e) = "bin" /\ e[2] \notin LogicOps ->
            LET l == EvalText(p, e[3], env)
                r == EvalText(p, e[4], env)
            IN  IF Failed(l) THEN l
                ELSE IF Failed(r) THEN r ELSE Binary(e[2], l[2], r[2])
      [] Kind(e) = "if" ->
            LET c == EvalText(p, e[2], env)
            IN  IF Failed(c) THEN c
                ELSE EvalText(p, IF c[2] THEN e[3] ELSE e[4], env)
      [] Kind(e) = "concat" ->
            LET values == [i \in DOMAIN e[2] |-> EvalText(p, e[2][i], env)]
                failed == FirstFailure(values)
            IN  IF failed # << >> THEN failed[1] ELSE Str(Joined(values))
      [] Kind(e) = "record" ->
            LET values == [i \in DOMAIN e[3] |-> EvalText(p, e[3][i][2], env)]
                failed == FirstFailure(values)
            IN  IF failed # << >> THEN failed[1]
                ELSE Rec([f \in {x[1] : x \in Range(e[3])} |->
                             values[CHOOSE i \in DOMAIN e[3] : e[3][i][1] = f]])
      [] Kind(e) = "call" ->
            LET arg == EvalText(p, e[3], env)
            IN  IF Failed(arg) THEN arg ELSE EvalRule(p, e[2], arg)

-----------------------------------------------------------------------------
(* text_bounds.rs.  The abstract values are intervals, "bool", capacities   *)
(* and records of these; the whole input stays symbolic until it is joined. *)

NumberIn(lo, hi) == <<"number", lo, hi>>
AnyBool == <<"bool">>
TextUpTo(cap) == <<"text", cap>>
WholeInput(concept) == <<"input", concept>>
RecordOf(concept, fields) == <<"record", concept, fields>>
Refused == <<"refused">>

\* Value::ty
TypeOf(a) == IF a[1] \in {"input", "record"} THEN a[2] ELSE a[1]

DeclaredField(d) ==
    CASE d.type = "number" /\ ~d.ranged -> NumberIn(MinWord, MaxWord)
      [] d.type = "number" /\ d.ranged /\ d.lo <= d.hi -> NumberIn(d.lo, d.hi)
      [] d.type = "text" /\ d.ranged /\ d.hi >= 0 -> TextUpTo(d.hi)
      [] OTHER -> Refused      \* natively a capacity must be known

MaterializeBound(p, a) ==
    IF a[1] # "input" THEN a
    ELSE RecordOf(a[2], [f \in FieldNames(p.concepts[a[2]]) |->
                            DeclaredField(FieldOf(p.concepts[a[2]], f))])

CapacityOf(a) == IF a[1] = "text" THEN a[2] ELSE NumberCapacity

\* Every text expression has a capacity the native storage can hold.
Storable(a) == IF a[1] = "text" /\ a[2] > MaxCapacity THEN Refused ELSE a

\* join: the two arms of a conditional.
RECURSIVE JoinBounds(_, _, _)
JoinBounds(p, a, b) ==
    LET x == MaterializeBound(p, a)
        y == MaterializeBound(p, b)
    IN  CASE x = Refused \/ y = Refused -> Refused
          [] x # Refused /\ y # Refused /\ TypeOf(x) # TypeOf(y) -> Refused
          [] x[1] = "text" /\ y[1] = "text" -> TextUpTo(Upper(x[2], y[2]))
          [] x[1] = "number" /\ y[1] = "number" ->
                NumberIn(Lower(x[2], y[2]), Upper(x[3], y[3]))
          [] x[1] = "bool" /\ y[1] = "bool" -> AnyBool
          [] x[1] = "record" /\ y[1] = "record" /\ x[2] = y[2] ->
                LET both == [f \in DOMAIN x[3] |-> JoinBounds(p, x[3][f], y[3][f])]
                IN  IF Refused \in Range(both) THEN Refused ELSE RecordOf(x[2], both)

\* numeric_bounds::interval_arithmetic: refused where a result may not be a
\* word or a division may fail.
IfKnown(range) == IF range.known THEN NumberIn(range.lo, range.hi) ELSE Refused

IntervalArithmetic(op, a, b) ==
    LET l == Between(a[2], a[3])
        r == Between(b[2], b[3])
    IN  IfKnown(CASE op = "add" -> AddRange(l, r) [] op = "sub" -> SubRange(l, r)
                  [] op = "mul" -> MulRange(l, r) [] op = "div" -> DivRange(l, r)
                  [] op = "mod" -> ModRange(l, r))

UnaryBound(op, a) ==
    CASE op = "not" /\ a[1] = "bool" -> AnyBool
      [] op = "length" /\ a[1] = "text" -> NumberIn(0, a[2])
      [] op = "neg" /\ a[1] = "number" /\ a[2] # MinWord -> NumberIn(-a[3], -a[2])
      [] op = "abs" /\ a[1] = "number" /\ a[2] # MinWord ->
            NumberIn(IF a[2] <= 0 /\ a[3] >= 0 THEN 0
                     ELSE Lower(Magnitude(a[2]), Magnitude(a[3])),
                     Upper(Magnitude(a[2]), Magnitude(a[3])))
      [] OTHER -> Refused

BinaryBound(op, a, b) ==
    CASE op \in {"eq", "ne"} /\ a[1] = b[1] /\ a[1] \in {"number", "bool", "text"} -> AnyBool
      [] op \in LogicOps /\ a = AnyBool /\ b = AnyBool -> AnyBool
      [] op \in {"gt", "lt", "ge", "le"} /\ a[1] = "number" /\ b[1] = "number" -> AnyBool
      [] op = "min" /\ a[1] = "number" /\ b[1] = "number" ->
            NumberIn(Lower(a[2], b[2]), Lower(a[3], b[3]))
      [] op = "max" /\ a[1] = "number" /\ b[1] = "number" ->
            NumberIn(Upper(a[2], b[2]), Upper(a[3], b[3]))
      [] op \in ArithOps /\ a[1] = "number" /\ b[1] = "number" ->
            IntervalArithmetic(op, a, b)
      [] OTHER -> Refused

\* call_input: a rule was checked for its declared input, so an argument has
\* to be shown to fit it, unless it is the entry's own record.
AcceptsInput(p, r, a) ==
    /\ TypeOf(a) = p.rules[r].input
    /\ a[1] = "record" =>
        \A i \in DOMAIN RuleInput(p, r) :
            LET d == RuleInput(p, r)[i]
                v == a[3][d.name]
            IN  \/ d.type = "text" /\ v[1] = "text" /\ d.ranged /\ v[2] <= d.hi
                \/ /\ d.type = "number" /\ v[1] = "number"
                   /\ d.ranged => v[2] >= d.lo /\ v[3] <= d.hi

BindBound(acc, name, a) ==
    [env |-> (name :> a) @@ acc.env, refused |-> acc.refused \/ a = Refused]

\* Callers use the declared capacity, not the computed one.
DeclaredBound(rule, a) ==
    CASE a = Refused -> Refused
      [] a # Refused /\ TypeOf(a) # rule.type -> Refused
      [] OTHER ->
            IF rule.max = Unlimited THEN a
            ELSE IF rule.max <= MaxCapacity /\ rule.type = "text" /\ a[2] <= rule.max
            THEN TextUpTo(rule.max) ELSE Refused

RECURSIVE BoundOf(_, _, _, _), BoundOfRule(_, _, _)

\* rule_inner
BoundOfRule(p, r, visiting) ==
    LET rule == p.rules[r]
        Bind(acc, l) == BindBound(acc, l[1], BoundOf(p, l[2], acc.env, visiting \cup {r}))
        bound == FoldLeft(Bind, [env |-> "it" :> WholeInput(rule.input), refused |-> FALSE],
                          rule.lets)
    IN  IF \/ r \in visiting
           \/ \E d \in Range(RuleInput(p, r)) :
                 d.type = "text" /\ d.ranged /\ d.hi \notin 0..MaxCapacity
           \/ bound.refused
        THEN Refused
        ELSE DeclaredBound(rule, BoundOf(p, rule.value, bound.env, visiting \cup {r}))

BoundOf(p, e, env, visiting) ==
    LET Sub(x) == BoundOf(p, x, env, visiting)
    IN  CASE Kind(e) = "num" -> NumberIn(e[2], e[2])
          [] Kind(e) = "text" -> Storable(TextUpTo(Len(e[2])))
          [] Kind(e) = "name" -> IF e[2] \in DOMAIN env THEN env[e[2]] ELSE Refused
          [] Kind(e) = "get" ->
                LET base == Sub(e[2])
                IN  CASE base[1] = "input" -> DeclaredField(FieldOf(p.concepts[base[2]], e[3]))
                      [] base[1] = "record" -> base[3][e[3]]
                      [] OTHER -> Refused
          [] Kind(e) = "un" -> UnaryBound(e[2], Sub(e[3]))
          [] Kind(e) = "bin" -> BinaryBound(e[2], Sub(e[3]), Sub(e[4]))
          [] Kind(e) = "if" ->
                IF Sub(e[2]) = AnyBool THEN JoinBounds(p, Sub(e[3]), Sub(e[4])) ELSE Refused
          [] Kind(e) = "concat" ->
                LET parts == [i \in DOMAIN e[2] |-> Sub(e[2][i])]
                IN  IF \A i \in DOMAIN parts : parts[i][1] \in {"text", "number"}
                    THEN Storable(TextUpTo(
                            FoldLeft(LAMBDA n, a : n + CapacityOf(a), 0, parts)))
                    ELSE Refused
          [] Kind(e) = "record" ->
                LET concept == p.concepts[e[2]]
                    Given(f) == SelectSeq(e[3], LAMBDA x : x[1] = f)
                    fields == [f \in FieldNames(concept) |-> Sub(Given(f)[1][2])]
                IN  IF /\ Len(e[3]) = Len(concept)
                       /\ \A f \in FieldNames(concept) : Len(Given(f)) = 1
                       /\ \A f \in FieldNames(concept) :
                             fields[f][1] = FieldOf(concept, f).type
                    THEN RecordOf(e[2], fields) ELSE Refused
          [] Kind(e) = "call" ->
                LET arg == Sub(e[3])
                IN  IF arg # Refused /\ AcceptsInput(p, e[2], arg)
                    THEN BoundOfRule(p, e[2], visiting) ELSE Refused

\* verify_mode(p, true): every participating rule is accepted.
TextAccepted(p) == \A r \in ActiveRules(p) : BoundOfRule(p, r, {}) # Refused

\* A value is one of those an abstract value stands for.
RECURSIVE Within(_, _)
Within(a, v) ==
    CASE a[1] = "number" -> v[1] = "n" /\ v[2] \in a[2]..a[3]
      [] a[1] = "bool" -> v[1] = "b"
      [] a[1] = "text" -> v[1] = "s" /\ Len(v[2]) <= a[2]
      [] a[1] = "record" -> v[1] = "r" /\ \A f \in DOMAIN a[3] : Within(a[3][f], v[2][f])
      [] a[1] = "input" -> v[1] = "r"

=============================================================================

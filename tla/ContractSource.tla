--------------------------- MODULE ContractSource ---------------------------
(***************************************************************************)
(* Strict overflow contracts: the analysis that accepts a rule             *)
(* (numeric_bounds.rs, guards.rs, ranges.rs) and the private rewriting it  *)
(* justifies (native_opt.rs).                                              *)
(*                                                                         *)
(* The domain of a number is a union of at most two intervals, here the    *)
(* set of its values.  A condition refines the domains of the numbers it   *)
(* compares, for the arm it selects and for nothing else.                  *)
(***************************************************************************)
EXTENDS TextSource

-----------------------------------------------------------------------------
(* ranges.rs *)

Starts(s) == {a \in s : a - 1 \notin s}
Pieces(s) == {<<a, Min({b \in s : b >= a /\ b + 1 \notin s})>> : a \in Starts(s)}
Fits(s) == Cardinality(Starts(s)) <= 2

\* collect: a third piece widens the domain to its hull.
Collect(s) == IF Fits(s) THEN s ELSE Min(s)..Max(s)

InDomain(s) == <<"domain", s>>
JoinDomains(a, b) == InDomain(Collect(a[2] \cup b[2]))

\* pairwise: every pair of pieces has to be safe before anything is widened.
Pairwise(a, b, F(_, _)) ==
    LET results == {F(NumberIn(x[1], x[2]), NumberIn(y[1], y[2]))
                      : x \in Pieces(a[2]), y \in Pieces(b[2])}
    IN  IF Refused \in results THEN Refused
        ELSE InDomain(Collect(UNION {r[2]..r[3] : r \in results}))

NotNegative(square, x) == IF square /\ x # Refused THEN NumberIn(0, x[3]) ELSE x

\* repeated_arithmetic: both operands read one and the same number.
RepeatedArithmetic(op, a) ==
    LET Twice(x, zero) ==
            NotNegative(op = "mul" /\ x[2] <= 0 /\ x[3] >= 0, IntervalArithmetic(op, x, x))
    IN  CASE op = "sub" -> InDomain({0})
          [] op \in {"div", "mod"} ->
                IF 0 \in a[2] THEN Refused ELSE InDomain({IF op = "div" THEN 1 ELSE 0})
          [] op \in {"add", "mul"} -> Pairwise(a, InDomain({0}), Twice)

\* restrict: what would need a third piece leaves the domain as it was.
Narrow(s, t) == IF Fits(t) THEN t ELSE s

\* constrain: one comparison, seen from its left operand.
Constrain(op, s, t) ==
    CASE op \in {"lt", "le"} -> Narrow(s, {x \in s : Compare(op, x, Max(t))})
      [] op \in {"gt", "ge"} -> Narrow(s, {x \in s : Compare(op, x, Min(t))})
      [] op = "ne" -> IF Cardinality(t) = 1 THEN Narrow(s, s \ t) ELSE s
      [] op = "eq" -> Narrow(s, s \cap t)

-----------------------------------------------------------------------------
(* guards.rs.  A scope has the lets of the rule and the facts its enclosing *)
(* conditions established; a fact is about an expression that reads a let   *)
(* or an input field.                                                       *)

NewScope(concept, locals) ==
    [concept |-> concept, locals |-> locals, facts |-> << >>, possible |-> TRUE]

IsInput(e) == e = <<"name", "it">>

\* local and field
ReadScalar(scope, e) ==
    CASE Kind(e) = "name" /\ e[2] \notin DOMAIN scope.locals -> Refused
      [] Kind(e) = "name" /\ e[2] \in DOMAIN scope.locals ->
            IF e \in DOMAIN scope.facts THEN InDomain(scope.facts[e])
            ELSE scope.locals[e[2]]
      [] Kind(e) = "get" /\ IsInput(e[2]) ->
            LET d == FieldOf(scope.concept, e[3])
            IN  IF e \in DOMAIN scope.facts THEN InDomain(scope.facts[e])
                ELSE IF d.type # "number" THEN Refused
                ELSE InDomain(IF d.ranged THEN d.lo..d.hi ELSE Word)
      [] OTHER -> Refused

IsScalar(scope, e) == ReadScalar(scope, e)[1] = "domain"
SameScalar(scope, a, b) == a = b /\ IsScalar(scope, a)

\* literal and operand
IsLiteral(e) == Kind(e) = "num" \/ (Kind(e) = "un" /\ e[2] = "neg" /\ Kind(e[3]) = "num")
LiteralValue(e) == IF Kind(e) = "num" THEN e[2] ELSE -e[3][2]

ComparedDomain(scope, e) ==
    IF IsScalar(scope, e) THEN ReadScalar(scope, e)
    ELSE IF IsLiteral(e) /\ LiteralValue(e) \in Word THEN InDomain({LiteralValue(e)})
    ELSE Refused

Opposite == [eq |-> "ne", ne |-> "eq", lt |-> "ge", le |-> "gt", gt |-> "le", ge |-> "lt"]
Reversed == [eq |-> "eq", ne |-> "ne", lt |-> "gt", le |-> "ge", gt |-> "lt", ge |-> "le"]

\* record
Learn(scope, e, s) ==
    IF IsScalar(scope, e) THEN [scope EXCEPT !.facts = (e :> s) @@ @] ELSE scope

LearnBoth(scope, l, left, r, right) ==
    IF left = {} \/ right = {} THEN [scope EXCEPT !.possible = FALSE]
    ELSE Learn(Learn(scope, l, left), r, right)

AssumeComparison(scope, op, l, r) ==
    LET a == ComparedDomain(scope, l)
        b == ComparedDomain(scope, r)
    IN  IF \/ a = Refused \/ b = Refused
           \/ SameScalar(scope, l, r) \/ ~(IsScalar(scope, l) \/ IsScalar(scope, r))
        THEN scope
        ELSE LearnBoth(scope, l, Constrain(op, a[2], b[2]), r, Constrain(Reversed[op], b[2], a[2]))

RECURSIVE Assume(_, _, _)
Assume(scope, c, truth) ==
    CASE Kind(c) = "un" /\ c[2] = "not" -> Assume(scope, c[3], ~truth)
      [] Kind(c) = "bin" /\ c[2] = (IF truth THEN "and" ELSE "or") ->
            LET first == Assume(scope, c[3], truth)
            IN  IF first.possible THEN Assume(first, c[4], truth) ELSE first
      [] Kind(c) = "bin" /\ c[2] \in CompareOps ->
            AssumeComparison(scope, IF truth THEN c[2] ELSE Opposite[c[2]], c[3], c[4])
      [] OTHER -> scope

\* branch: an arm that looks impossible is checked without new facts.
IfPossible(inside, scope) == IF inside.possible THEN inside ELSE scope
Branch(scope, c, truth) == IfPossible(Assume(scope, c, truth), scope)

-----------------------------------------------------------------------------
(* numeric_bounds.rs *)

ScalarType(a) == IF a[1] = "domain" THEN "number" ELSE a[1]

\* The unary and binary operators on numbers.
UnaryDomain(op, a) ==
    IF a[1] # "domain" THEN Refused
    ELSE Pairwise(a, InDomain({0}), LAMBDA x, zero : UnaryBound(op, x))

BinaryDomain(op, a, b) ==
    IF a[1] # "domain" \/ b[1] # "domain" THEN Refused
    ELSE Pairwise(a, b, LAMBDA x, y : BinaryBound(op, x, y))

BindDomain(acc, name, a) ==
    [locals |-> (name :> a) @@ acc.locals, refused |-> acc.refused \/ a = Refused]

\* Callers rely on the declared bounds, not on the computed ones.
DeclaredDomain(rule, a) ==
    IF ScalarType(a) # rule.type THEN Refused
    ELSE IF rule.overflow = << >> THEN a
    ELSE IF rule.type = "number" /\ a[2] \subseteq rule.overflow[1]..rule.overflow[2]
    THEN InDomain(rule.overflow[1]..rule.overflow[2]) ELSE Refused

\* The two arms of a conditional.
JoinArms(c, a, b) ==
    CASE c # AnyBool \/ ScalarType(a) # ScalarType(b) -> Refused
      [] c = AnyBool /\ a[1] = "domain" /\ b[1] = "domain" -> JoinDomains(a, b)
      [] OTHER -> a

RECURSIVE DomainOf(_, _, _, _, _), DomainOfRule(_, _, _)

\* rule_inner
DomainOfRule(p, r, visiting) ==
    LET rule == p.rules[r]
        concept == RuleInput(p, r)
        Domain(e, locals) == DomainOf(p, r, e, NewScope(concept, locals), visiting \cup {r})
        Bind(acc, l) == BindDomain(acc, l[1], Domain(l[2], acc.locals))
        bound == FoldLeft(Bind, [locals |-> << >>, refused |-> FALSE], rule.lets)
    IN  IF \/ r \in visiting
           \/ \E d \in Range(concept) : d.ranged /\ d.lo > d.hi
           \/ bound.refused
        THEN Refused
        ELSE DeclaredDomain(rule, Domain(rule.value, bound.locals))

DomainOf(p, r, e, scope, visiting) ==
    LET Sub(x) == DomainOf(p, r, x, scope, visiting)
    IN  CASE Kind(e) = "num" -> InDomain({e[2]})
          [] Kind(e) \in {"name", "get"} -> ReadScalar(scope, e)
          [] Kind(e) = "if" ->
                JoinArms(Sub(e[2]),
                         DomainOf(p, r, e[3], Branch(scope, e[2], TRUE), visiting),
                         DomainOf(p, r, e[4], Branch(scope, e[2], FALSE), visiting))
          [] Kind(e) = "un" ->
                IF e[2] = "not" THEN IF Sub(e[3]) = AnyBool THEN AnyBool ELSE Refused
                ELSE UnaryDomain(e[2], Sub(e[3]))
          [] Kind(e) = "bin" ->
                LET a == Sub(e[3])
                    b == Sub(e[4])
                IN  CASE a = Refused \/ b = Refused -> Refused
                      [] e[2] \in CompareOps \cup LogicOps ->
                            IF \/ e[2] \in LogicOps /\ a = AnyBool /\ b = AnyBool
                               \/ e[2] \in {"eq", "ne"} /\ a[1] = b[1]
                               \/ e[2] \in CompareOps /\ a[1] = "domain" /\ b[1] = "domain"
                            THEN AnyBool ELSE Refused
                      [] e[2] \in ArithOps /\ SameScalar(scope, e[3], e[4]) ->
                            RepeatedArithmetic(e[2], a)
                      [] OTHER -> BinaryDomain(e[2], a, b)
          [] Kind(e) = "call" ->
                IF IsInput(e[3]) /\ p.rules[e[2]].input = p.rules[r].input
                THEN DomainOfRule(p, e[2], visiting) ELSE Refused

\* verify
StrictAccepted(p) == \A r \in StrictRules(p) : DomainOfRule(p, r, {}) # Refused

-----------------------------------------------------------------------------
(* native_opt.rs.  A fact is a domain, <<"bool", s>> with the values a bool *)
(* may have, or nothing.                                                    *)

NoFact == <<"none">>
BoolFact(s) == <<"bool", s>>
FactOf(a) == CASE a = Refused -> NoFact [] a = AnyBool -> BoolFact(BOOLEAN) [] OTHER -> a

IsConstant(fact) == fact # NoFact /\ Cardinality(fact[2]) = 1

\* There is no bool literal: 0 = 0 and 0 = 1 stand for them.
ConstantOf(fact) ==
    LET v == CHOOSE x \in fact[2] : TRUE
    IN  IF fact[1] = "domain" THEN Number(v)
        ELSE <<"bin", "eq", Number(0), Number(IF v THEN 0 ELSE 1)>>

JoinFacts(a, b) ==
    CASE a[1] = "domain" /\ b[1] = "domain" -> JoinDomains(a, b)
      [] a[1] = "bool" /\ b[1] = "bool" -> BoolFact(a[2] \cup b[2])
      [] OTHER -> NoFact

\* compare_interval: what a comparison of two intervals may answer.
CompareInterval(op, x, y) ==
    LET Less(a, b) == IF a[2] < b[1] THEN {TRUE} ELSE IF a[1] >= b[2] THEN {FALSE} ELSE BOOLEAN
        AtMost(a, b) == IF a[2] <= b[1] THEN {TRUE} ELSE IF a[1] > b[2] THEN {FALSE} ELSE BOOLEAN
        Equal == IF x[2] < y[1] \/ y[2] < x[1] THEN {FALSE}
                 ELSE IF x[1] = x[2] /\ y[1] = y[2] THEN {x[1] = y[1]} ELSE BOOLEAN
    IN  CASE op = "lt" -> Less(x, y) [] op = "le" -> AtMost(x, y)
          [] op = "gt" -> Less(y, x) [] op = "ge" -> AtMost(y, x)
          [] op = "eq" -> Equal [] op = "ne" -> {~v : v \in Equal}

CompareDomains(op, s, t) ==
    BoolFact(UNION {CompareInterval(op, x, y) : x \in Pieces(s), y \in Pieces(t)})

BinaryFact(op, a, b) ==
    CASE a[1] = "domain" /\ b[1] = "domain" ->
            IF op \in CompareOps THEN CompareDomains(op, a[2], b[2])
            ELSE IF op = "mod" /\ Cardinality(a[2]) = 1 /\ Cardinality(b[2]) = 1
            THEN LET m == Max(a[2])
                     n == Max(b[2])
                 IN  IF DivisionFails(m, n) THEN NoFact ELSE InDomain({Rem(m, n)})
            ELSE FactOf(BinaryDomain(op, a, b))
      [] a[1] = "bool" /\ b[1] = "bool" ->
            BoolFact({CASE op = "eq" -> x = y [] op = "ne" -> x # y
                        [] op = "and" -> x /\ y [] op = "or" -> x \/ y
                        : x \in a[2], y \in b[2]})
      [] OTHER -> NoFact

RepeatedFact(op, a) ==
    IF op \in CompareOps THEN BoolFact({op \in {"eq", "le", "ge"}})
    ELSE FactOf(RepeatedArithmetic(op, a))

Folded(e, fact) == [e |-> IF IsConstant(fact) THEN ConstantOf(fact) ELSE e, fact |-> fact]

\* A decided conditional is the arm it selects.
FoldedIf(c, yes, no) ==
    IF c.fact[1] = "bool" /\ IsConstant(c.fact)
    THEN IF c.fact[2] = {TRUE} THEN yes ELSE no
    ELSE Folded(<<"if", c.e, yes.e, no.e>>, JoinFacts(yes.fact, no.fact))

\* Fold::expr.  Scopes are refined by the conditions of the source, not by
\* what they were folded to.
RECURSIVE FoldExpr(_, _, _)
FoldExpr(calls, scope, e) ==
    LET Sub(x) == FoldExpr(calls, scope, x)
    IN  CASE Kind(e) = "num" -> Folded(e, InDomain({e[2]}))
          [] Kind(e) \in {"name", "get"} -> Folded(e, FactOf(ReadScalar(scope, e)))
          [] Kind(e) = "call" -> Folded(e, FactOf(calls[e[2]]))
          [] Kind(e) = "if" ->
                FoldedIf(Sub(e[2]), FoldExpr(calls, Branch(scope, e[2], TRUE), e[3]),
                                    FoldExpr(calls, Branch(scope, e[2], FALSE), e[4]))
          [] Kind(e) = "un" ->
                LET x == Sub(e[3])
                IN  Folded(<<"un", e[2], x.e>>,
                           IF e[2] # "not" THEN FactOf(UnaryDomain(e[2], x.fact))
                           ELSE IF x.fact[1] = "bool" THEN BoolFact({~v : v \in x.fact[2]})
                           ELSE NoFact)
          [] Kind(e) = "bin" ->
                LET a == Sub(e[3])
                    b == Sub(e[4])
                IN  Folded(<<"bin", e[2], a.e, b.e>>,
                           IF e[2] \notin BuiltinOps /\ SameScalar(scope, e[3], e[4])
                           THEN RepeatedFact(e[2], a.fact)
                           ELSE BinaryFact(e[2], a.fact, b.fact))

\* lower: constant lets disappear, their uses have been replaced.
BindFolded(acc, name, x) ==
    LET others == [n \in DOMAIN acc.locals \ {name} |-> acc.locals[n]]
    IN  [locals |-> IF x.fact = NoFact THEN others ELSE (name :> x.fact) @@ others,
         lets |-> IF IsConstant(x.fact) THEN acc.lets ELSE Append(acc.lets, <<name, x.e>>)]

LowerBody(rule, concept, calls) ==
    LET Fold(locals, e) == FoldExpr(calls, NewScope(concept, locals), e)
        Bind(acc, l) == BindFolded(acc, l[1], Fold(acc.locals, l[2]))
        bound == FoldLeft(Bind, [locals |-> << >>, lets |-> << >>], rule.lets)
    IN  [lets |-> bound.lets, value |-> Fold(bound.locals, rule.value).e]

LowerRule(p, r) ==
    LowerBody(p.rules[r], RuleInput(p, r), [x \in StrictRules(p) |-> DomainOfRule(p, x, {})])

-----------------------------------------------------------------------------
(* What a contract promises, for comparison: the value over the integers.   *)

ExactArith(op, a, b) ==
    CASE op = "add" -> a + b [] op = "sub" -> a - b [] op = "mul" -> a * b
      [] op = "div" -> IF b = 0 THEN 0 ELSE Quot(a, b)
      [] op = "mod" -> IF b = 0 THEN 0 ELSE Rem(a, b)
      [] op = "min" -> Lower(a, b) [] op = "max" -> Upper(a, b)

RECURSIVE Exact(_, _, _), ExactRule(_, _, _)

ExactRule(p, r, input) ==
    LET Bind(env, l) == (l[1] :> Exact(p, l[2], env)) @@ env
    IN  Exact(p, p.rules[r].value, FoldLeft(Bind, "it" :> input, p.rules[r].lets))

Exact(p, e, env) ==
    LET Sub(x) == Exact(p, x, env)
    IN  CASE Kind(e) = "num" -> e[2]
          [] Kind(e) = "name" -> env[e[2]]
          [] Kind(e) = "get" -> env["it"][e[3]][2]
          [] Kind(e) = "call" -> ExactRule(p, e[2], env["it"])
          [] Kind(e) = "if" -> IF Sub(e[2]) THEN Sub(e[3]) ELSE Sub(e[4])
          [] Kind(e) = "un" ->
                IF e[2] = "not" THEN ~Sub(e[3])
                ELSE IF e[2] = "neg" THEN -Sub(e[3]) ELSE Magnitude(Sub(e[3]))
          [] Kind(e) = "bin" ->
                CASE e[2] = "and" -> Sub(e[3]) /\ Sub(e[4])
                  [] e[2] = "or" -> Sub(e[3]) \/ Sub(e[4])
                  [] e[2] \in {"eq", "ne"} -> (Sub(e[3]) = Sub(e[4])) = (e[2] = "eq")
                  [] e[2] \in CompareOps \ {"eq", "ne"} -> Compare(e[2], Sub(e[3]), Sub(e[4]))
                  [] OTHER -> ExactArith(e[2], Sub(e[3]), Sub(e[4]))

DomainHolds(a, v) ==
    IF a = AnyBool THEN v[1] = "b" ELSE v[1] = "n" /\ v[2] \in a[2]

=============================================================================

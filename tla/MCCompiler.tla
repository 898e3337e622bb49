----------------------------- MODULE MCCompiler -----------------------------
(***************************************************************************)
(* Families of programs over four-bit words and two-byte frame words.      *)
(***************************************************************************)
EXTENDS Compiler

Bin(op, l, r) == <<"bin", op, l, r>>
Un(op, x) == <<"un", op, x>>
If(c, t, e) == <<"if", c, t, e>>
Call(rule, arg) == <<"call", rule, arg>>
Self(k) == Call("main", Bin("sub", Field, Number(k)))

AllWords == Between(MinWord, MaxWord)

Leaves == {Field} \cup {Number(n) : n \in 0..3}

\* One operator.
Simple ==
    {Bin(op, l, r) : op \in ArithOps \cup {"min", "bxor", "shr"},
                     l \in Leaves, r \in {Field}}
    \cup {Bin(op, Field, r) : op \in ArithOps \cup {"max", "band", "shl"},
                     r \in Leaves \cup {Number(5)}}
    \cup {Un(op, Field) : op \in {"neg", "abs", "bnot"}}
    \cup {Un("neg", Number(1))}

\* An operator over another one, on either side or on both.
Pairs == {Bin("sub", Field, Number(1)), Bin("mod", Field, Number(2)),
          Bin("div", Number(3), Field), Un("neg", Field),
          Bin("max", Field, Number(2)), Un("abs", Field)}

OnLeft == {Bin(op, x, l) : op \in ArithOps, x \in Simple,
                           l \in {Field, Number(0), Number(2), Number(3)}}
OnRight == {Bin(op, l, x) : op \in ArithOps, x \in Simple, l \in {Field, Number(3)}}
OnBoth ==
    {Bin(op, x, y) : op \in ArithOps \cup {"min", "max", "shl"}, x \in Pairs, y \in Pairs}
    \cup {Un(op, x) : op \in {"neg", "abs"}, x \in Simple}

Tests ==
    {Bin(op, x, Number(n)) : op \in CompareOps, x \in {Field} \cup Pairs,
                             n \in {0, 2}}

Logic ==
    {Bin(op, Bin("gt", Field, Number(1)), t) : op \in LogicOps, t \in Tests}
    \cup {Un("not", t) : t \in Tests}

Conditional ==
    {If(t, x, y) : t \in Tests, x \in {Field, Number(1)}, y \in Pairs}
    \cup {Bin("div", If(t, Number(1), Field), Number(2)) : t \in Tests}
    \cup {If(t, Number(1), Field) : t \in Logic}

Plain(bodies, spans) ==
    {[rules |-> [r \in {"main"} |-> b], span |-> s] : b \in bodies, s \in spans}

\* main calls an inlined rule on its own record.
Inlined ==
    {[rules |-> [r \in {"main", "aux"} |-> IF r = "main" THEN b ELSE a],
      span |-> AllWords]
       : a \in Pairs,
         b \in {Bin(op, Field, Call("aux", Input)) : op \in ArithOps}
               \cup {Bin("sub", Call("aux", Input), Call("aux", Input))}}

\* Recursion on a decreasing field; the argument stays within 0..4.
Operands ==
    {Self(1), Self(2), Field, Bin("add", Field, Self(1)),
     Bin("sub", Self(1), Number(1)), Un("neg", Self(2)),
     Bin("max", Self(1), Self(2)), Bin("sub", Self(2), Self(1))}

Descending ==
    {[rules |-> [r \in {"main"} |-> If(Bin("lt", Field, Number(2)), base, Bin(op, x, y))],
      span |-> Between(0, 4)]
       : base \in {Field, Number(1)}, x \in Operands, y \in Operands,
         op \in ArithOps \cup {"min"}}

\* Two rules that call each other; a third one is inlined into them.
Mutual ==
    {[rules |-> [r \in {"main", "odd", "aux"} |->
                    CASE r = "main" -> If(Bin("lt", Field, Number(1)), Number(1),
                                          Bin(op, x, Call("odd", Bin("sub", Field, Number(1)))))
                      [] r = "odd" -> If(Bin("lt", Field, Number(1)), Number(0),
                                         Bin(op, Call("aux", Input), Self(1)))
                      [] r = "aux" -> Bin("mul", Field, Number(3))],
      span |-> Between(0, 4)]
       : op \in ArithOps, x \in {Field, Call("aux", Input)}}

Agreeing ==
    Plain(Simple, {AllWords, Between(0, 7), Between(1, 5)})
    \cup Plain(OnLeft \cup OnBoth, {AllWords, Between(0, 5)})
    \cup Plain(OnRight, {AllWords})
    \cup Plain(Tests \cup Logic \cup Conditional, {AllWords, Between(2, 5)})
    \cup Inlined \cup Descending \cup Mutual

\* Two uses of inlining.  In the first, the body that is inlined keeps an
\* operand across a call of its own; in the second, the inlined rule is given
\* a record other than the caller's.
Crossing ==
    [rules |-> [r \in {"main", "aux"} |->
                   IF r = "main"
                   THEN If(Bin("lt", Field, Number(1)), Number(1),
                           Bin("sub", Self(1), Call("aux", Input)))
                   ELSE Bin("mul", Field, Bin("sub", Field, Number(1)))],
     span |-> Between(0, 4)]

GivenRecord ==
    [rules |-> [r \in {"main", "aux"} |->
                   IF r = "main" THEN Call("aux", Bin("add", Field, Number(1)))
                   ELSE Bin("mul", Field, Number(2))],
     span |-> Between(0, 3)]

Inlining == {Crossing, GivenRecord}

-----------------------------------------------------------------------------
(* Programs with bounded text.  The entry takes { t: text [..2], n: number }. *)

Lit(s) == <<"text", s>>
Name(x) == <<"name", x>>
Get(f) == <<"get", Name("it"), f>>
Concat(args) == <<"concat", args>>
Record(concept, fields) == <<"record", concept, fields>>

TextField(name, max) == [name |-> name, type |-> "text", ranged |-> TRUE, lo |-> 0, hi |-> max]
NumField(name, lo, hi) == [name |-> name, type |-> "number", ranged |-> TRUE, lo |-> lo, hi |-> hi]

Concepts ==
    [c \in {"In", "Pair"} |->
        IF c = "In" THEN << TextField("t", 2), NumField("n", -3, 4) >>
        ELSE << TextField("p", 3), NumField("q", -8, 7) >>]

SomeRecords ==
    [t : {Str(<< >>), Str(<<"a">>), Str(<<"a", "b">>), Str(<<"a", "b", "c">>)},
     n : {Num(-3), Num(0), Num(4), Num(5)}]

TextRule(concept, type, max, lets, value) ==
    [input |-> concept, type |-> type, max |-> max, overflow |-> << >>,
     lets |-> lets, value |-> value]

TextProgram(rules) == [rules |-> rules, concepts |-> Concepts]
OneRule(max, lets, value) ==
    TextProgram([r \in {"main"} |-> TextRule("In", "text", max, lets, value)])

Cond == Bin("gt", Get("n"), Number(0))
Same == Bin("eq", Get("t"), Lit(<<"a">>))

\* Three lets, each built from the ones before it, and a use of all of them:
\* concats with their own buffers, aliases, and conditionals that join an
\* older buffer with a new one.
FirstLet == {Concat(<< Get("t"), Lit(<<"x">>) >>), Get("t"),
             If(Cond, Concat(<< Lit(<<"p">>), Get("t") >>), Lit(<<"q">>))}

SecondLet == {Concat(<< Name("a"), Lit(<<"y">>) >>), Name("a"),
              If(Same, Name("a"), Concat(<< Lit(<<"z">>), Get("n") >>)),
              If(Cond, Concat(<< Get("t"), Lit(<<"u">>) >>),
                       Concat(<< Lit(<<"v">>), Lit(<<"w">>) >>))}

ThirdLet == {Concat(<< Lit(<<"m">>), Name("b") >>), Concat(<< Lit(<<"k">>), Get("t") >>),
             If(Cond, Name("a"), Name("b")), Lit(<<"l">>)}

Uses == {Name("c"), Concat(<< Name("c"), Name("a") >>),
         If(Bin("eq", Name("a"), Name("b")), Name("c"), Name("a")),
         If(Bin("lt", Un("length", Name("b")), Number(2)),
            Concat(<< Name("c"), Lit(<<"!">>) >>), Name("b"))}

Lets == {OneRule(7, << <<"a", x>>, <<"b", y>>, <<"c", z>> >>, u)
           : x \in FirstLet, y \in SecondLet, z \in ThirdLet, u \in Uses}

\* Conditionals whose arms build several buffers of different sizes: only here
\* are the arms laid over each other.
Arm == {Concat(<< Concat(<< Get("t"), Lit(<<"x">>) >>), Concat(<< Lit(<<"y">>), Get("t") >>) >>),
        Concat(<< Get("n"), Concat(<< Get("t"), Get("n") >>) >>),
        If(Same, Concat(<< Concat(<< Get("t"), Lit(<<"h">>) >>), Lit(<<"i">>) >>), Lit(<<"j">>))}

Arms ==
    {OneRule(7, << <<"a", FirstConcat>>, <<"b", If(Cond, x, y)>> >>, u)
       : FirstConcat \in FirstLet, x \in Arm, y \in Arm \cup {Name("a")},
         u \in {Name("b"), Concat(<< Name("a"), Lit(<<"!">>) >>),
                If(Bin("eq", Name("a"), Name("b")), Name("a"), Lit(<<"no">>)),
                If(Cond, Concat(<< Name("a"), Lit(<<"c">>) >>),
                         Concat(<< Lit(<<"d">>), Concat(<< Lit(<<"e">>), Name("a") >>) >>))}}
    \cup {OneRule(7, << >>, If(Cond, x, If(Same, y, z))) : x \in Arm, y \in Arm, z \in Arm}

\* main calls aux: in result position, as an operand, twice, on its own record
\* or on a built one whose fields have to be shown to fit.
AuxBodies == {Concat(<< Get("t"), Lit(<<"+">>) >>), Get("t"),
              If(Cond, Concat(<< Lit(<<"<">>), Get("t") >>), Lit(<<"=">>))}

AuxArgs == {Name("it"),
            Record("In", << <<"t", Lit(<<"r">>)>>, <<"n", Get("n")>> >>),
            Record("In", << <<"n", Bin("sub", Number(1), Get("n"))>>,
                            <<"t", Concat(<< Lit(<<"s">>), Lit(<<"s">>) >>)>> >>),
            Record("In", << <<"t", Get("t")>>, <<"n", Bin("mod", Get("n"), Number(3))>> >>),
            If(Cond, Name("it"), Record("In", << <<"t", Concat(<< Lit(<<"o">>), Lit(<<"k">>) >>)>>,
                                                 <<"n", Un("abs", Get("n"))>> >>))}

Aux(arg) == Call("aux", arg)

CallUses(x, y) ==
    {Aux(x), Concat(<< Aux(x), Aux(y) >>), If(Same, Aux(x), Concat(<< Lit(<<"f">>), Aux(y) >>)),
     If(Bin("ne", Aux(x), Aux(y)), Aux(y), Lit(<<"g">>))}

Calls ==
    {TextProgram([r \in {"main", "aux"} |->
                     IF r = "main" THEN TextRule("In", "text", 7, << >>, u)
                     ELSE TextRule("In", "text", max, << >>, body)])
       : body \in AuxBodies, max \in {3, Unlimited}, u \in UNION {CallUses(x, y) : x \in AuxArgs, y \in AuxArgs}}

\* Results that are records, numbers and bools; aux makes the program bounded.
Scalars ==
    {Bin(op, Get("n"), Un("length", Aux(Name("it")))) : op \in ArithOps \cup {"min", "max"}}
    \cup {Bin(op, Get("n"), Number(2)) : op \in ArithOps}
    \cup {Un("neg", Get("n")), Un("abs", Get("n"))}

Conditions ==
    {Bin("and", Cond, Same), Bin("or", Bin("eq", Aux(Name("it")), Get("t")), Cond),
     Un("not", Bin("le", Get("n"), Un("length", Get("t")))), Bin("ne", Cond, Same)}

PairOf(t, n) == Record("Pair", << <<"q", n>>, <<"p", t>> >>)
Pairs2 == {PairOf(Aux(Name("it")), Get("n")), PairOf(Concat(<< Get("t"), Lit(<<"1">>) >>), Number(3)),
           PairOf(Get("t"), Un("length", Get("t")))}
PairResults ==
    Pairs2 \cup {If(c, x, y) : c \in {Cond, Same}, x \in Pairs2, y \in Pairs2}

WithAux(type, lets, value) ==
    TextProgram([r \in {"main", "aux"} |->
                    IF r = "main" THEN TextRule("In", type, Unlimited, lets, value)
                    ELSE TextRule("In", "text", 3, << >>, Concat(<< Get("t"), Lit(<<"+">>) >>))])

Others ==
    {WithAux("number", << >>, x) : x \in Scalars}
    \cup {WithAux("number", << <<"s", x>> >>, If(c, Name("s"), Un("length", Aux(Name("it")))))
            : x \in Scalars, c \in Conditions}
    \cup {WithAux("bool", << >>, c) : c \in Conditions}
    \cup {WithAux("Pair", << >>, x) : x \in PairResults}
    \cup {WithAux("text", << <<"s", x>>, <<"u", y>> >>,
                  Concat(<< <<"get", Name("u"), "p">>, <<"get", Name("s"), "p">> >>))
            : x \in PairResults, y \in Pairs2}

WithText == Lets \cup Arms \cup Calls \cup Others

-----------------------------------------------------------------------------
(* Programs with an overflow contract.  The entry takes two numbers.        *)

StrictConcepts == [c \in {"C"} |-> << NumField("a", -3, 4), NumField("b", -2, 7) >>]

SomeNumbers ==
    [a : {Num(n) : n \in {-4, -3, -1, 0, 1, 2, 4}}, b : {Num(n) : n \in {-3, -2, 0, 1, 2, 3, 7}}]

StrictRule(type, overflow, lets, value) ==
    [input |-> "C", type |-> type, max |-> Unlimited, overflow |-> overflow,
     lets |-> lets, value |-> value]

StrictProgram(rules) == [rules |-> rules, concepts |-> StrictConcepts]
Whole == <<MinWord, MaxWord>>
Strict(lets, value) ==
    StrictProgram([r \in {"main"} |-> StrictRule("number", Whole, lets, value)])

A == Get("a")
B == Get("b")

\* One condition, on a field, on both, or on several comparisons; the arms
\* are safe only if the analysis uses it, or not even then.
Comparisons ==
    {Bin(op, x, y) : op \in CompareOps, x \in {A, B},
                     y \in {A, B, Number(0), Number(4), Un("neg", Number(1))}}

Guards ==
    Comparisons
    \cup {Bin(op, Bin(c, A, Number(0)), Bin(d, B, Number(1)))
            : op \in LogicOps, c \in {"ne", "gt", "eq"}, d \in {"ne", "le"}}
    \cup {Un("not", Bin("and", Bin("ge", A, Number(0)), Bin("ne", A, Number(2)))),
          Bin("and", Bin("ne", B, Number(0)), Bin("ne", B, Number(3)))}

Risky ==
    {Bin("div", A, B), Bin("mod", B, A), Bin("sub", B, A), Bin("add", A, B),
     Bin("mul", A, A), Bin("div", B, B), Bin("sub", A, A), Un("neg", B)}

Guarded ==
    {Strict(<< >>, If(c, x, A)) : c \in Guards, x \in Risky}
    \cup {Strict(<< >>, If(c, B, x)) : c \in Comparisons, x \in {Bin("div", A, B), Un("abs", B)}}
    \cup {Strict(<< >>, If(c, A, If(d, x, B)))
            : c \in {Bin("eq", B, Number(0)), Bin("lt", A, B), Bin("ne", A, Number(1))},
              d \in Comparisons, x \in {Bin("div", A, B), Bin("sub", B, A)}}

\* Lets that are read once, several times, never, or hidden by a later one;
\* some are constants to the lowering.
NumberLets ==
    { << <<"x", Bin("sub", A, Number(1))>>, <<"y", Bin("add", Name("x"), Number(2))>> >>,
      << <<"x", Bin("max", A, B)>>, <<"y", Bin("min", A, Name("x"))>> >>,
      << <<"x", Bin("div", B, Number(2))>>, <<"x", Bin("sub", Name("x"), A)>>, <<"y", B>> >>,
      << <<"x", Un("abs", A)>>, <<"z", Bin("sub", Name("x"), Name("x"))>>,
         <<"y", Bin("add", Name("z"), A)>> >>,
      << <<"x", Number(3)>>, <<"y", If(Bin("lt", Name("x"), Number(2)), B, A)>>,
         <<"x", Bin("mod", B, Name("x"))>> >>,
      << <<"u", Bin("mod", B, Number(2))>>, <<"x", A>>, <<"y", Bin("min", A, Number(1))>>,
         <<"v", Name("x")>> >>,
      << <<"x", A>>, <<"y", If(Bin("gt", Name("x"), Number(0)), Name("x"), Number(1))>> >>,
      << <<"u", Bin("div", A, B)>>, <<"x", A>>, <<"y", B>> >>,
      << <<"t", If(Bin("gt", A, B), Bin("eq", A, A), Bin("lt", B, Number(3)))>>, <<"x", A>>,
         <<"y", If(Name("t"), A, Number(1))>> >> }

LetUses ==
    {Name("x"), Bin("sub", Name("y"), Name("x")), Bin("min", Name("x"), Bin("sub", Number(0), A)),
     If(Bin("gt", Name("x"), Name("y")), Bin("sub", Name("x"), Name("y")), Name("y")),
     If(Bin("ne", Name("y"), Number(0)), Bin("div", Name("x"), Name("y")), Name("x")),
     Bin("min", Bin("max", Name("x"), Name("y")), Bin("max", Bin("sub", Number(1), Name("x")), B)),
     Bin("max", Bin("min", A, Number(2)), Bin("min", Bin("max", Name("y"), Number(0)), Name("x"))),
     If(Bin("and", Bin("eq", Name("x"), Name("x")), Bin("or", Bin("le", A, Number(4)), Bin("eq", A, B))),
        Name("y"), B)}

WithLets ==
    {Strict(ls, u) : ls \in NumberLets, u \in LetUses}

\* Calls are expanded: the callee's lets share the words of the caller.
Callee ==
    { StrictRule("number", <<-3, 4>>, << <<"x", Bin("min", A, Number(3))>> >>,
                 Bin("max", Name("x"), Bin("min", A, Number(0)))),
      StrictRule("number", <<1, 3>>, << <<"y", Bin("mod", B, Number(3))>> >>,
                 Bin("max", Name("y"), Number(1))),
      StrictRule("bool", << >>, << <<"x", Bin("sub", A, Number(2))>> >>,
                 Bin("or", Bin("gt", Name("x"), Number(0)), Bin("eq", A, B))) }

Of(x) == Call(x, Name("it"))

Callers ==
    {Of("aux"), Bin("div", A, Of("aux")), Bin("add", Of("aux"), Of("aux")),
     Bin("min", Bin("sub", A, Number(1)), Bin("max", Of("aux"), Name("k"))),
     Bin("sub", Name("k"), Bin("min", Of("aux"), Number(2))),
     If(Of("aux"), Name("k"), B), If(Un("not", Of("aux")), A, Bin("sub", Name("k"), Number(1))),
     If(Bin("gt", Of("aux"), Number(0)), Name("k"), Bin("div", Number(3), Of("aux")))}

WithCalls ==
    {StrictProgram([r \in {"main", "aux"} |->
                       IF r = "main"
                       THEN StrictRule("number", bounds, << <<"k", k>> >>, u) ELSE callee])
       : callee \in Callee, u \in Callers, bounds \in {Whole, <<-4, 5>>},
         k \in {A, Bin("max", A, Number(0)), Bin("min", Bin("mod", B, Number(2)), A)}}

WithContract == Guarded \cup WithLets \cup WithCalls

-----------------------------------------------------------------------------
(* Pipelines of two and three phases.  A record handed on fits the concept  *)
(* of the next phase always, or only for some inputs, and then the pipeline *)
(* is refused.                                                              *)

PhaseConcepts ==
    [c \in {"In", "Pair", "Tight"} |->
        CASE c = "In" -> Concepts["In"] [] c = "Pair" -> Concepts["Pair"]
          [] c = "Tight" -> << TextField("p", 2), NumField("q", 0, 3) >>]

Piece(concept, t, n) == Record(concept, << <<"q", n>>, <<"p", t>> >>)

FirstTexts == {Get("t"), Concat(<< Get("t"), Lit(<<"x">>) >>), Lit(<<"l">>),
               If(Cond, Get("t"), Concat(<< Lit(<<"y">>), Lit(<<"z">>) >>))}
FirstNumbers == {Get("n"), Un("length", Get("t")), Un("abs", Get("n")),
                 Bin("max", Number(0), Bin("min", Get("n"), Number(3)))}

Results ==
    {<<"text", Concat(<< Get("p"), Get("q") >>)>>, <<"text", Get("p")>>,
     <<"number", Bin("sub", Get("q"), Un("length", Get("p")))>>,
     <<"bool", Bin("eq", Get("p"), Lit(<<"a">>))>>,
     <<"text", If(Bin("gt", Get("q"), Number(0)), Get("p"), Lit(<<"-">>))>>}

Middles ==
    {Name("it"), Piece("Tight", Get("p"), Bin("div", Get("q"), Number(2))),
     Piece("Tight", If(Bin("lt", Get("q"), Number(2)), Get("p"), Lit(<<"m">>)), Number(1)),
     If(Bin("eq", Get("q"), Number(0)), Name("it"),
        Piece("Tight", Lit(<<"n">>), Un("length", Get("p"))))}

PhaseRule(concept, type, max, value) == TextRule(concept, type, max, << >>, value)
PipelineOf(rules, phases) == [rules |-> rules, concepts |-> PhaseConcepts, phases |-> phases]

TwoPhases ==
    {PipelineOf([r \in {"one", "two"} |->
                    IF r = "one" THEN PhaseRule("In", c, Unlimited, Piece(c, t, n))
                    ELSE PhaseRule(c, u[1], IF u[1] = "text" THEN 5 ELSE Unlimited, u[2])],
                << "one", "two" >>)
       : c \in {"Pair", "Tight"}, t \in FirstTexts, n \in FirstNumbers, u \in Results}

ThreePhases ==
    {PipelineOf([r \in {"one", "two", "three"} |->
                    CASE r = "one" -> PhaseRule("In", "Tight", Unlimited, Piece("Tight", t, n))
                      [] r = "two" -> PhaseRule("Tight", "Tight", Unlimited, m)
                      [] r = "three" -> PhaseRule("Tight", u[1], Unlimited, u[2])],
                << "one", "two" >> \o again \o << "three" >>)
       : t \in FirstTexts, n \in {Un("length", Get("t")), Number(2)}, m \in Middles,
         u \in Results, again \in {<< >>, << "two" >>}}

WithPhases == TwoPhases \cup ThreePhases

-----------------------------------------------------------------------------
(* Processes over many records.  Hints and input modes over rules that      *)
(* answer true and false, number rules, rules that can fail and a recursive *)
(* one; executions whose phases are texts, numbers and bools.               *)

Batch(body, type, span, hint, mode) ==
    [rules |-> [r \in {"main"} |-> body], span |-> span, type |-> type,
     hint |-> hint, mode |-> mode]

Answers == {Bin("gt", Field, Number(2)), Bin("gt", Field, Number(0)), Bin("lt", Field, Number(3)),
            Bin("gt", Bin("div", Number(3), Field), Number(1)),
            Un("not", Bin("gt", Field, Number(0)))}
Amounts == {Bin("sub", Field, Number(1)), Bin("mod", Number(3), Field),
            If(Bin("lt", Field, Number(2)), Number(1), Bin("add", Field, Self(1)))}

Typed == {<<b, "bool">> : b \in Answers} \cup {<<b, "number">> : b \in Amounts}

Hinted ==
    {Batch(b[1], b[2], s, h, m) : b \in Typed, s \in {AllWords, Between(0, 4)},
                                  h \in {"none", "vectorizable", "parallel"},
                                  m \in {"argv", "stream"}}

SomeArguments == UNION {[1..n -> {0, 1, 3, 5}] : n \in 0..3}
SomeLines == UNION {[1..n -> {0, 1, 3}] : n \in 0..2} \cup {<< 3, 5, 0 >>}
SomeStreams == UNION {[1..n -> SomeLines] : n \in 0..2}

SequenceRules ==
    [r \in {"sum", "sign", "label", "even", "tail"} |->
        CASE r = "sum" -> StrictRule("number", Whole, << >>, Bin("sub", A, Number(1)))
          [] r = "sign" -> StrictRule("bool", << >>, << <<"s", Call("sum", Name("it"))>> >>,
                                      Bin("ge", Name("s"), Number(0)))
          [] r = "tail" -> StrictRule("number", <<-8, 7>>, << >>, Bin("min", A, B))
          [] r = "label" -> [StrictRule("text", << >>, << >>,
                                        If(Bin("gt", A, B), Concat(<< A, Lit(<<"x">>) >>), Lit(<<"y">>)))
                               EXCEPT !.max = 3]
          [] r = "even" -> StrictRule("bool", << >>, << >>,
                                      Bin("eq", Call("label", Name("it")), Lit(<<"y">>)))]

Sequences ==
    {[rules |-> SequenceRules, concepts |-> StrictConcepts, sequence |-> s]
       : s \in UNION {[1..n -> DOMAIN SequenceRules] : n \in 2..3}}

SomeBatches ==
    UNION {[1..n -> {[a |-> Num(a), b |-> Num(b)] : a \in {-1, 2, 5}, b \in {-2, 3}}] : n \in 0..2}

-----------------------------------------------------------------------------
(* Rules over a collection: of records with one number, of numbers, or of   *)
(* the bytes of a text.  Some predicates fail on some elements, some names  *)
(* are used twice.                                                          *)

Overall(elements, scalar, type, span, lets, logic) ==
    [elements |-> elements, scalar |-> scalar, type |-> type, span |-> span,
     lets |-> lets, logic |-> logic]

Mappings == {Bin("sub", Field, Number(1)), Bin("div", Number(3), Field), Bin("div", Field, Number(2)),
           Bin("sub", Local("a"), Bin("mul", Field, Local("a"))),
           If(Bin("gt", Field, Local("a")), Un("neg", Field), Local("a"))}
Predicates == {Bin("gt", Field, Local("a")), Bin("eq", Bin("mod", Number(3), Field), Number(0)),
               Bin("and", Bin("ne", Field, Number(0)), Bin("gt", Bin("div", Number(3), Field), Local("a"))),
               Bin("ge", Field, Number(0))}

ListLets == { << <<"a", Scalar>> >>, << <<"b", Bin("sub", Scalar, Number(1))>>,
                                        <<"a", Bin("div", Number(3), Local("b"))>> >> }

Accumulated ==
    {Bin("add", Local("t"), x) : x \in Mappings}
    \cup {Bin("max", x, Local("t")) : x \in Mappings}
    \cup {If(q, Bin("add", Local("t"), Number(1)), Local("t")) : q \in Predicates}

AllOf(q) == <<"all", q>>
AnyOf(q) == <<"any", q>>

Nested ==
    {If(AllOf(q), Local("a"), If(AnyOf(r), Number(1), Scalar)) : q \in Predicates, r \in Predicates}
Asked ==
    {AllOf(q) : q \in Predicates} \cup {AnyOf(q) : q \in Predicates}
    \cup {Bin(op, AnyOf(q), Un("not", AllOf(Bin("lt", Field, Scalar))))
             : op \in LogicOps \cup {"eq"}, q \in Predicates}

OfRecords ==
    {Overall("record", "k", "number", s, l, <<"map", x>>)
       : s \in {Unknown, Between(0, 4)}, l \in ListLets, x \in Mappings}
    \cup {Overall("record", "k", "bool", Unknown, l, <<"map", q>>) : l \in ListLets, q \in Predicates}
    \cup {Overall("record", "k", "record", Between(-1, 4), l, <<"filter", q>>) : l \in ListLets, q \in Predicates}
    \cup {Overall("record", "k", "number", s, l, <<"fold", 2, "t", x>>)
             : s \in {Unknown, Between(0, 4)}, l \in ListLets, x \in Accumulated}
    \cup {Overall("record", "k", "number", Between(0, 4), l, x) : l \in ListLets, x \in Nested}
    \cup {Overall("record", "k", "bool", Unknown, l, x) : l \in ListLets, x \in Asked}

OfNumbers ==
    {Overall("number", "k", "number", Unknown, << <<"a", Scalar>> >>, <<"map", x>>)
       : x \in {Bin("sub", Item, Bin("mul", Item, Local("a"))), Bin("div", Local("a"), Item)}}
    \cup {Overall("number", "k", "number", Unknown, << <<"a", Scalar>> >>, <<"filter", q>>)
             : q \in {Bin("gt", Item, Local("a")), Bin("lt", Local("a"), Bin("mod", Item, Number(2)))}}

OfText ==
    {Overall("bytes", "k", "number", Unknown, l, <<"fold_bytes", 1, x>>)
       : l \in {<< >>, << <<"a", Scalar>> >>, << <<"a", Bin("add", Scalar, Number(1))>> >>},
         x \in {Bin("sub", Bin("mul", Local("acc"), Number(3)), Bin("sub", Local("byte"), Scalar)),
                If(Bin("eq", Local("byte"), Number(3)), Local("idx"), Local("acc")),
                Bin("add", Local("acc"), Bin("div", Local("byte"), Local("idx"))),
                Bin("min", Local("acc"), Local("a"))}}

\* The field of the record and the field of the element have one name, or a let
\* has it; a byte rule with a let that adds.
OneName ==
    {Overall("record", "v", "record", Unknown, << >>, <<"filter", Bin("gt", Field, Scalar)>>),
     Overall("record", "k", "number", Unknown, << <<"v", Scalar>> >>, <<"map", Bin("sub", Field, Local("v"))>>)}

SharedCounter == {p \in OfText : p.lets # << >> /\ Kind(p.lets[1][2]) = "bin"}

OverLists == OfRecords \cup OfNumbers \cup OfText \cup OneName

SomeItems == UNION {[1..n -> {0, 1, 3, -3}] : n \in 0..2} \cup {<< 1, 0, 3 >>, << 3, 5, 1 >>}
SomeLists ==
    {<< >>} \cup {<< [k |-> k, items |-> i] >> : k \in {1, 2}, i \in SomeItems}
    \cup {<< [k |-> 2, items |-> i], [k |-> 1, items |-> j] >>
             : i \in {<< >>, << 3, 0 >>}, j \in {<< >>, << 1, 5 >>}}

Processes == Agreeing \cup Hinted \cup OverLists

\* A declared range, with and without a hint.
Unchecked == {Batch(Bin("gt", Field, Number(0)), "bool", Between(0, 4), h, "argv")
                : h \in {"none", "vectorizable", "parallel"}}

\* The hints, and the two defects of rules over a collection.
Unpromised == Unchecked \cup OneName \cup SharedCounter

-----------------------------------------------------------------------------

WithBounds == WithText \cup WithContract \cup WithPhases \cup Sequences

=============================================================================

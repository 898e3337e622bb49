---------------------------- MODULE Collections ----------------------------
(***************************************************************************)
(* Programs over a collection: rules whose record ends with a collection,  *)
(* and which map it, filter it, fold it, or ask for all or any of its      *)
(* elements; and rules that fold the bytes of a text.                      *)
(*                                                                         *)
(* A program is [lets, logic, type, elements, span, scalar].  The record w *)
(* has one number, w.<scalar>, and then its elements: records e with one   *)
(* number e.v of the range span, numbers, or the bytes of a text s.  The   *)
(* leaves are Field for e.v, Scalar for w.<scalar>, and locals; Item is an *)
(* element that is a number.                                               *)
(***************************************************************************)
EXTENDS RecordProgram

Local(x) == <<"local", x>>
Scalar == <<"scalar">>
Item == Local("x")

IsCollection(p) == "elements" \in DOMAIN p
OfBytes(p) == p.elements = "bytes"

-----------------------------------------------------------------------------
(* Quantifiers become folds: one at the top is the fold itself, the others  *)
(* are computed in one pass before the expression they stand in.            *)

IsQuantifier(e) == Kind(e) \in {"all", "any"}

Desugared(q, acc) ==
    IF Kind(q) = "all"
    THEN <<"fold", 1, acc, <<"if", q[2], Local(acc), Number(0)>>>>
    ELSE <<"fold", 0, acc, <<"if", q[2], Number(1), Local(acc)>>>>

\* extract_quantifiers, which looks below if, binary operators, not and neg:
\* the quantifiers from left to right ...
RECURSIVE Quantifiers(_)
Quantifiers(e) ==
    CASE IsQuantifier(e) -> << e >>
      [] Kind(e) = "if" -> Quantifiers(e[2]) \o Quantifiers(e[3]) \o Quantifiers(e[4])
      [] Kind(e) = "bin" /\ e[2] \notin BuiltinOps -> Quantifiers(e[3]) \o Quantifiers(e[4])
      [] Kind(e) = "un" /\ e[2] \in {"neg", "not"} -> Quantifiers(e[3])
      [] OTHER -> << >>

FoldName(i) == << "__fold_0", "__fold_1", "__fold_2" >>[i]

\* ... and the expression with their names instead, the first one being i.
RECURSIVE Extracted(_, _)
Extracted(e, i) ==
    CASE IsQuantifier(e) -> Local(FoldName(i))
      [] Kind(e) = "if" ->
            <<"if", Extracted(e[2], i), Extracted(e[3], i + Len(Quantifiers(e[2]))),
              Extracted(e[4], i + Len(Quantifiers(e[2]) \o Quantifiers(e[3])))>>
      [] Kind(e) = "bin" /\ e[2] \notin BuiltinOps ->
            <<"bin", e[2], Extracted(e[3], i), Extracted(e[4], i + Len(Quantifiers(e[3])))>>
      [] Kind(e) = "un" /\ e[2] \in {"neg", "not"} -> <<"un", e[2], Extracted(e[3], i)>>
      [] OTHER -> e

\* optimize_program: the ranges of the element are not those of the input.
OptimizedCollection(p) ==
    [p EXCEPT !.logic = Optimized(@, Unknown),
              !.lets = [i \in DOMAIN @ |-> << @[i][1], Optimized(@[i][2], Unknown) >>]]

\* compile_native_code: which emitter the rule gets
Effective(e) == IF IsQuantifier(e) THEN Desugared(e, "__acc") ELSE e

Form(p) ==
    LET kind == Kind(Effective(p.logic))
    IN  IF kind \in {"map", "filter", "fold", "fold_bytes"} THEN kind ELSE "multi_fold"

\* The folds of one pass over the elements.
FoldsOf(p) ==
    CASE Form(p) = "fold" -> << Effective(p.logic) >>
      [] Form(p) = "multi_fold" ->
            LET found == Quantifiers(p.logic)
            IN  [i \in DOMAIN found |-> Desugared(found[i], FoldName(i))]
      [] OTHER -> << >>

-----------------------------------------------------------------------------
(* The frame: the fields of the record, a word for the element, the lets    *)
(* and the accumulators.  A rule over bytes has the accumulator, the byte   *)
(* and its index before the lets.                                           *)

ScalarSlot == 1
ElementSlot == 2
BytesAcc == 3
BytesByte == 4
BytesIndex == 5

LetSlot(p, i) == i + IF OfBytes(p) THEN BytesIndex ELSE ElementSlot
AccSlot(p, i) == ElementSlot + Len(p.lets) + i
FrameWords(p) == LetSlot(p, Len(p.lets)) + Len(FoldsOf(p))

\* Names are inserted into the offsets one by one: a later let of the same
\* name replaces an earlier one, and the field of the record.
WithLetOffsets(p, n, base) ==
    [x \in {p.lets[i][1] : i \in 1..n} |->
        LetSlot(p, Max({i \in 1..n : p.lets[i][1] = x}))] @@ base

RecordOffsets(p) ==
    IF OfBytes(p)
    THEN ("acc" :> BytesAcc) @@ ("byte" :> BytesByte) @@ ("idx" :> BytesIndex)
         @@ (p.scalar :> ScalarSlot) @@ ("s" :> ElementSlot)
    ELSE p.scalar :> ScalarSlot

LambdaName(p) == IF p.elements = "number" THEN "x" ELSE "v"

AccOffsets(p) ==
    LET folds == FoldsOf(p)
    IN  [x \in {folds[i][3] : i \in DOMAIN folds} |->
            AccSlot(p, CHOOSE i \in DOMAIN folds : folds[i][3] = x)]

\* The element and the accumulators come first.  Of the record's own names the
\* lets are added where they are new; only multi_fold adds its fields.
BodyOffsets(p) ==
    LET own == AccOffsets(p) @@ (LambdaName(p) :> ElementSlot)
        outer == WithLetOffsets(p, Len(p.lets), RecordOffsets(p))
        hidden == IF Form(p) = "multi_fold" THEN {} ELSE {p.scalar}
    IN  IF OfBytes(p) THEN outer
        ELSE own @@ [x \in DOMAIN outer \ hidden |-> outer[x]]

FinalOffsets(p) == WithLetOffsets(p, Len(p.lets), RecordOffsets(p)) @@ AccOffsets(p)

Context(p, offsets, span) ==
    [labels |-> {}, inRbx |-> FALSE, span |-> span, offsets |-> offsets,
     field |-> "v", scalar |-> p.scalar]

LetContext(p, i) == Context(p, WithLetOffsets(p, i - 1, RecordOffsets(p)), Unknown)
BodyContext(p) == Context(p, BodyOffsets(p), p.span)
FinalContext(p) == Context(p, FinalOffsets(p), Unknown)

-----------------------------------------------------------------------------
(* What is refused *)

\* emit_eval_expr finds no word for a name, or meets a quantifier.
Resolves(ctx, e) ==
    \A x \in Parts(e) :
        /\ ~IsQuantifier(x)
        /\ Kind(x) \in {"field", "scalar", "local"} => NameOf(ctx, x) \in DOMAIN ctx.offsets

CollectionAccepted(p) ==
    /\ \A i \in DOMAIN p.lets : Resolves(LetContext(p, i), p.lets[i][2])
    /\ CASE Form(p) \in {"map", "filter"} ->
              Resolves(BodyContext(p), p.logic[2])
         [] Form(p) = "fold_bytes" -> Resolves(BodyContext(p), p.logic[3])
         [] OTHER ->
              /\ p.elements = "record" /\ FoldsOf(p) # << >>
              /\ \A i \in DOMAIN FoldsOf(p) : Resolves(BodyContext(p), FoldsOf(p)[i][4])
              /\ Form(p) = "multi_fold" => Resolves(FinalContext(p), Extracted(p.logic, 1))

-----------------------------------------------------------------------------
(* The emitted parts *)

LetCode(p, i) == Emit(<< >>, LetContext(p, i), p.lets[i][2]) \o << StoreRax(LetSlot(p, i)) >>

FoldCode(p, i) ==
    Emit(<< >>, BodyContext(p), FoldsOf(p)[i][4]) \o << StoreRax(AccSlot(p, i)) >>

SeedCode(p, i) == << Imm("rax", FoldsOf(p)[i][2]), StoreRax(AccSlot(p, i)) >>

\* The pointer and the number of bytes left wait on the stack.
ByteCode(p) ==
    << Push("rsi"), Push("rcx") >> \o Emit(<< >>, BodyContext(p), p.logic[3])
    \o << Pop("rcx"), Pop("rsi") >>

InOrder(Code(_, _), p, n) == FlattenSeq([i \in 1..n |-> Code(p, i)])

CollectionImage(p) ==
    LET folds == Len(FoldsOf(p))
    IN  [lets |-> InOrder(LetCode, p, Len(p.lets)),
         element |-> IF OfBytes(p) THEN BytesByte ELSE BodyOffsets(p)[LambdaName(p)],
         seeds |-> IF OfBytes(p)
                   THEN << Imm("rax", p.logic[2]), StoreRax(BytesAcc),
                           Imm("rax", 0), StoreRax(BytesIndex) >>
                   ELSE InOrder(SeedCode, p, folds),
         body |-> CASE Form(p) \in {"map", "filter"} ->
                         Emit(<< >>, BodyContext(p), p.logic[2])
                    [] Form(p) = "fold_bytes" -> ByteCode(p)
                    [] OTHER -> InOrder(FoldCode, p, folds),
         last |-> CASE Form(p) = "fold" -> << <<"load", "rax", AccSlot(p, 1)>> >>
                    [] Form(p) = "fold_bytes" -> << <<"load", "rax", BytesAcc>> >>
                    [] Form(p) = "multi_fold" ->
                         Emit(<< >>, FinalContext(p), Extracted(p.logic, 1))
                    [] OTHER -> << >>]

-----------------------------------------------------------------------------
(* The process: what it has shown, the index of the next argument (r14) and *)
(* the machine.  r15 counts the elements that are left.                     *)

Garbage == ReturnAddress    \* a word nobody has stored yet

Begun(p, enough) ==
    [shown |-> IF enough THEN Fresh ELSE Exit(Fresh, 1), next |-> 1,
     m |-> Machine([i \in 1..FrameWords(p) |-> Garbage])]

After(s, m) ==
    [s EXCEPT !.m = m, !.shown = IF m.trapped THEN Exit(@, Signal) ELSE @]

Proceed(s, code) == IF Alive(s.shown) THEN After(s, Execute(<< >>, code, s.m)) ELSE s

\* The next argument, as a number.  Behind the last one is a null pointer.
NextWord(s, argv) ==
    IF s.next \in DOMAIN argv
    THEN [s EXCEPT !.m.reg["rax"] = argv[s.next], !.next = @ + 1]
    ELSE [s EXCEPT !.shown = Exit(@, Signal)]

NextWordInto(s, argv, code) == Proceed(NextWord(s, argv), code)

\* The lets see the fields only; the number of elements is read after them.
RecordHead(image, argv, s) ==
    NextWordInto(Proceed(NextWordInto(s, argv, << StoreRax(ScalarSlot) >>), image.lets),
             argv, << Mov("r15", "rax") >> \o image.seeds)

\* A filter prints the element, not the answer of its predicate.
ShowElement(p, image, s) ==
    [s EXCEPT !.shown =
        CASE Form(p) = "map" -> Turn(@, p.type = "bool", TRUE, Answer(s.m))
          [] Form(p) = "filter" /\ s.m.reg["rax"] # 0 ->
                Turn(@, FALSE, TRUE, Num(s.m.stack[image.element]))
          [] OTHER -> @]

Counted(s) == [s EXCEPT !.m.reg["r15"] = @ - 1]

OneElement(p, image, argv, s) ==
    Counted(ShowElement(p, image,
                Proceed(NextWordInto(s, argv, << StoreRax(image.element) >>), image.body)))

RECURSIVE Elements(_, _, _, _)
Elements(p, image, argv, s) ==
    IF ~Alive(s.shown) \/ s.m.reg["r15"] = 0 THEN s
    ELSE Elements(p, image, argv, OneElement(p, image, argv, s))

ShowResultOf(p, s) == [s EXCEPT !.shown = Turn(@, p.type = "bool", TRUE, Answer(s.m))]

RecordEnd(p, image, s) ==
    IF Form(p) \in {"map", "filter"} THEN s
    ELSE ShowResultOf(p, Proceed(s, image.last))

RECURSIVE RecordsOf(_, _, _, _)
RecordsOf(p, image, argv, s) ==
    IF ~Alive(s.shown) \/ s.next > Len(argv) THEN s
    ELSE RecordsOf(p, image, argv,
             RecordEnd(p, image, Elements(p, image, argv, RecordHead(image, argv, s))))

\* The byte loop counts in rcx and points with rsi.  What lies behind a text
\* is not ours to read: here it is a fault.
OneByte(image, text, s) ==
    Proceed([s EXCEPT !.m.reg["rax"] = text[s.m.reg["rsi"]]],
            << StoreRax(image.element) >> \o image.body \o << StoreRax(BytesAcc) >>)

NextByte(s) ==
    [s EXCEPT !.m.reg["rsi"] = @ + 1, !.m.reg["rcx"] = @ - 1, !.m.stack[BytesIndex] = @ + 1]

RECURSIVE BytesOf(_, _, _)
BytesOf(image, text, s) ==
    IF ~Alive(s.shown) \/ s.m.reg["rcx"] = 0 THEN s
    ELSE IF s.m.reg["rsi"] \notin DOMAIN text THEN [s EXCEPT !.shown = Exit(@, Signal)]
    ELSE BytesOf(image, text, NextByte(OneByte(image, text, s)))

PointAt(s, text) == [s EXCEPT !.m.reg["rsi"] = 1, !.m.reg["rcx"] = Len(text)]

\* emit_fold_bytes_program: the first record, and only that one
RunBytes(p, image, record) ==
    LET loaded == Proceed(NextWord(Begun(p, TRUE), << record.k >>),
                          << StoreRax(ScalarSlot) >> \o image.seeds)
        bound == Proceed(PointAt(loaded, record.items), image.lets)
    IN  ShowResultOf(p, Proceed(BytesOf(image, record.items, bound), image.last))

\* A record among the arguments: the number, the number of its elements, and
\* the elements.
Words(records) ==
    FlattenSeq([i \in DOMAIN records |->
        << records[i].k, Len(records[i].items) >> \o records[i].items])

RunCollection(p, image, records) ==
    Seen(Finish(
        IF OfBytes(p)
        THEN IF records = << >> THEN Begun(p, FALSE).shown
             ELSE RunBytes(p, image, records[1]).shown
        ELSE RecordsOf(p, image, Words(records), Begun(p, records # << >>)).shown))

-----------------------------------------------------------------------------
(* eval_expr: the names in scope are replaced by their values.  A name that *)
(* is bound again hides the outer one.                                      *)

ElementLeaf(p) == IF p.elements = "number" THEN Item ELSE Field

RECURSIVE InScope(_, _, _, _)

ValueOf(p, e, env, items) == Eval(<< >>, InScope(p, e, env, items), 0)

InLambda(p, env, v) == (ElementLeaf(p) :> Num(v)) @@ env

\* The first element that decides, or fails, is the last one asked.
Quantified(kind, answers) ==
    LET deciding == {i \in DOMAIN answers : Failed(answers[i]) \/ answers[i] = Bool(kind = "any")}
    IN  IF deciding = {} THEN Bool(kind = "all") ELSE answers[Min(deciding)]

InScope(p, e, env, items) ==
    CASE e \in DOMAIN env -> <<"value", env[e]>>
      [] IsQuantifier(e) ->
            <<"value", Quantified(Kind(e),
                [i \in DOMAIN items |-> ValueOf(p, e[2], InLambda(p, env, items[i]), items)])>>
      [] Kind(e) = "un" -> <<"un", e[2], InScope(p, e[3], env, items)>>
      [] Kind(e) = "bin" ->
            <<"bin", e[2], InScope(p, e[3], env, items), InScope(p, e[4], env, items)>>
      [] Kind(e) = "if" ->
            <<"if", InScope(p, e[2], env, items), InScope(p, e[3], env, items),
              InScope(p, e[4], env, items)>>
      [] Kind(e) = "num" -> e

LetsOf(p, record) ==
    LET Bind(env, let) == (Local(let[1]) :> ValueOf(p, let[2], env, record.items)) @@ env
    IN  FoldLeft(Bind, Scalar :> Num(record.k), p.lets)

FoldedElements(p, env, items) ==
    LET Step1(acc, v) ==
            IF Failed(acc) THEN acc
            ELSE ValueOf(p, p.logic[4], (Local(p.logic[3]) :> acc) @@ InLambda(p, env, v), items)
    IN  FoldLeft(Step1, Num(p.logic[2]), items)

FoldedBytes(p, env, items) ==
    LET Step1(acc, i) ==
            IF Failed(acc) THEN acc
            ELSE ValueOf(p, p.logic[3],
                         (Local("acc") :> acc) @@ (Local("byte") :> Num(items[i]))
                         @@ (Local("idx") :> Num(i - 1)) @@ env, items)
    IN  FoldLeft(Step1, Num(p.logic[2]), [i \in DOMAIN items |-> i])

ResultOf(p, env, items) ==
    CASE Kind(p.logic) = "fold" -> FoldedElements(p, env, items)
      [] Kind(p.logic) = "fold_bytes" -> FoldedBytes(p, env, items)
      [] OTHER -> ValueOf(p, p.logic, env, items)

AsShown(out) == IF Failed(out) THEN Error ELSE Num(AsWord(out))

\* The lines of one record.  A program prints element by element: the lines
\* of the elements before one that fails are out.
PromisedLines(p, q, env, items) ==
    LET Answered(v) == ValueOf(p, p.logic[2], InLambda(p, env, v), items)
        Mapped(t, v) == Turn(t, p.type = "bool", TRUE, AsShown(Answered(v)))
        Kept(t, v) == IF Answered(v) = Bool(FALSE) THEN t
                      ELSE Turn(t, FALSE, TRUE, IF Failed(Answered(v)) THEN Error ELSE Num(v))
    IN  CASE Kind(p.logic) = "map" -> FoldLeft(Mapped, q, items)
          [] Kind(p.logic) = "filter" -> FoldLeft(Kept, q, items)
          [] OTHER -> Turn(q, p.type = "bool", TRUE, AsShown(ResultOf(p, env, items)))

LetFails(p, env) == \E i \in DOMAIN p.lets : Failed(env[Local(p.lets[i][1])])

PromisedCollection(p, records) ==
    LET One(q, record) ==
            LET env == LetsOf(p, record)
            IN  IF LetFails(p, env) THEN Exit(q, Signal)
                ELSE PromisedLines(p, q, env, record.items)
    IN  Seen(Finish(FoldLeft(One, ArgcGuard(Fresh, records), records)))

\* What the code leaves to the caller.  The declared range of an element is
\* relied on and not checked.
ElementsInRange(p, records) ==
    \A i \in DOMAIN records : \A v \in Range(records[i].items) : Holds(p.span, v)

\* All predicates are evaluated for all elements, so one that fails where the
\* source would not have asked is a fault.
PredicatesTotal(p, records) ==
    \A i \in DOMAIN records, q \in Range(Quantifiers(p.logic)) :
        \A v \in Range(records[i].items) :
            ~Failed(ValueOf(p, q[2], InLambda(p, LetsOf(p, records[i]), v), records[i].items))

\* All names are one namespace.
NamesApart(p) ==
    IsInjective((IF OfBytes(p) THEN << "acc", "byte", "idx", "s" >>
                 ELSE << LambdaName(p) >> \o [i \in DOMAIN FoldsOf(p) |-> FoldsOf(p)[i][3]])
                \o << p.scalar >> \o [i \in DOMAIN p.lets |-> p.lets[i][1]])

\* A rule over bytes has one record, and a let with an operator uses the
\* register that already counts its bytes.
CounterKept(p, records) ==
    OfBytes(p) =>
        /\ Len(records) <= 1
        /\ \A i \in DOMAIN p.lets : \A e \in Parts(p.lets[i][2]) : Kind(e) # "bin"

ListRegular(p, records) ==
    /\ ElementsInRange(p, records) /\ PredicatesTotal(p, records)
    /\ NamesApart(p) /\ CounterKept(p, records)

=============================================================================

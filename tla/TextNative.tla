----------------------------- MODULE TextNative -----------------------------
(***************************************************************************)
(* Native code of bounded text rules (native/bounded_text.rs): one frame   *)
(* holds every word and every text buffer of an invocation, and all of     *)
(* their places are chosen before the program runs.                        *)
(*                                                                         *)
(* Words and buffers are symbolic while code is emitted.  The layout then  *)
(* lets words (slots.rs) and buffers (storage.rs) share a place when the   *)
(* last use of one precedes the first of the other.  Times are positions   *)
(* in the emitted code for words, ticks of a clock for buffers.            *)
(***************************************************************************)
EXTENDS TextSource

CONSTANTS
    WordBytes,      \* bytes of a word, and the alignment of buffers; 8
    FixedScratch,   \* bytes of saved registers and conversions; 48
    FrameLimit      \* bytes of a frame; 2 MiB

ASSUME FrameAssumption ==
    /\ WordBytes \in Nat \ {0}
    /\ FixedScratch \in Nat
    /\ FrameLimit \in Nat

Nowhere == << >>       \* no destination

-----------------------------------------------------------------------------
(* Emission.  A step gives the emitter's next state, or a pair of it and    *)
(* the descriptor of a value: <<"number", slot>>, <<"bool", slot>>,         *)
(* <<"text", ptr, len, cap>>, <<"input">>, <<"record", concept, fields>>.   *)

With(s, v) == [s |-> s, v |-> v]

\* Op applied to a value that TLC computes first, instead of when it is needed.
Strictly(Op(_), value) == CHOOSE y \in {Op(x) : x \in {value}} : TRUE

EmptyEmitter ==
    [code |-> << >>, words |-> << >>, fields |-> << >>,
     pointers |-> << >>, buffers |-> << >>, clock |-> 0,
     scopes |-> << << >> >>, current |-> 1]

Asm(s, instruction) == [s EXCEPT !.code = Append(@, instruction)]
Load(s, reg, slot) == Asm(s, <<"load", reg, slot>>)
Store(s, reg, slot) == Asm(s, <<"store", reg, slot>>)

\* A jump forward, and its landing at the end of the code emitted so far.
Jump(s, when) == Asm(s, <<"jump", when, 0>>)
FinishJump(s, site) == [s EXCEPT !.code[site][3] = Len(s.code) + 1]

NewWord(s) == [s EXCEPT !.words = Append(@, Len(s.code))]
Newest(s) == Len(s.words)

\* Emit::scalar and Emit::text
ScalarWord(s, kind) ==
    LET slot == Newest(s) + 1
    IN  With(Store(NewWord(s), "rax", slot), <<kind, slot>>)

TextWords(s, cap) ==
    LET ptr == Newest(s) + 1
        pointer == [sources |-> {}, buffer |-> 0, last |-> 0]
    IN  With(NewWord([NewWord(s) EXCEPT !.pointers = (ptr :> pointer) @@ @]),
             <<"text", ptr, ptr + 1, cap>>)

\* Storage::touch; a record touches all the text it holds.
Touch(s, ptr) ==
    [s EXCEPT !.clock = @ + 1, !.pointers[ptr].last = s.clock + 1]

UseValue(s, v) ==
    CASE v[1] = "text" -> Touch(s, v[2])
      [] v[1] = "record" ->
            FoldLeft(LAMBDA t, f : IF f[2][1] = "text" THEN Touch(t, f[2][2]) ELSE t,
                     s, v[3])
      [] OTHER -> s

\* Emit::destination with Storage::reserve.  The capacity of a rule's result
\* is filled in when its body has been emitted.
Destination(s, cap) ==
    LET ptr == Newest(s) + 1
        id == Len(s.buffers) + 1
        reserved == [TextWords(s, 0).s EXCEPT
                         !.clock = @ + 1,
                         !.pointers[ptr].buffer = id,
                         !.scopes[s.current] = Append(@, <<"buffer", id>>),
                         !.code = Append(@, <<"address", id>>),
                         !.buffers = Append(@, [cap |-> cap, first |-> s.clock + 1])]
    IN  With(Store(reserved, "rax", ptr), <<ptr, ptr + 1>>)

\* Storage::alias: a joined pointer may be either of its sources.
Alias(s, dest, source) ==
    IF dest = source THEN s
    ELSE [s EXCEPT !.pointers[dest].sources = @ \cup {source}]

\* Emit::field: the word or words of an input field, on its first mention.
AddField(x, f) == With([x.s EXCEPT !.fields = Append(@, <<f, x.v>>)], x.v)

InputField(s, concept, f) ==
    LET known == SelectSeq(s.fields, LAMBDA x : x[1] = f)
        d == FieldOf(concept, f)
    IN  IF known # << >> THEN With(s, known[1][2])
        ELSE AddField(IF d.type = "text" THEN TextWords(s, d.hi)
                      ELSE With(NewWord(s), <<"number", Newest(s) + 1>>), f)

\* The fields of a record, collected one after the other.
WithField(x, f, fields) == With(x.s, Append(fields, <<f, x.v>>))
AsRecord(all, concept) == With(all.s, <<"record", concept, all.v>>)

\* materialize_input
Materialized(x, concept) ==
    IF x.v[1] # "input" THEN x
    ELSE LET Add(acc, d) == WithField(InputField(acc.s, concept, d.name), d.name, acc.v)
         IN  AsRecord(FoldLeft(Add, With(x.s, << >>), concept), "input")

Component(v, f) == SelectSeq(v[3], LAMBDA x : x[1] = f)[1][2]

\* copy_text: the value ends in the destination, unless it is already there.
CopyText(x, dest) ==
    LET asm == << <<"load", "rdi", dest[1]>>, <<"load", "rsi", x.v[2]>>,
                  <<"load", "rcx", x.v[3]>>, <<"movs">>,
                  <<"load", "rdx", x.v[3]>>, <<"store", "rdx", dest[2]>> >>
        used == UseValue(x.s, x.v)
    IN  IF x.v[2] = dest[1] /\ x.v[3] = dest[2] THEN With(used, x.v)
        ELSE With([used EXCEPT !.code = @ \o asm], <<"text", dest[1], dest[2], x.v[4]>>)

\* join_slots: fresh words for the result of a conditional.
RECURSIVE JoinSlots(_, _)
JoinSlots(s, v) ==
    CASE v[1] = "text" -> TextWords(s, v[4])
      [] v[1] \in {"number", "bool"} -> With(NewWord(s), <<v[1], Newest(s) + 1>>)
      [] v[1] = "record" ->
            LET Add(acc, f) == WithField(JoinSlots(acc.s, f[2]), f[1], acc.v)
            IN  AsRecord(FoldLeft(Add, With(s, << >>), v[3]), v[2])

\* move_value: text is joined by its pointer and length only.
RECURSIVE MoveValue(_, _, _)
MoveValue(s, from, to) ==
    CASE from[1] = "record" ->
            FoldLeft(LAMBDA t, f : MoveValue(t, Component(from, f[1]), f[2]), s, to[3])
      [] from[1] = "text" ->
            [Alias(s, to[2], from[2]) EXCEPT !.code = @ \o
                << <<"load", "rax", from[2]>>, <<"load", "rdx", from[3]>>,
                   <<"store", "rax", to[2]>>, <<"store", "rdx", to[3]>> >>]
      [] OTHER -> Store(Load(s, "rax", from[2]), "rax", to[2])

\* join_capacities
RECURSIVE JoinCapacities(_, _)
JoinCapacities(dest, other) ==
    CASE dest[1] = "text" -> [dest EXCEPT ![4] = Upper(@, other[4])]
      [] dest[1] = "record" ->
            [dest EXCEPT ![3] = [i \in DOMAIN @ |->
                <<@[i][1], JoinCapacities(@[i][2], Component(other, @[i][1]))>>]]
      [] OTHER -> dest

\* The arithmetic of one operator, left operand in rax, right one in rcx.
\* What may fail was refused by the analysis.
ApplyText(op) ==
    CASE op \in {"add", "sub", "mul"} -> << <<op>> >>
      [] op = "div" -> << <<"idiv">> >>
      [] op = "mod" -> << <<"idiv">>, <<"mov", "rax", "rdx">> >>
      [] op \in {"min", "max"} -> << <<op>> >>
      [] op \in CompareOps -> << <<"cmp">>, <<"set", op>> >>

DescriptorCapacity(v) == IF v[1] = "text" THEN v[4] ELSE NumberCapacity

\* One operand of a concat, copied or formatted at the cursor in rbx.
AppendValue(s, v) ==
    IF v[1] = "number" THEN Asm(Load(s, "rax", v[2]), <<"itoa">>)
    ELSE Asm(Load(Load(s, "rsi", v[2]), "rcx", v[3]), <<"append">>)

AppendOperand(s, v) == AppendValue(UseValue(s, v), v)

RECURSIVE EmitText(_, _, _, _, _), EmitRule(_, _, _, _, _)

\* A sequence of expressions, in source order.
WithNext(x, values) == With(x.s, Append(values, x.v))
EmitAll(p, s, exprs, env) ==
    FoldLeft(LAMBDA acc, e : WithNext(EmitText(p, acc.s, e, env, Nowhere), acc.v),
             With(s, << >>), exprs)

AppendAll(values, dest, cap) ==
    LET filled == FoldLeft(AppendOperand, Load(dest.s, "rbx", dest.v[1]), values)
    IN  With(Store(Asm(Load(filled, "rax", dest.v[1]), <<"span">>), "rdx", dest.v[2]),
             <<"text", dest.v[1], dest.v[2], cap>>)

ConcatInto(values, cap, given) ==
    AppendAll(values.v,
              IF given # Nowhere THEN With(values.s, given) ELSE Destination(values.s, cap),
              cap)

CapacityOfAll(values) == FoldLeft(LAMBDA n, v : n + DescriptorCapacity(v), 0, values)

EmitConcat(p, s, args, env, given) ==
    LET values == EmitAll(p, s, args, env)
    IN  ConcatInto(values, CapacityOfAll(values.v), given)

\* The right operand is skipped if the left one decides.
JoinRight(right, dest, site) ==
    With(FinishJump(MoveValue(right.s, right.v, dest), site), dest)

EmitRight(p, op, dest, r, env) ==
    LET test == Jump(dest.s, IF op = "and" THEN "zero" ELSE "nonzero")
    IN  JoinRight(EmitText(p, test, r, env, Nowhere), dest.v, Len(test.code))

EmitLogic(p, s, op, l, r, env) ==
    LET left == EmitText(p, s, l, env, Nowhere)
    IN  EmitRight(p, op, ScalarWord(Load(left.s, "rax", left.v[2]), "bool"), r, env)

\* Equal lengths first, then the bytes.
CompareLengths(s, a, b) ==
    Jump(Asm(Load(Load(s, "rax", a[3]), "rcx", b[3]), <<"cmp">>), "unequal")

EmitCompareText(s, a, b, op) ==
    LET lengths == CompareLengths(s, a, b)
        bytes == Asm(Load(Load(lengths, "rsi", a[2]), "rdi", b[2]), <<"cmps">>)
    IN  ScalarWord(Asm(FinishJump(bytes, Len(lengths.code)), <<"set", op>>), "bool")

ApplyOperator(s, l, r, op) ==
    IF l[1] = "text" THEN EmitCompareText(s, l, r, op)
    ELSE ScalarWord([Load(Load(s, "rax", l[2]), "rcx", r[2]) EXCEPT !.code = @ \o ApplyText(op)],
                    IF op \in CompareOps THEN "bool" ELSE "number")

UseOperands(s, l, r, op) ==
    IF op \in CompareOps THEN UseValue(UseValue(s, l), r) ELSE s

EmitOperator(p, s, op, l, r, env) ==
    LET both == EmitAll(p, s, << l, r >>, env)
        left == both.v[1]
        right == both.v[2]
    IN  ApplyOperator(UseOperands(both.s, left, right, op), left, right, op)

\* The buffers created in the two arms of a conditional form a choice of the
\* enclosing scope.
OpenChoice(s) ==
    LET first == Len(s.scopes) + 1
    IN  [s EXCEPT !.scopes =
                      [@ EXCEPT ![s.current] = Append(@, <<"choice", first, first + 1>>)]
                      \o << << >>, << >> >>,
                  !.current = first]

EmitArm(p, s, e, env, dest) ==
    Materialized(EmitText(p, s, e, env, dest), p.concepts[p.rules["main"].input])

\* With a destination both arms fill it; without one both are moved to the
\* same fresh words.
JoinOf(yes, dest) ==
    IF dest = Nowhere THEN JoinSlots(yes.s, yes.v)
    ELSE With(yes.s, <<"text", dest[1], dest[2], yes.v[4]>>)

MoveArm(s, v, join, dest) == IF dest = Nowhere THEN MoveValue(s, v, join) ELSE s

\* At the end of the first arm, whose test is at site.
FinishFirst(yes, join, dest) == Jump(MoveArm(join.s, yes.v, join.v, dest), "always")
SecondArm(s, site) == [FinishJump(s, site) EXCEPT !.current = @ + 1]

FinishSecond(no, join, dest, site, scope) ==
    With([FinishJump(MoveArm(no.s, no.v, join, dest), site) EXCEPT !.current = scope],
         JoinCapacities(join, no.v))

EmitSecond(p, first, site, join, e, env, dest, scope) ==
    FinishSecond(EmitArm(p, SecondArm(first, site), e, env, dest),
                 join, dest, Len(first.code), scope)

JoinFirst(p, yes, join, site, e, env, dest, scope) ==
    EmitSecond(p, FinishFirst(yes, join, dest), site, join.v, e, env, dest, scope)

EmitArms(p, test, a, b, env, dest, scope) ==
    LET yes == EmitArm(p, OpenChoice(test), a, env, dest)
    IN  JoinFirst(p, yes, JoinOf(yes, dest), Len(test.code), b, env, dest, scope)

\* conditional
EmitConditional(p, s, c, a, b, env, dest) ==
    LET cond == EmitText(p, s, c, env, Nowhere)
    IN  EmitArms(p, Jump(Load(cond.s, "rax", cond.v[2]), "zero"), a, b, env, dest, s.current)

EmitLiteral(x, text) ==
    With(Store(Store(Asm(x.s, <<"literal", text>>), "rax", x.v[2]), "rdx", x.v[3]), x.v)

GetField(base, concept, f) ==
    IF base.v[1] = "input" THEN InputField(base.s, concept, f)
    ELSE With(base.s, Component(base.v, f))

UnaryOnText(x, op) ==
    IF op = "length" THEN ScalarWord(Load(x.s, "rax", x.v[3]), "number")
    ELSE ScalarWord(Asm(Load(x.s, "rax", x.v[2]), << op >>),
                    IF op = "not" THEN "bool" ELSE "number")

\* The clock ticks before and after a call.
Tick(s) == [s EXCEPT !.clock = @ + 1]
Returned(x) == With(Tick(x.s), x.v)

\* expr_into without the copy at its end.
EmitForm(p, s, e, env, dest) ==
    LET concept == p.concepts[p.rules["main"].input]
        Sub(x) == EmitText(p, s, x, env, Nowhere)
    IN  CASE Kind(e) = "num" -> ScalarWord(Asm(s, <<"imm", e[2]>>), "number")
          [] Kind(e) = "text" -> EmitLiteral(TextWords(s, Len(e[2])), e[2])
          [] Kind(e) = "name" -> With(s, env[e[2]])
          [] Kind(e) = "get" -> GetField(Sub(e[2]), concept, e[3])
          [] Kind(e) = "un" -> UnaryOnText(Sub(e[3]), e[2])
          [] Kind(e) = "bin" ->
                IF e[2] \in LogicOps THEN EmitLogic(p, s, e[2], e[3], e[4], env)
                ELSE EmitOperator(p, s, e[2], e[3], e[4], env)
          [] Kind(e) = "if" -> EmitConditional(p, s, e[2], e[3], e[4], env, dest)
          [] Kind(e) = "concat" -> EmitConcat(p, s, e[2], env, dest)
          [] Kind(e) = "record" ->
                LET all == EmitAll(p, s, [i \in DOMAIN e[3] |-> e[3][i][2]], env)
                IN  AsRecord(With(all.s, [i \in DOMAIN e[3] |-> <<e[3][i][1], all.v[i]>>]), e[2])
          [] Kind(e) = "call" ->
                LET arg == Sub(e[3])
                IN  Returned(EmitRule(p, Tick(arg.s), e[2], arg.v, dest))

\* expr_into
Delivered(x, dest) == IF dest = Nowhere THEN x ELSE CopyText(x, dest)
Used(x) == With(UseValue(x.s, x.v), x.v)

EmitText(p, s, e, env, dest) ==
    Used(Delivered(Strictly(LAMBDA t : EmitForm(p, t, e, env, dest), s), dest))

\* The capacity of a buffer of the rule's own is that of its result.
SizeBuffer(s, ptr, cap) == [s EXCEPT !.buffers[s.pointers[ptr].buffer].cap = cap]

TextResult(rule, x, dest, owns) ==
    LET cap == IF rule.max = Unlimited THEN x.v[4] ELSE rule.max
    IN  With(IF owns THEN SizeBuffer(x.s, dest[1], cap) ELSE x.s,
             <<"text", dest[1], dest[2], cap>>)

WithLet(x, name, env) == With(x.s, (name :> x.v) @@ env)

EmitBody(p, rule, entered, input, owns) ==
    LET Bind(acc, l) == WithLet(EmitText(p, acc.s, l[2], acc.v, Nowhere), l[1], acc.v)
        bound == FoldLeft(Bind, With(entered.s, "it" :> input), rule.lets)
        x == EmitText(p, bound.s, rule.value, bound.v, entered.v)
    IN  IF rule.type = "text" THEN TextResult(rule, x, entered.v, owns)
        ELSE Materialized(x, p.concepts[p.rules["main"].input])

\* Emit::rule: a rule is expanded at each of its calls.  A text result is
\* produced in the caller's destination or in a buffer of the rule's own.
EmitRule(p, s, r, input, given) ==
    LET rule == p.rules[r]
        owns == rule.type = "text" /\ given = Nowhere
    IN  EmitBody(p, rule, IF owns THEN Destination(s, 0) ELSE With(s, given), input, owns)

-----------------------------------------------------------------------------
(* slots.rs: places of the words *)

WordUses(code, slot) ==
    {i \in DOMAIN code : code[i][1] \in {"load", "store"} /\ code[i][3] = slot}

DescriptorWords(v) ==
    CASE v[1] = "text" -> {v[2], v[3]}
      [] v[1] = "record" ->
            UNION {IF f[2][1] = "text" THEN {f[2][2], f[2][3]} ELSE {f[2][2]}
                     : f \in Range(v[3])}
      [] OTHER -> {v[2]}

\* Inputs are there from the start, results are read after the body.
WordSpan(s, result, slot) ==
    [id |-> slot,
     first |-> IF \E f \in Range(s.fields) : slot \in DescriptorWords(f[2])
               THEN 0 ELSE s.words[slot],
     last |-> IF slot \in DescriptorWords(result) THEN Len(s.code) + 1
              ELSE Max({s.words[slot]} \cup WordUses(s.code, slot))]

\* A place is free again when its last use is over.
Expired(span, first) == span.last < first

PlaceWord(acc, span) ==
    LET over == {a \in acc.active : Expired(a, span.first)}
        free == acc.free \cup {a.place : a \in over}
        place == IF free # {} THEN Min(free) ELSE acc.peak + 1
    IN  [active |-> (acc.active \ over) \cup {[last |-> span.last, place |-> place]},
         free |-> free \ {place},
         peak |-> Upper(acc.peak, place),
         place |-> (span.id :> place) @@ acc.place]

\* Code::layout.  Without a gain the words keep their own numbers.
SharedWords(s, all) ==
    [peak |-> all.peak,
     place |-> IF all.peak = Len(s.words) THEN [i \in DOMAIN s.words |-> i] ELSE all.place]

WordLayout(s, result) ==
    LET order == SortSeq([i \in DOMAIN s.words |-> WordSpan(s, result, i)],
                         LAMBDA a, b : \/ a.first < b.first
                                       \/ a.first = b.first /\ a.id < b.id)
        none == [active |-> {}, free |-> {}, peak |-> 0, place |-> << >>]
    IN  SharedWords(s, FoldLeft(PlaceWord, none, order))

-----------------------------------------------------------------------------
(* storage.rs: places of the buffers *)

\* The pointers that may hold what ptr holds.
RECURSIVE Holders(_, _)
Holders(pointers, set) ==
    LET next == set \cup {q \in DOMAIN pointers : pointers[q].sources \cap set # {}}
    IN  IF next = set THEN set ELSE Holders(pointers, next)

\* propagate: a use of a joined pointer is a use of every source.
LastUse(pointers, ptr) == Max({pointers[q].last : q \in Holders(pointers, {ptr})})

Aligned(n) == WordBytes * ((n + WordBytes - 1) \div WordBytes)

BufferSpan(s, id) ==
    LET b == s.buffers[id]
        owner == CHOOSE ptr \in DOMAIN s.pointers : s.pointers[ptr].buffer = id
    IN  [size |-> Aligned(b.cap), first |-> b.first,
         last |-> Upper(b.first, LastUse(s.pointers, owner))]

\* Free::release merges a hole with its neighbours.
Release(holes, hole) ==
    LET near == {h \in holes : h.start + h.size = hole.start \/ hole.start + hole.size = h.start}
        all == near \cup {hole}
    IN  (holes \ near) \cup {[start |-> Min({h.start : h \in all}),
                             size |-> FoldSet(LAMBDA h, n : n + h.size, 0, all)]}

\* Free::take: the best fit, else the last hole if it can grow, else new room.
Take(holes, size, extent) ==
    LET fits == {h \in holes : h.size >= size}
        best == CHOOSE h \in fits : \A g \in fits :
                    h.size < g.size \/ (h.size = g.size /\ h.start <= g.start)
        tail == {h \in holes : h.start + h.size = extent}
        end == CHOOSE h \in tail : TRUE
    IN  IF fits # {}
        THEN [start |-> best.start,
              holes |-> IF best.size = size THEN holes \ {best}
                        ELSE Release(holes \ {best}, [start |-> best.start + size,
                                                     size |-> best.size - size])]
        ELSE IF tail # {} THEN [start |-> end.start, holes |-> holes \ {end}]
        ELSE [start |-> extent, holes |-> holes]

Occupy(acc, others, span, taken) ==
    [active |-> others \cup {[last |-> span.last, start |-> taken.start, size |-> span.size]},
     holes |-> taken.holes,
     extent |-> Upper(acc.extent, taken.start + span.size),
     starts |-> Append(acc.starts, taken.start)]

PlaceBuffer(acc, span) ==
    LET over == {a \in acc.active : Expired(a, span.first)}
        holes == FoldSet(LAMBDA a, h : Release(h, [start |-> a.start, size |-> a.size]),
                         acc.holes, over)
    IN  IF span.size = 0 THEN [acc EXCEPT !.starts = Append(@, 0)]
        ELSE Occupy(acc, acc.active \ over, span, Take(holes, span.size, acc.extent))

\* place
Placed(spans) ==
    FoldLeft(PlaceBuffer, [active |-> {}, holes |-> {}, extent |-> 0, starts |-> << >>], spans)

\* overlay: the arms of a choice share one region, as large as the larger
\* one and alive as long as anything in either.
Either(a, b) ==
    [size |-> Upper(a.size, b.size), first |-> Lower(a.first, b.first),
     last |-> Upper(a.last, b.last)]

RECURSIVE Region(_, _, _)
MemberSpan(s, spans, m) ==
    IF m[1] = "buffer" THEN spans[m[2]]
    ELSE Either(Region(s, spans, m[2]), Region(s, spans, m[3]))

MemberSpans(s, spans, scope) ==
    [i \in DOMAIN s.scopes[scope] |-> MemberSpan(s, spans, s.scopes[scope][i])]

\* An arm without buffers has no lifetime: its first tick is after all others.
Region(s, spans, scope) ==
    LET members == MemberSpans(s, spans, scope)
    IN  [size |-> Placed(members).extent,
         first |-> Min({s.clock + 1} \cup {members[i].first : i \in DOMAIN members}),
         last |-> Max({0} \cup {members[i].last : i \in DOMAIN members})]

RECURSIVE OverlayStarts(_, _, _, _)
OverlayStarts(s, spans, scope, base) ==
    LET starts == Placed(MemberSpans(s, spans, scope)).starts
    IN  UNION {LET m == s.scopes[scope][i]
                   at == base + starts[i]
               IN  IF m[1] = "buffer" THEN {<<m[2], at>>}
                   ELSE OverlayStarts(s, spans, m[2], at)
                        \cup OverlayStarts(s, spans, m[3], at)
                 : i \in DOMAIN s.scopes[scope]}

\* Storage::layout: the overlay is taken only if it is smaller.
SmallerLayout(s, spans, plain, overlaid) ==
    [size |-> [id \in DOMAIN spans |-> spans[id].size],
     extent |-> Lower(plain.extent, overlaid),
     start |-> IF overlaid < plain.extent
               THEN LET at == OverlayStarts(s, spans, 1, 0)
                    IN  [id \in DOMAIN spans |-> (CHOOSE x \in at : x[1] = id)[2]]
               ELSE plain.starts]

BufferLayout(s) ==
    LET spans == [id \in DOMAIN s.buffers |-> BufferSpan(s, id)]
    IN  SmallerLayout(s, spans, Placed(spans), Region(s, spans, 1).size)

\* prepare, for the entry rule.
TextImage(s, v, words, buffers) ==
    [code |-> s.code, fields |-> s.fields, result |-> v,
     place |-> words.place, words |-> words.peak, symbolic |-> Len(s.words),
     size |-> buffers.size, start |-> buffers.start, extent |-> buffers.extent]

LaidOut(x) == TextImage(x.s, x.v, WordLayout(x.s, x.v), BufferLayout(x.s))
TextFragment(p) == LaidOut(Used(EmitRule(p, EmptyEmitter, "main", <<"input">>, Nowhere)))

\* The limit holds for the frame, and for the words before any are shared.
FitsFrame(image) ==
    /\ WordBytes * image.words + image.extent + FixedScratch <= FrameLimit
    /\ WordBytes * image.symbolic + FixedScratch <= FrameLimit

-----------------------------------------------------------------------------
(* The machine.  A word holds a number, a pointer into a buffer, a pointer  *)
(* to constant bytes, or nothing yet.  A buffer's bytes run upwards from    *)
(* -(start + size), below the words of the frame.                           *)

Junk == <<"junk">>
Stray == <<"stray">>      \* an access outside a buffer, or to a wrong word
ToBuffer(id, offset) == <<"p", id, offset>>
ToBytes(s) == <<"c", s>>

TextRegisters == {"rax", "rcx", "rdx", "rbx", "rsi", "rdi"}

Lost(m) == [m EXCEPT !.lost = TRUE]
Put(m, r, w) == [m EXCEPT !.reg[r] = w]
Number2(m) == m.reg["rax"][1] = "n" /\ m.reg["rcx"][1] = "n"

Address(image, ptr) == ptr[3] - (image.start[ptr[2]] + image.size[ptr[2]])

\* The byte k after a pointer can be accessed.
Reaches(image, ptr, k) ==
    \/ ptr[1] = "c" /\ k < Len(ptr[2])
    \/ ptr[1] = "p" /\ ptr[3] + k < image.size[ptr[2]]

ByteAt(image, m, ptr, k) ==
    IF ptr[1] = "c" THEN ptr[2][k + 1] ELSE m.memory[Address(image, ptr) + k]

\* rep movsb, byte by byte.
MoveBytes(image, m, to, from, n) ==
    IF \/ n[1] # "n" \/ to[1] # "p"
       \/ n[1] = "n" /\ \E k \in 0..(n[2] - 1) :
             ~Reaches(image, to, k) \/ ~Reaches(image, from, k)
    THEN Lost(m)
    ELSE FoldLeft(LAMBDA acc, k : [acc EXCEPT !.memory[Address(image, to) + k - 1] =
                                       ByteAt(image, acc, from, k - 1)],
                  m, [k \in 1..n[2] |-> k])

Advanced(ptr, n) == ToBuffer(ptr[2], ptr[3] + n)

AppendBytes(image, m, from, n) ==
    LET t == MoveBytes(image, m, m.reg["rbx"], from, n)
    IN  IF t.lost THEN t ELSE Put(t, "rbx", Advanced(t.reg["rbx"], n[2]))

TextAlu(op, a, b) ==
    CASE op \in {"add", "sub", "mul"} -> Arith(op, a, b)[2]
      [] op \in {"min", "max"} -> Builtin(op, a, b)
      [] op = "neg" -> Wrap(-a)
      [] op = "abs" -> Wrap(Magnitude(a))
      [] op = "not" -> 1 - a

\* repe cmpsb over rcx bytes, after equal lengths.
CompareBytes(image, m) ==
    LET n == m.reg["rcx"]
        a == m.reg["rsi"]
        b == m.reg["rdi"]
        count == 0..(n[2] - 1)
    IN  IF n[1] # "n" \/ \E k \in count : ~Reaches(image, a, k) \/ ~Reaches(image, b, k)
        THEN Lost(m)
        ELSE [m EXCEPT !.flags = IF \A k \in count : ByteAt(image, m, a, k) = ByteAt(image, m, b, k)
                                 THEN <<0, 0>> ELSE <<0, 1>>]

Taken(m, when) ==
    CASE when = "always" -> TRUE
      [] when = "zero" -> m.reg["rax"] = Num(0)
      [] when = "nonzero" -> m.reg["rax"] # Num(0)
      [] when = "unequal" -> m.flags[1] # m.flags[2]

TextStep(image, i, m) ==
    CASE i[1] = "load" -> Put(m, i[2], m.frame[image.place[i[3]]])
      [] i[1] = "store" -> [m EXCEPT !.frame[image.place[i[3]]] = m.reg[i[2]]]
      [] i[1] = "imm" -> Put(m, "rax", Num(i[2]))
      [] i[1] = "literal" -> Put(Put(m, "rax", ToBytes(i[2])), "rdx", Num(Len(i[2])))
      [] i[1] = "address" -> Put(m, "rax", ToBuffer(i[2], 0))
      [] i[1] = "mov" -> Put(m, i[2], m.reg[i[3]])
      [] i[1] = "movs" -> MoveBytes(image, m, m.reg["rdi"], m.reg["rsi"], m.reg["rcx"])
      [] i[1] = "append" -> AppendBytes(image, m, m.reg["rsi"], m.reg["rcx"])
      [] i[1] = "itoa" ->
            IF m.reg["rax"][1] # "n" THEN Lost(m)
            ELSE LET text == Decimal(m.reg["rax"][2])
                 IN  AppendBytes(image, m, ToBytes(text), Num(Len(text)))
      [] i[1] = "span" ->
            IF m.reg["rbx"][1] = "p" /\ m.reg["rax"][1] = "p"
            THEN Put(m, "rdx", Num(m.reg["rbx"][3] - m.reg["rax"][3])) ELSE Lost(m)
      [] i[1] \in {"add", "sub", "mul", "min", "max"} ->
            IF Number2(m) THEN Put(m, "rax", Num(TextAlu(i[1], m.reg["rax"][2], m.reg["rcx"][2])))
            ELSE Lost(m)
      [] i[1] = "idiv" ->
            IF Number2(m) /\ ~DivisionFails(m.reg["rax"][2], m.reg["rcx"][2])
            THEN Put(Put(m, "rax", Num(Quot(m.reg["rax"][2], m.reg["rcx"][2]))),
                     "rdx", Num(Rem(m.reg["rax"][2], m.reg["rcx"][2])))
            ELSE Lost(m)
      [] i[1] \in {"neg", "abs", "not"} ->
            IF m.reg["rax"][1] = "n" THEN Put(m, "rax", Num(TextAlu(i[1], m.reg["rax"][2], 0)))
            ELSE Lost(m)
      [] i[1] = "cmp" ->
            IF Number2(m) THEN [m EXCEPT !.flags = <<m.reg["rax"][2], m.reg["rcx"][2]>>]
            ELSE Lost(m)
      [] i[1] = "cmps" -> CompareBytes(image, m)
      [] i[1] = "set" ->
            Put(m, "rax", Num(IF Compare(i[2], m.flags[1], m.flags[2]) THEN 1 ELSE 0))
      [] i[1] = "jump" -> m

RECURSIVE ExecuteText(_, _, _)
ExecuteText(image, pc, m) ==
    IF pc > Len(image.code) \/ m.lost THEN m
    ELSE LET i == image.code[pc]
         IN  ExecuteText(image, IF i[1] = "jump" /\ Taken(m, i[2]) THEN i[3] ELSE pc + 1,
                         TextStep(image, i, m))

\* Fragment::begin stores the fields that are used.
FieldWords(v, value) ==
    IF v[1] = "text" THEN {<<v[2], ToBytes(value[2])>>, <<v[3], Num(Len(value[2]))>>}
    ELSE {<<v[2], value>>}

TextMachine(image, record) ==
    LET given == UNION {{<<image.place[w[1]], w[2]>> : w \in FieldWords(f[2], record[f[1]])}
                          : f \in Range(image.fields)}
    IN  [reg |-> [r \in TextRegisters |-> Junk],
         frame |-> [w \in 1..image.words |->
                       IF \E g \in given : g[1] = w
                       THEN (CHOOSE g \in given : g[1] = w)[2] ELSE Junk],
         memory |-> [a \in (-image.extent)..(-1) |-> "?"],
         flags |-> <<0, 0>>, lost |-> FALSE]

\* What is read after the body, while the frame is still there.
RECURSIVE Published(_, _, _)
Published(image, m, v) ==
    CASE v[1] = "text" ->
            LET ptr == m.frame[image.place[v[2]]]
                n == m.frame[image.place[v[3]]]
            IN  IF n[1] # "n" \/ \E k \in 0..(n[2] - 1) : ~Reaches(image, ptr, k)
                THEN Stray ELSE Str([k \in 1..n[2] |-> ByteAt(image, m, ptr, k - 1)])
      [] v[1] \in {"number", "bool"} -> m.frame[image.place[v[2]]]
      [] v[1] = "record" ->
            Rec([f \in {x[1] : x \in Range(v[3])} |-> Published(image, m, Component(v, f))])

RunText(image, record) ==
    LET m == ExecuteText(image, 1, TextMachine(image, record))
    IN  IF m.lost THEN Stray ELSE Published(image, m, image.result)

=============================================================================

--------------------------- MODULE RecordProgram ---------------------------
(***************************************************************************)
(* The process around a compiled rule: which records it evaluates, what it *)
(* prints and how it exits.  A rule runs in the record loop, once per      *)
(* record; a hint replaces the loop by one that compares pairs of records  *)
(* or by two processes; --stream repeats it for every line of the input;   *)
(* the phases of a sequential execution each run it over all records.      *)
(*                                                                         *)
(* A batch is a plain program with the type of its rule, a hint and an     *)
(* input mode, [rules, span, type, hint, mode].  Records have one field.   *)
(***************************************************************************)
EXTENDS ScalarNative, TextNative, ContractNative

\* What is seen of a process.  flag is the sticky exit flag, status the exit
\* status once it has ended: 0, 1, or a signal.
Running == -1      \* not a status
Signal == -2

Fresh == [printed |-> << >>, flag |-> 0, status |-> Running]

Alive(p) == p.status = Running
Exit(p, status) == IF Alive(p) THEN [p EXCEPT !.status = status] ELSE p
\* After the last record the flag is the status.
Finish(p) == Exit(p, p.flag)

Seen(p) == [printed |-> p.printed, status |-> p.status]

\* emit_bool_arms and the printers of the other types
Show(p, isBool, out) ==
    [p EXCEPT !.printed = Append(@, out),
              !.flag = IF isBool /\ out = Num(0) THEN 1 ELSE @]

\* One turn of the loop: a field outside its declared bounds ends the process
\* before the rule can read it, and so does a fault, with what was printed so
\* far.
Turn(p, isBool, accepted, out) ==
    IF ~Alive(p) THEN p
    ELSE IF ~accepted THEN Exit(p, 1)
    ELSE IF out = Error THEN Exit(p, Signal)
    ELSE Show(p, isBool, out)

\* emit_argc_guard: a process needs the fields of at least one record.
ArgcGuard(p, records) == IF records = << >> THEN Exit(p, 1) ELSE p

-----------------------------------------------------------------------------
(* The record loop of one rule *)

\* The image begins with the check of the field, if it has one.
Accepts(image, v) ==
    image.start # << >> /\ Head(image.start)[1] = "check" =>
        v \in Head(image.start)[2]..Head(image.start)[3]

Loop(p, batch, image, values) ==
    LET One(q, v) == Turn(q, batch.type = "bool", Accepts(image, v), RunNative(image, v))
    IN  FoldLeft(One, p, values)

\* emit_full_program
RunFull(batch, image, values) ==
    Finish(Loop(ArgcGuard(Fresh, values), batch, image, values))

\* emit_stream_prologue: every line is an argument vector of its own, an empty
\* line is skipped, and the flag of a line is gone with its frame.  The end of
\* the input is status 0.
RunStream(batch, image, lines) ==
    LET Line(p, values) ==
            IF values = << >> THEN p
            ELSE Loop([p EXCEPT !.flag = 0], batch, image, values)
    IN  Exit(FoldLeft(Line, Fresh, lines), 0)

-----------------------------------------------------------------------------
(* Hints *)

\* extract_simple_gt
SimpleGt(e) == Kind(e) = "bin" /\ e[2] = "gt" /\ e[3] = Field /\ Kind(e[4]) = "num"

\* pcmpgtq and movmskpd: one bit per element of a pair
Mask(a, b, threshold) ==
    (IF a > threshold THEN 1 ELSE 0) + (IF b > threshold THEN 2 ELSE 0)

\* emit_vectorized_program: pairs, and a scalar comparison for the last of an
\* odd number.  The record is not checked.
RunVectorized(threshold, values) ==
    LET n == Len(values)
        paired == 2 * (n \div 2)
        Bit(i) ==
            IF i > paired THEN IF values[i] > threshold THEN 1 ELSE 0
            ELSE IF i % 2 = 1 THEN Mask(values[i], values[i + 1], threshold) % 2
            ELSE Mask(values[i - 1], values[i], threshold) \div 2
        One(p, i) == Turn(p, TRUE, TRUE, Num(Bit(i)))
    IN  Finish(FoldLeft(One, ArgcGuard(Fresh, values), [i \in 1..n |-> i]))

AfterChild(p, child, isBool) ==
    [p EXCEPT !.printed = child.printed,
              !.flag = IF isBool /\ child.status # 0 THEN 1 ELSE 0]

\* emit_parallel_program: the array of all records is split in the middle.
\* The parent waits before it prints its half; for a bool rule any status of
\* the child but zero becomes its flag.  A fork that fails is taken for the
\* parent, which then has nobody to wait for.
RunParallel(batch, image, values, forked) ==
    LET mid == Len(values) \div 2
        begun == ArgcGuard(Fresh, values)
        child == IF forked THEN Finish(Loop(begun, batch, image, SubSeq(values, 1, mid)))
                 ELSE Exit(begun, 0)
    IN  Finish(Loop(AfterChild(begun, child, batch.type = "bool"), batch, image,
                    SubSeq(values, mid + 1, Len(values))))

-----------------------------------------------------------------------------
(* compile_native_code: recursion first, then the hints *)

IsBatch(p) == "hint" \in DOMAIN p

Emitter(batch, rules) ==
    IF Recursive(rules, "main") THEN "full"
    ELSE IF batch.hint = "vectorizable" /\ SimpleGt(rules["main"]) THEN "vectorized"
    ELSE IF batch.hint = "parallel" THEN "parallel" ELSE "full"

\* check_hints, and wrap_record_input_mode, which asks for the hint and not
\* for the emitter that was taken
BatchRefused(batch, rules) ==
    \/ batch.hint = "vectorizable" /\ Callees(batch.rules["main"]) # {}
    \/ batch.mode = "stream" /\ batch.hint = "parallel"
    \/ /\ batch.mode = "stream" /\ batch.hint = "vectorizable"
       /\ SimpleGt(rules["main"])

BatchImage(batch, rules) ==
    [NativeProgram(rules, "main", batch.span) EXCEPT
        !.start = IF Emitter(batch, rules) = "full" THEN @
                  ELSE Emit(rules, RecordContext({}, FALSE, batch.span), rules["main"])]

\* The input is a sequence of lines; arguments are one line.
RunBatch(batch, rules, image, lines, forked) ==
    LET emitter == Emitter(batch, rules)
    IN  Seen(CASE batch.mode = "stream" -> RunStream(batch, image, lines)
               [] emitter = "vectorized" -> RunVectorized(rules["main"][4][2], lines[1])
               [] emitter = "parallel" -> RunParallel(batch, image, lines[1], forked)
               [] OTHER -> RunFull(batch, image, lines[1]))

-----------------------------------------------------------------------------
(* Sequential executions: [rules, concepts, sequence], the rules of the     *)
(* sequence with bounded results over one concept.                          *)

IsSequence(p) == "sequence" \in DOMAIN p

AsEntry(p, r) == [rules |-> ("main" :> p.rules[r]) @@ p.rules, concepts |-> p.concepts]

\* prepare: a rule that takes part in bounded text is compiled as such, any
\* other one needs an overflow contract.
Phases(p) ==
    [i \in DOMAIN p.sequence |->
        LET entry == AsEntry(p, p.sequence[i])
        IN  IF p.sequence[i] \in ActiveRules(p) THEN TextFragment(entry)
            ELSE StrictFragment(entry)]

SequenceAccepted(p) ==
    /\ Len(p.sequence) >= 2
    /\ \A i \in DOMAIN p.sequence :
         /\ p.sequence[i] \in ActiveRules(p) \cup StrictRules(p)
         /\ p.rules[p.sequence[i]].input = p.rules[p.sequence[1]].input

\* Variant: the next phase is entered whatever the flag of this one is.
EndOfPhaseAlways(p) == [p EXCEPT !.flag = 0]

\* emit_record_loop_end: to the next phase only with a clear flag.
EndOfPhase(p) == IF p.flag = 0 THEN p ELSE Exit(p, p.flag)

RunSequence(p, images, records) ==
    LET Phase(q, i) ==
            LET r == p.sequence[i]
                Evaluated(v) == IF r \in ActiveRules(p) THEN RunText(images[i], v)
                                ELSE RunStrict(images[i], v)
                One(t, v) ==
                    Turn(t, p.rules[r].type = "bool", ValidInput(p, r, v), Evaluated(v))
            IN  EndOfPhase(FoldLeft(One, q, records))
    IN  Seen(Exit(FoldLeft(Phase, ArgcGuard(Fresh, records), [i \in DOMAIN images |-> i]), 0))

-----------------------------------------------------------------------------
(* What the source promises *)

\* The rule on every record in turn.  A record outside its declared range is
\* status 1, a rule that fails ends the process, and a bool rule ends with 1
\* if one of its answers was false.
Promised(batch, values) ==
    LET One(p, v) ==
            LET out == Eval(batch.rules, batch.rules["main"], v)
            IN  Turn(p, batch.type = "bool", Holds(batch.span, v),
                     IF Failed(out) THEN Error ELSE Num(AsWord(out)))
    IN  Seen(Finish(FoldLeft(One, ArgcGuard(Fresh, values), values)))

\* execution::run: False is an ordinary result until its phase is complete.
ShowResult(p, out) ==
    IF ~Alive(p) THEN p
    ELSE IF Failed(out) THEN Exit(p, 1)
    ELSE Show(p, out[1] = "b", IF out[1] \in {"n", "b"} THEN Num(AsWord(out)) ELSE out)

PhaseComplete(p) == IF p.flag = 1 THEN Exit(p, 1) ELSE p

Executed(p, records) ==
    LET Phase(q, r) ==
            LET One(t, v) == ShowResult(t, EvalRule(p, r, Rec(v)))
            IN  PhaseComplete(FoldLeft(One, q, records))
    IN  Seen(Exit(FoldLeft(Phase, ArgcGuard(Fresh, records), p.sequence), 0))

=============================================================================

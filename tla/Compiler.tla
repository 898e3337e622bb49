------------------------------ MODULE Compiler ------------------------------
(***************************************************************************)
(* One rule on its way to a result: the verified source is optimized, the  *)
(* optimized rules are compiled for one target, and the artifact is run on *)
(* one record.  The interpreter, which evaluates the source as it was      *)
(* written, is what every artifact is compared with.                       *)
(*                                                                         *)
(* A program is plain, [rules : name -> body, span : Interval], or it has  *)
(* bounded results, [rules : name -> rule, concepts]: texts with a         *)
(* capacity, numbers with an overflow contract, or the phases of a         *)
(* pipeline.  The entry is "main".  A batch or a sequential execution is a *)
(* process over many records (RecordProgram), and so is a rule over a      *)
(* collection (Collections).                                               *)
(***************************************************************************)
EXTENDS ScalarWasm, Collections, Pipeline

CONSTANTS
    Programs,         \* plain programs
    BoundedPrograms,  \* programs with bounded results
    TextRecords,      \* the records a program with bounded text is run on
    StrictRecords,    \* and one with an overflow contract
    Arguments,        \* the values a batch is given, as arguments
    Streams,          \* and as the lines of its standard input
    Batches,          \* the records of a sequential execution
    Lists             \* and of a rule over a collection

VARIABLES
    source,     \* the program, as verified
    tree,       \* its rules after optimize_program
    target,     \* "native" or "wasm"
    image,      \* the emitted code
    input,      \* the field of the record it is run on, or the record
    outcome     \* what it printed or returned

vars == << source, tree, target, image, input, outcome >>

None == << >>

IsBounded(p) == "concepts" \in DOMAIN p

\* A pipeline is compiled as one rule made of its phases.
Entry(p) == IF IsPipeline(p) THEN Lowered(p) ELSE p
IsPlain(p) == ~IsBounded(p) /\ ~IsBatch(p) /\ ~IsCollection(p)
HasContract(p) == ~IsPipeline(p) /\ "main" \in StrictRules(p)

Init ==
    /\ source \in Programs \/ source \in BoundedPrograms
    /\ tree = None /\ target = "none" /\ image = None
    /\ input = 0 /\ outcome = None

-----------------------------------------------------------------------------

\* Every rule is rewritten under the ranges of its concept, except those that
\* take part in a bounded result or in a pipeline.
OptimizeProgram ==
    /\ tree = None
    /\ tree' = IF IsBounded(source) THEN source.rules
               ELSE IF IsCollection(source) THEN OptimizedCollection(source)
               ELSE [r \in DOMAIN source.rules |->
                        Optimized(source.rules[r], source.span)]
    /\ UNCHANGED << source, target, image, input, outcome >>

CompileNative ==
    /\ tree # None /\ target = "none" /\ IsPlain(source)
    /\ target' = "native"
    /\ image' = NativeProgram(tree, "main", source.span)
    /\ UNCHANGED << source, tree, input, outcome >>

\* Both analyses have accepted every rule of theirs, and the entry takes part
\* in a strict overflow contract.
CompileStrict ==
    /\ tree # None /\ target = "none" /\ IsBounded(source)
    /\ TextAccepted(source) /\ StrictAccepted(source)
    /\ HasContract(source)
    /\ target' = "native"
    /\ image' = StrictFragment(source)
    /\ UNCHANGED << source, tree, input, outcome >>

\* It does not, but in a bounded text result.
CompileText ==
    /\ tree # None /\ target = "none" /\ IsBounded(source)
    /\ TextAccepted(source) /\ StrictAccepted(source)
    /\ ~IsPipeline(source) /\ "main" \in ActiveRules(source) \ StrictRules(source)
    /\ image' = TextFragment(source)
    /\ FitsFrame(image')
    /\ target' = "native"
    /\ UNCHANGED << source, tree, input, outcome >>

\* Its phases have been accepted as rules; no part of it is compiled by
\* CompileStrict, whatever contracts they have.
CompilePipeline ==
    /\ tree # None /\ target = "none" /\ IsBounded(source) /\ IsPipeline(source)
    /\ TextAccepted(source) /\ StrictAccepted(source) /\ PipelineAccepted(source)
    /\ image' = TextFragment(Lowered(source))
    /\ FitsFrame(image')
    /\ target' = "native"
    /\ UNCHANGED << source, tree, input, outcome >>

\* Inlining is the only call convention: a recursive rule would keep the
\* compiler itself busy without end, and is left out.
CompileWasm ==
    /\ tree # None /\ target = "none" /\ IsPlain(source)
    /\ ~Recursive(tree, "main")
    /\ ~WasmRefuses(tree, ReachedFrom(tree, {"main"}))
    /\ target' = "wasm"
    /\ image' = EmitWasm(tree, tree["main"])
    /\ UNCHANGED << source, tree, input, outcome >>

CompileBatch ==
    /\ tree # None /\ target = "none" /\ IsBatch(source) /\ ~BatchRefused(source, tree)
    /\ target' = "native"
    /\ image' = BatchImage(source, tree)
    /\ UNCHANGED << source, tree, input, outcome >>

CompileSequence ==
    /\ tree # None /\ target = "none" /\ IsSequence(source)
    /\ TextAccepted(source) /\ StrictAccepted(source) /\ SequenceAccepted(source)
    /\ image' = Phases(source)
    /\ \A i \in DOMAIN image' :
         source.sequence[i] \in ActiveRules(source) => FitsFrame(image'[i])
    /\ target' = "native"
    /\ UNCHANGED << source, tree, input, outcome >>

\* tree is the program with its lets and its logic rewritten.
CompileCollection ==
    /\ tree # None /\ target = "none" /\ IsCollection(source) /\ CollectionAccepted(tree)
    /\ target' = "native"
    /\ image' = CollectionImage(tree)
    /\ UNCHANGED << source, tree, input, outcome >>

IsProcess == IsBatch(source) \/ IsSequence(source) \/ IsCollection(source)

Inputs ==
    IF IsProcess THEN {}
    ELSE IF IsPlain(source) THEN Word
    ELSE IF HasContract(source) THEN StrictRecords ELSE TextRecords

BatchInputs ==
    IF ~IsBatch(source) THEN {}
    ELSE IF source.mode = "stream" THEN Streams ELSE {<< a >> : a \in Arguments}

\* A byte of a text is no sign and no end of the text.
ListInputs ==
    IF ~IsCollection(source) THEN {}
    ELSE {records \in Lists :
            OfBytes(source) => \A i \in DOMAIN records : \A b \in Range(records[i].items) : b > 0}

Run(v) ==
    /\ target # "none" /\ outcome = None
    /\ input' = v
    /\ outcome' = IF IsPlain(source)
                  THEN IF target = "native" THEN RunNative(image, v) ELSE RunWasm(image, v)
                  ELSE IF ~ValidInput(Entry(source), "main", v) THEN Error
                  ELSE IF HasContract(source) THEN RunStrict(image, v)
                  ELSE RunText(image, v)
    /\ UNCHANGED << source, tree, target, image >>

\* A fork may be refused.
RunArguments(lines, forked) ==
    /\ target # "none" /\ outcome = None /\ IsBatch(source)
    /\ ~forked => Emitter(source, tree) = "parallel"
    /\ input' = [lines |-> lines, forked |-> forked]
    /\ outcome' = RunBatch(source, tree, image, lines, forked)
    /\ UNCHANGED << source, tree, target, image >>

RunExecution(records) ==
    /\ target # "none" /\ outcome = None /\ IsSequence(source)
    /\ input' = records
    /\ outcome' = RunSequence(source, image, records)
    /\ UNCHANGED << source, tree, target, image >>

RunList(records) ==
    /\ target # "none" /\ outcome = None
    /\ input' = records
    /\ outcome' = RunCollection(tree, image, records)
    /\ UNCHANGED << source, tree, target, image >>

Next ==
    \/ OptimizeProgram
    \/ CompileNative
    \/ CompileStrict
    \/ CompileText
    \/ CompilePipeline
    \/ CompileWasm
    \/ CompileBatch
    \/ CompileSequence
    \/ CompileCollection
    \/ \E v \in Inputs : Run(v)
    \/ \E lines \in BatchInputs, forked \in BOOLEAN : RunArguments(lines, forked)
    \/ \E records \in Batches : RunExecution(records)
    \/ \E records \in ListInputs : RunList(records)

Spec == Init /\ [][Next]_vars

-----------------------------------------------------------------------------
(* Properties *)

\* The record respects the declared ranges.
InRange ==
    IF IsBounded(source) THEN ValidInput(Entry(source), "main", input)
    ELSE Holds(source.span, input)

Meaning ==
    IF IsBounded(source)
    THEN IF IsPipeline(source) THEN Piped(source, input)
         ELSE EvalRule(source, "main", Rec(input))
    ELSE Eval(source.rules, source.rules["main"], input)

\* What an artifact shows of a value: a bool is a zero or a one, and every
\* failure of the rule is a fault of the artifact.
Shown(out) ==
    IF Failed(out) THEN Error
    ELSE IF out[1] \in {"n", "b"} THEN Num(AsWord(out)) ELSE out

\* No analysis ever claims too much.  For scalar rules (compute_range,
\* can_discard_scalar_eval) no evaluation of any part of a rule leaves the
\* interval computed for it, and none that may be dropped can fail: branch
\* deletion, unsigned division and dropped evaluations all rest on this.  For
\* bounded text (text_bounds.rs) an accepted rule never fails and its result
\* stays within the interval or capacity computed for it, on which the room
\* of every buffer rests.  An accepted pipeline never fails between two of its
\* phases: whatever one returns is within the bounds the next declares.
\* With an overflow contract (numeric_bounds.rs) it
\* never fails either, its result is within the declared bounds, and it is
\* the result over the integers: nothing on the way to it overflowed, also
\* where a division or a difference is safe only under the conditions around
\* it.
IntervalsSound ==
    target = "native" /\ outcome # None /\ ~IsProcess /\ InRange =>
        IF IsBounded(source)
        THEN IF HasContract(source)
             THEN /\ DomainHolds(DomainOfRule(source, "main", {}), Meaning)
                  /\ Meaning[2] = ExactRule(source, "main", input)
             ELSE Within(BoundOfRule(Entry(source), "main", {}), Meaning)
        ELSE \A e \in Parts(source.rules["main"]) \ {Input} :
                LET out == Eval(source.rules, e, input)
                IN  /\ out[1] = "n" => Holds(ComputeRange(e, source.span), out[2])
                    /\ CanDiscard(e, source.span) => ~Failed(out)

\* The process prints and exits as the source promises: for every record its
\* value, up to the first that is refused or fails, and status 1 exactly if
\* that happened or an answer was false; the next phase of an execution starts
\* only after a phase without such an answer.  No hint shows, whatever the
\* number of records and however they fall on its pairs or processes.  A rule
\* over a collection prints a line for every element or one for the record;
\* no element, let or accumulator is taken for another one, within a record or
\* from one record to the next.
\* Excepted are what the code leaves to the caller: a stream ends with status
\* 0 if it ends at all, and a hint comes without the check of the record, and
\* with a fork that has to succeed and that no fault may hit; and for a rule
\* over a collection what ListRegular says.
ProcessAgrees ==
    target = "native" /\ outcome # None /\ IsProcess =>
    IF IsSequence(source) THEN outcome = Executed(source, input)
    ELSE IF IsCollection(source)
    THEN ListRegular(source, input) => outcome = PromisedCollection(source, input)
    ELSE LET values == FlattenSeq(input.lines)
             promised == Promised(source, values)
             Regular(v) == /\ Holds(source.span, v)
                           /\ ~Failed(Eval(source.rules, source.rules["main"], v))
         IN  IF source.mode = "stream"
             THEN outcome = [promised EXCEPT !.status =
                                IF Len(promised.printed) = Len(values) THEN 0 ELSE @]
             ELSE \/ Emitter(source, tree) # "full" /\ ~input.forked
                  \/ Emitter(source, tree) # "full" /\ \E v \in Range(values) : ~Regular(v)
                  \/ outcome = promised

\* The native program computes what the interpreter computes for the source:
\* the same value, and a fault exactly where the rule fails.  Folding, the
\* deleted branches, shifts and multiplications for divisions, inlined rules
\* and the registers kept across calls are all invisible.  So are the words
\* and buffers that share a place in the frame of a text rule: no value is
\* overwritten while it can still be read, whichever branch was taken and
\* whichever names it has, and nothing is written outside its buffer.  A
\* record outside the declared range never reaches the rule.
NativeAgrees ==
    target = "native" /\ outcome # None /\ ~IsProcess =>
        outcome = IF InRange THEN Shown(Meaning) ELSE Error

\* So does the WebAssembly module, except that MIN % -1, a panic of the
\* interpreter, may have a value (docs/wasm-boolean-evaluation.md, line 63),
\* and that the host is trusted with the declared range.
WasmAgrees ==
    target = "wasm" /\ outcome # None /\ InRange =>
        \/ Meaning = Panic
        \/ outcome = Shown(Meaning)

\* The same without the exceptions: an optimization hint decides nothing that
\* can be observed, and neither does a choice of names or a let.
PromiseKept ==
    target = "native" /\ outcome # None =>
        /\ IsBatch(source) /\ source.mode = "argv" /\ input.forked =>
              outcome = Promised(source, FlattenSeq(input.lines))
        /\ IsCollection(source) /\ ElementsInRange(source, input) =>
              outcome = PromisedCollection(source, input)

=============================================================================

------------------------------ MODULE Pipeline ------------------------------
(***************************************************************************)
(* Pipeline executions: each phase is a rule over the record the phase     *)
(* before it returned.  The interpreter runs one phase after the other     *)
(* and checks every record it hands on (interpreter/execution/pipeline.rs);*)
(* the compiler expands all of them into one frame, with no check between  *)
(* them (execution/pipeline.rs).                                           *)
(*                                                                         *)
(* A pipeline is a program of TextSource with phases, a sequence of rule   *)
(* names, and without an entry rule of its own.                            *)
(***************************************************************************)
EXTENDS TextSource

IsPipeline(p) == "phases" \in DOMAIN p

\* shape_errors: every phase takes what the one before it returns, and what
\* is handed on is a record.
WellShaped(p) ==
    LET n == Len(p.phases)
    IN  /\ n >= 2
        /\ \A i \in 1..(n - 1) :
             /\ p.rules[p.phases[i]].type \in DOMAIN p.concepts
             /\ p.rules[p.phases[i + 1]].input = p.rules[p.phases[i]].type

\* lower: the entry binds the result of every phase but the last.
Stages == <<"stage_0", "stage_1", "stage_2", "stage_3">>

Lowered(p) ==
    LET n == Len(p.phases)
        last == p.rules[p.phases[n]]
        Before(i) == <<"name", IF i = 1 THEN "it" ELSE Stages[i - 1]>>
        Phase(i) == <<"call", p.phases[i], Before(i)>>
        entry == [input |-> p.rules[p.phases[1]].input, type |-> last.type,
                  max |-> last.max, overflow |-> << >>,
                  lets |-> [i \in 1..(n - 1) |-> <<Stages[i], Phase(i)>>],
                  value |-> Phase(n)]
    IN  [rules |-> ("main" :> entry) @@ p.rules, concepts |-> p.concepts]

\* prepare: the phases keep the contracts they have as rules, and the
\* composition is checked on its own.
PipelineAccepted(p) ==
    WellShaped(p) /\ BoundOfRule(Lowered(p), "main", {}) # Refused

\* run and check_input
Piped(p, record) ==
    LET Apply(v, r) ==
            IF Failed(v) THEN v
            ELSE IF ~ValidInput(p, r, v[2]) THEN Error ELSE EvalRule(p, r, v)
    IN  FoldLeft(Apply, Rec(record), p.phases)

=============================================================================

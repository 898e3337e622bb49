------------------------- MODULE OrderedPublication -------------------------
(***************************************************************************)
(* What every execution of a `concurrent` declaration promises, whatever    *)
(* threads it uses: standard output is the serialisation of the phases in   *)
(* declared order, each phase over the records in input order, and the      *)
(* process stops after the first phase that fails.  It is the behaviour of  *)
(* the sequential mode of the interpreter (src/interpreter/execution.rs,    *)
(* run): a boolean false is remembered until its phase ends, an invalid     *)
(* record ends its phase at once, keeping what was already published.       *)
(*                                                                         *)
(* A host fault (an admission, a write or a synchronisation call refused by *)
(* the kernel) may cut the output short; the exit status then is a failure. *)
(***************************************************************************)
EXTENDS Integers, Sequences

CONSTANTS
    NumPhases,   \* phases of the execution, numbered in declared order
    MaxRecords,  \* bound on the records of an input
    Units        \* separately writable pieces of one serialised result

VARIABLES
    input,   \* what the argument vector holds
    out,     \* what has reached standard output
    fault,   \* "yes" once the host has refused a call
    status   \* "running", then the exit status "ok" or "failed"

vars == <<input, out, fault, status>>

Phases == 1..NumPhases

\* n: records of the input; error[p]: the first record phase p cannot process,
\* n + 1 if there is none; falsy: the results that are boolean false.  A phase
\* never gets past its first error.
Inputs ==
    UNION {{i \in [n : {n}, error : [Phases -> 1..(n + 1)],
                   falsy : SUBSET (Phases \X (1..n))] :
              \A f \in i.falsy : f[2] < i.error[f[1]]} : n \in 0..MaxRecords}

\* A phase fails on an input without records, an error, or a false result.
Fails(i, p) == i.n = 0 \/ i.error[p] <= i.n \/ \E f \in i.falsy : f[1] = p

\* The last phase that publishes: the first one that fails, or the last.
LastPhase(i) ==
    IF \E p \in Phases : Fails(i, p)
    THEN CHOOSE p \in Phases : Fails(i, p) /\ \A q \in 1..(p - 1) : ~Fails(i, q)
    ELSE NumPhases

\* The reference output, phase by phase, record by record, unit by unit.  Every
\* phase before the last one published all its records.
PhaseUnits(i) == i.n * Units
ReferenceLength(i) ==
    (LastPhase(i) - 1) * PhaseUnits(i) + (i.error[LastPhase(i)] - 1) * Units
Reference(i) ==
    [k \in 1..ReferenceLength(i) |->
        << ((k - 1) \div PhaseUnits(i)) + 1,
           (((k - 1) % PhaseUnits(i)) \div Units) + 1,
           ((k - 1) % Units) + 1 >>]

Init ==
    /\ input \in Inputs
    /\ out = << >>
    /\ fault = "no"
    /\ status = "running"

\* The next units of the reference reach standard output, the last ones possibly
\* out of a write that fails half-way.
Publish ==
    /\ status = "running"
    /\ \E n \in (Len(out) + 1)..Len(Reference(input)) :
        out' = SubSeq(Reference(input), 1, n)
    /\ fault' \in {fault, "yes"}
    /\ UNCHANGED <<input, status>>

\* The host refuses a call.
Fault ==
    /\ status = "running"
    /\ fault' = "yes"
    /\ UNCHANGED <<input, out, status>>

\* The complete reference has been published: its own status is reported.
Finish ==
    /\ status = "running"
    /\ out = Reference(input)
    /\ status' = IF \E p \in Phases : Fails(input, p) THEN "failed" ELSE "ok"
    /\ UNCHANGED <<input, out, fault>>

\* The process gives up, on account of a host fault of now or of earlier.
GiveUp ==
    /\ status = "running"
    /\ fault' = "yes"
    /\ status' = "failed"
    /\ UNCHANGED <<input, out>>

Next == Publish \/ Fault \/ Finish \/ GiveUp

Spec == Init /\ [][Next]_vars

=============================================================================

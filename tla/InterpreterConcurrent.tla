----------------------- MODULE InterpreterConcurrent -----------------------
(***************************************************************************)
(* The interpreter's concurrent mode                                        *)
(* (src/interpreter/execution/concurrent.rs): phases are admitted in waves  *)
(* of at most max_in_flight scoped threads; each worker evaluates its phase *)
(* over all records and sends the values through a bounded channel; the     *)
(* coordinator publishes one phase after the other, receiving a value and   *)
(* emitting it in two steps, between which the worker may fill the channel  *)
(* again.  Leaving a wave raises the cancel flag, drops every receiver and  *)
(* joins every thread.                                                      *)
(***************************************************************************)
EXTENDS Integers, Sequences

CONSTANTS
    NumPhases,    \* phases of the execution
    MaxInFlight,  \* limit: phases per wave
    Batches,      \* the values result_batch may have
    MaxRecords,   \* bound on the records of an input
    Units         \* separately writable pieces of one emitted value

ASSUME InterpreterAssumption ==
    /\ NumPhases \in Nat \ {0}
    /\ MaxInFlight \in Nat \ {0}
    /\ Batches \subseteq Nat \ {0}
    /\ MaxRecords \in Nat
    /\ Units \in Nat \ {0}

VARIABLES
    input, out, fault, status,  \* as in OrderedPublication
    batch,     \* result_batch: the channel holds batch - 1 messages
    cpc,       \* where the coordinator is
    wave,      \* chunk of phases being run, from 1
    cp,        \* the phase of the wave it is admitting, receiving or joining
    outcome,   \* "ok0", "ok1" (a false result) or "err"
    cancel,    \* the AtomicBool of the wave
    admitted,  \* how many workers of the wave were spawned
    chan,      \* messages sent and not received, a blocked send's included
    receiver,  \* is the phase's Receiver "alive" or "dropped"?
    index,     \* record of the value received and being published, 0 for none
    wpc,       \* where the worker of every phase is
    rec,       \* the record it is at
    failed     \* has it seen a false result?

program == <<input, batch>>
host == <<out, fault, status>>
coord == <<cpc, wave, cp, outcome, cancel, admitted>>
links == <<chan, receiver, index>>
worker == <<wpc, rec, failed>>
vars == <<program, host, coord, links, worker>>

Published == INSTANCE OrderedPublication
    WITH NumPhases <- NumPhases, MaxRecords <- MaxRecords, Units <- Units,
         input <- input, out <- out, fault <- fault, status <- status

Phases == 1..NumPhases
First(w) == (w - 1) * MaxInFlight + 1
Last(w) == IF w * MaxInFlight < NumPhases THEN w * MaxInFlight ELSE NumPhases
WavePhases == First(wave)..Last(wave)
LastWave == (NumPhases + MaxInFlight - 1) \div MaxInFlight

\* The messages of the channel.
Value(r) == [kind |-> "value", record |-> r]
Error(r) == [kind |-> "error", record |-> r]
Done(f) == [kind |-> "done", failed |-> f]
Message == [kind : {"value", "error"}, record : 1..MaxRecords]
           \cup [kind : {"done"}, failed : {"yes", "no"}]

TypeOK ==
    /\ input \in Published!Inputs /\ batch \in Batches
    /\ out \in Seq(Phases \X (1..MaxRecords) \X (1..Units))
    /\ fault \in {"no", "yes"}
    /\ status \in {"running", "ok", "failed"}
    /\ cpc \in {"gate", "spawn", "receive", "emit", "leave", "drop", "join", "dead"}
    /\ wave \in 1..LastWave
    /\ cp \in 1..(NumPhases + 1)
    /\ outcome \in {"ok0", "ok1", "err"}
    /\ cancel \in {"no", "yes"}
    /\ admitted \in 0..MaxInFlight
    /\ chan \in [Phases -> Seq(Message)]
    /\ receiver \in [Phases -> {"alive", "dropped"}]
    /\ index \in 0..MaxRecords
    /\ wpc \in [Phases -> {"off", "check", "evaluate", "send", "blocked",
                           "ended", "panicked"}]
    /\ rec \in [Phases -> 1..(MaxRecords + 1)]
    /\ failed \in [Phases -> {"no", "yes"}]

Init ==
    /\ input \in Published!Inputs /\ batch \in Batches
    /\ out = << >> /\ fault = "no" /\ status = "running"
    /\ cpc = "gate" /\ wave = 1 /\ cp = 1 /\ outcome = "ok0" /\ cancel = "no"
    /\ admitted = 0
    /\ chan = [p \in Phases |-> << >>]
    /\ receiver = [p \in Phases |-> "alive"]
    /\ index = 0
    /\ wpc = [p \in Phases |-> "off"]
    /\ rec = [p \in Phases |-> 1]
    /\ failed = [p \in Phases |-> "no"]

-----------------------------------------------------------------------------
(* The coordinator. *)

\* execution::run refuses an input without records.
Gate ==
    /\ cpc = "gate"
    /\ IF input.n = 0
       THEN cpc' = "dead" /\ status' = "failed"
       ELSE cpc' = "spawn" /\ UNCHANGED status
    /\ UNCHANGED <<program, out, fault, wave, cp, outcome, cancel, admitted, links, worker>>

\* One phase of the wave gets its channel and its thread.
Spawn ==
    /\ cpc = "spawn"
    /\ wpc' = [wpc EXCEPT ![cp] = "check"]
    /\ admitted' = admitted + 1
    /\ IF cp < Last(wave)
       THEN cp' = cp + 1 /\ UNCHANGED cpc
       ELSE cp' = First(wave) /\ cpc' = "receive"
    /\ UNCHANGED <<program, host, wave, outcome, cancel, links, rec, failed>>

\* Variant: what was admitted before the failure is still published.
SpawnFailsButReceives ==
    /\ cpc = "spawn" /\ cp > First(wave)
    /\ fault' = "yes"
    /\ cp' = First(wave)
    /\ cpc' = "receive"
    /\ UNCHANGED <<program, out, status, wave, outcome, cancel, admitted, links, worker>>

\* The host refuses a thread: nothing of the wave is published.
SpawnFails ==
    /\ cpc = "spawn"
    /\ fault' = "yes"
    /\ outcome' = "err"
    /\ cpc' = "leave"
    /\ UNCHANGED <<program, out, status, wave, cp, cancel, admitted, links, worker>>

\* recv takes the oldest message; a sender blocked on the full channel resumes.
Take(p) ==
    /\ chan[p] # << >>
    /\ chan' = [chan EXCEPT ![p] = Tail(@)]
    /\ wpc' = [wpc EXCEPT ![p] = IF @ # "blocked" THEN @
                               ELSE IF chan[p][Len(chan[p])].kind = "value" THEN "check"
                               ELSE "ended"]

Receiving(kind) == cpc = "receive" /\ chan[cp] # << >> /\ Head(chan[cp]).kind = kind

\* The coordinator now owns the value: it is no longer in the channel.
ReceiveValue ==
    /\ Receiving("value")
    /\ Take(cp)
    /\ index' = Head(chan[cp]).record
    /\ cpc' = "emit"
    /\ UNCHANGED <<program, host, wave, cp, outcome, cancel, admitted, receiver, rec, failed>>

\* The value is written before the next message is looked at.
Emit ==
    /\ cpc = "emit"
    /\ out' = out \o [k \in 1..Units |-> <<cp, index, k>>]
    /\ index' = 0
    /\ cpc' = "receive"
    /\ UNCHANGED <<program, fault, status, wave, cp, outcome, cancel, admitted, chan, receiver,
                   worker>>

\* emit fails, possibly after part of the value has been written.
EmitFails ==
    /\ cpc = "emit"
    /\ \E n \in 0..(Units - 1) : out' = out \o [k \in 1..n |-> <<cp, index, k>>]
    /\ fault' = "yes"
    /\ outcome' = "err"
    /\ index' = 0
    /\ cpc' = "leave"
    /\ UNCHANGED <<program, status, wave, cp, cancel, admitted, chan, receiver, worker>>

ReceiveError ==
    /\ Receiving("error")
    /\ Take(cp)
    /\ outcome' = "err"
    /\ cpc' = "leave"
    /\ UNCHANGED <<program, host, wave, cp, cancel, admitted, receiver, index, rec, failed>>

\* Variant: a failed phase is recorded, but the rest of the wave is published.
ReceiveDoneGoesOn ==
    /\ Receiving("done")
    /\ Take(cp)
    /\ outcome' = IF Head(chan[cp]).failed = "yes" THEN "ok1" ELSE outcome
    /\ IF cp < Last(wave) THEN cp' = cp + 1 /\ UNCHANGED cpc ELSE cpc' = "leave" /\ UNCHANGED cp
    /\ UNCHANGED <<program, host, wave, cancel, admitted, receiver, index, rec, failed>>

\* A phase is complete: the next one is published, unless a result was false.
ReceiveDone ==
    /\ Receiving("done")
    /\ Take(cp)
    /\ IF Head(chan[cp]).failed = "yes"
       THEN outcome' = "ok1" /\ cpc' = "leave" /\ UNCHANGED cp
       ELSE IF cp < Last(wave)
            THEN cp' = cp + 1 /\ UNCHANGED <<cpc, outcome>>
            ELSE cpc' = "leave" /\ UNCHANGED <<cp, outcome>>
    /\ UNCHANGED <<program, host, wave, cancel, admitted, receiver, index, rec, failed>>

\* The sender is gone and the channel is drained: the worker died.
ReceiveDisconnected ==
    /\ cpc = "receive" /\ chan[cp] = << >> /\ wpc[cp] \in {"ended", "panicked"}
    /\ outcome' = "err"
    /\ cpc' = "leave"
    /\ UNCHANGED <<program, host, wave, cp, cancel, admitted, links, worker>>

Leave ==
    /\ cpc = "leave"
    /\ cancel' = "yes"
    /\ cp' = First(wave)
    /\ cpc' = "drop"
    /\ UNCHANGED <<program, host, wave, outcome, admitted, links, worker>>

Admitted == First(wave)..(First(wave) + admitted - 1)

\* Variant: a receiver is kept until its worker is_finished, polled in a loop.
DropReceiverOfFinished ==
    /\ cpc = "drop" /\ cp \in Admitted
    /\ IF wpc[cp] \in {"ended", "panicked"}
       THEN /\ receiver' = [receiver EXCEPT ![cp] = "dropped"]
            /\ chan' = [chan EXCEPT ![cp] = << >>]
            /\ cp' = cp + 1
       ELSE UNCHANGED <<receiver, chan, cp>>
    /\ UNCHANGED <<program, host, cpc, wave, outcome, cancel, admitted, index, worker>>

\* Dropping a receiver discards its messages and fails a blocked send.
DropReceiver ==
    /\ cpc = "drop" /\ cp \in Admitted
    /\ receiver' = [receiver EXCEPT ![cp] = "dropped"]
    /\ chan' = [chan EXCEPT ![cp] = << >>]
    /\ wpc' = [wpc EXCEPT ![cp] = IF @ = "blocked" THEN "ended" ELSE @]
    /\ cp' = cp + 1
    /\ UNCHANGED <<program, host, cpc, wave, outcome, cancel, admitted, index, rec, failed>>

DropDone ==
    /\ cpc = "drop" /\ cp \notin Admitted
    /\ cp' = First(wave)
    /\ cpc' = "join"
    /\ UNCHANGED <<program, host, wave, outcome, cancel, admitted, links, worker>>

\* A panic is reported unless the wave has already failed.
JoinWorker ==
    /\ cpc = "join" /\ cp \in Admitted /\ wpc[cp] \in {"ended", "panicked"}
    /\ outcome' = IF wpc[cp] = "panicked" /\ outcome = "ok0" THEN "err" ELSE outcome
    /\ cp' = cp + 1
    /\ UNCHANGED <<program, host, cpc, wave, cancel, admitted, links, worker>>

\* The next wave has a cancel flag of its own; anything but Ok(0) ends the run.
WaveDone ==
    /\ cpc = "join" /\ cp \notin Admitted
    /\ IF outcome = "ok0" /\ wave < LastWave
       THEN /\ wave' = wave + 1 /\ cp' = First(wave + 1) /\ cpc' = "spawn"
            /\ cancel' = "no" /\ admitted' = 0
            /\ UNCHANGED status
       ELSE /\ status' = IF outcome = "ok0" THEN "ok" ELSE "failed"
            /\ cpc' = "dead"
            /\ UNCHANGED <<wave, cp, cancel, admitted>>
    /\ UNCHANGED <<program, out, fault, outcome, links, worker>>

-----------------------------------------------------------------------------
(* The workers: produce. *)

\* The cancel flag is read before every record, and before Done is sent.
Check(p) ==
    /\ wpc[p] = "check"
    /\ wpc' = [wpc EXCEPT ![p] = IF cancel = "yes" THEN "ended"
                               ELSE IF rec[p] <= input.n THEN "evaluate"
                               ELSE "send"]
    /\ UNCHANGED <<program, host, coord, links, rec, failed>>

\* evaluate, and the second reading of the flag.
Evaluate(p) ==
    /\ wpc[p] = "evaluate"
    /\ wpc' = [wpc EXCEPT ![p] = IF cancel = "yes" THEN "ended" ELSE "send"]
    /\ failed' = [failed EXCEPT ![p] = IF <<p, rec[p]>> \in input.falsy THEN "yes" ELSE @]
    /\ UNCHANGED <<program, host, coord, links, rec>>

\* The evaluator panics.
WorkerPanics(p) ==
    /\ wpc[p] = "evaluate"
    /\ fault' = "yes"
    /\ wpc' = [wpc EXCEPT ![p] = "panicked"]
    /\ UNCHANGED <<program, out, status, coord, links, rec, failed>>

Result(p) ==
    IF rec[p] > input.n THEN Done(failed[p])
    ELSE IF rec[p] = input.error[p] THEN Error(rec[p])
    ELSE Value(rec[p])

\* Variant: the channel holds result_batch messages besides the blocked one.
SendBlocksLate(p) == Len(chan[p]) >= batch

\* sync_channel(result_batch - 1): a send into the full channel waits.
SendBlocks(p) == Len(chan[p]) >= batch - 1

\* Variant: the cursor moves on after every message, Done included.
SendAdvances(p) ==
    /\ wpc[p] = "send"
    /\ rec' = [rec EXCEPT ![p] = @ + 1]
    /\ IF receiver[p] = "dropped"
       THEN wpc' = [wpc EXCEPT ![p] = "ended"] /\ UNCHANGED chan
       ELSE /\ chan' = [chan EXCEPT ![p] = Append(@, Result(p))]
            /\ wpc' = [wpc EXCEPT ![p] = IF SendBlocks(p) THEN "blocked" ELSE "check"]
    /\ UNCHANGED <<program, host, coord, receiver, index, failed>>

\* A value is followed by the next record, an error or Done by the end.
Send(p) ==
    /\ wpc[p] = "send"
    /\ rec' = [rec EXCEPT ![p] = IF Result(p).kind = "value" THEN @ + 1 ELSE @]
    /\ IF receiver[p] = "dropped"
       THEN wpc' = [wpc EXCEPT ![p] = "ended"] /\ UNCHANGED chan
       ELSE /\ chan' = [chan EXCEPT ![p] = Append(@, Result(p))]
            /\ wpc' = [wpc EXCEPT ![p] = IF SendBlocks(p) THEN "blocked"
                                         ELSE IF Result(p).kind = "value" THEN "check"
                                         ELSE "ended"]
    /\ UNCHANGED <<program, host, coord, receiver, index, failed>>

-----------------------------------------------------------------------------

Ended == cpc = "dead" /\ UNCHANGED vars

Coordinator ==
    \/ Gate \/ Spawn \/ SpawnFails
    \/ ReceiveValue \/ Emit \/ EmitFails
    \/ ReceiveError \/ ReceiveDone \/ ReceiveDisconnected
    \/ Leave \/ DropReceiver \/ DropDone \/ JoinWorker \/ WaveDone

Worker(p) == Check(p) \/ Evaluate(p) \/ WorkerPanics(p) \/ Send(p)

Next == Coordinator \/ (\E p \in Phases : Worker(p)) \/ Ended

\* Every thread is scheduled again and again while it can run.
Fairness == WF_vars(Coordinator) /\ \A p \in Phases : WF_vars(Worker(p))

Spec == Init /\ [][Next]_vars /\ Fairness

-----------------------------------------------------------------------------
(* Properties. *)

Live(p) == wpc[p] \notin {"off", "ended", "panicked"}

\* What a phase holds: results evaluated and not yet published, wherever they are.
Held(p) ==
    Len(chan[p])
    + (IF wpc[p] = "send" /\ rec[p] <= input.n THEN 1 ELSE 0)
    + (IF cpc = "emit" /\ p = cp THEN 1 ELSE 0)

\* Backpressure (concurrent.rs, the comment on sync_channel: "B-1 queued values
\* plus one blocked send, in addition to the single value currently being
\* published"): a phase of the wave holds at most result_batch results, the one
\* being published at most one more, and no other phase holds anything, whatever
\* was cancelled before.
ResultsBounded ==
    /\ \A p \in Admitted : Held(p) <= IF p = cp THEN batch + 1 ELSE batch
    /\ \A p \in Phases \ Admitted : Held(p) = 0

\* "No output from a partially admitted wave": a step publishes only when every
\* phase of the wave was admitted and nothing has failed.
PublishesOnlyWholeWaves ==
    [][out' # out => Admitted = WavePhases /\ outcome = "ok0"]_vars

\* Whatever the threads do, standard output and the exit status are those of
\* the sequential mode, or a prefix of it after a host fault.
RefinesPublication == Published!Spec

\* The execution ends: no worker stays blocked on a send nobody receives.
Termination == <>(status # "running" /\ \A p \in Phases : ~Live(p))

=============================================================================

-------------------------- MODULE NativeConcurrent --------------------------
(***************************************************************************)
(* The scheduler that verbosec emits for a `concurrent` execution           *)
(* (src/native/concurrent/emit.rs): one coordinator and, per wave, one      *)
(* cloned thread per lane.  A lane is a 64-byte control block shared by the *)
(* coordinator and the lane's current worker: a futex state word, the TID   *)
(* word the kernel clears at thread exit, a length and a status, and one    *)
(* fixed result buffer.  Every load, atomic exchange and system call that   *)
(* the two sides can interleave is a step of its own.                       *)
(***************************************************************************)
EXTENDS Integers, Sequences

CONSTANTS
    NumPhases,    \* phases of the execution
    MaxInFlight,  \* max_in_flight: lanes, and phases per wave
    Batches,      \* values of result_batch
    MaxRecords,   \* bound on the records of an input
    Units         \* separately writable pieces of one serialised result

ASSUME ConcurrentAssumption ==
    /\ NumPhases \in Nat \ {0}
    /\ MaxInFlight \in Nat \ {0}
    /\ Batches \subseteq Nat \ {0}
    /\ MaxRecords \in Nat
    /\ Units \in Nat \ {0}

VARIABLES
    input,    \* the argument vector, as in OrderedPublication, and the declared batch
    out,      \* what write(1, ..) has delivered
    fault,    \* "yes" once a system call of the scheduler has been refused
    status,   \* "running", then the status given to exit_group
    \* the coordinator
    cpc,      \* where it is
    wave,     \* which chunk of phases it is running, from 1
    cl,       \* the lane r15 addresses
    admitted, \* history: threads of the wave cloned so far
    sent,     \* units of the current batch already written (r14 / rbx)
    header,   \* status word of the header: 0, or 1 once cancelled
    protocol, \* "broken" once a branch no correct hand-off reaches is taken
    \* the lanes
    state,    \* futex word of every lane
    tid,      \* TID word: 0 once the kernel has cleared it
    lstat,    \* status word of the lane (offset 16)
    buf,      \* records serialised in the lane's buffer and not yet consumed
    \* the workers
    wpc,      \* where the worker of every lane is, "off" without a thread
    rec,      \* its record cursor (r14)
    sticky,   \* its remembered boolean failure
    resume    \* what consumption of the current batch returns it to

coord == <<cpc, wave, cl, admitted, sent, header, protocol>>
lane == <<state, tid, lstat, buf>>
worker == <<wpc, rec, sticky, resume>>
host == <<out, fault, status>>
vars == <<input, host, coord, lane, worker>>

LaneCount == IF MaxInFlight < NumPhases THEN MaxInFlight ELSE NumPhases
Lanes == 1..LaneCount
Phase(w, l) == (w - 1) * MaxInFlight + l

\* bodies.chunks(max_in_flight): the lanes a wave uses (the last chunk may be
\* short), and whether another chunk follows it.
LastLane(w) == IF Phase(w, LaneCount) <= NumPhases THEN LaneCount ELSE NumPhases - Phase(w, 0)
WaveLanes(w) == 1..LastLane(w)
MoreWaves == Phase(wave + 1, 1) <= NumPhases

\* result_batch: results a worker may hold before publishing.
ResultBatch == input.batch

\* The specification this one implements: what it prints does not depend on the
\* batches, the lanes or the schedule.
Argv == [n |-> input.n, error |-> input.error, falsy |-> input.falsy]
Published == INSTANCE OrderedPublication
    WITH NumPhases <- NumPhases, MaxRecords <- MaxRecords, Units <- Units,
         input <- Argv, out <- out, fault <- fault, status <- status

\* Phases share the input concept and their bodies are total, so a record that
\* is incomplete, does not parse or is out of bounds stops all of them.
NativeInputs ==
    {[n |-> i.n, error |-> i.error, falsy |-> i.falsy, batch |-> b] :
        i \in {j \in Published!Inputs : \A p, q \in 1..NumPhases : j.error[p] = j.error[q]},
        b \in Batches}

CoordinatorPcs ==
    {"map", "reset", "clone", "receive", "block", "asleep", "write",
     "wake", "cancel", "cancel_wake", "join", "join_block", "join_asleep",
     "after", "cleanup", "dead"}
WorkerPcs ==
    {"off", "start", "next", "serialize", "publish", "ready_wake",
     "await", "block", "asleep", "terminal", "done", "error", "end_wake", "exit"}
States == {"EMPTY", "READY", "DONE", "ERROR", "CANCEL"}

TypeOK ==
    /\ input \in NativeInputs
    /\ out \in Seq((1..NumPhases) \X (1..MaxRecords) \X (1..Units))
    /\ fault \in {"no", "yes"}
    /\ status \in {"running", "ok", "failed"}
    /\ cpc \in CoordinatorPcs
    /\ wave \in Nat \ {0} /\ Phase(wave, 1) <= NumPhases
    /\ cl \in Lanes
    /\ admitted \in 0..LaneCount
    /\ sent \in 0..(ResultBatch * Units)
    /\ header \in {0, 1}
    /\ protocol \in {"kept", "broken"}
    /\ state \in [Lanes -> States]
    /\ tid \in [Lanes -> {0, 1}]
    /\ lstat \in [Lanes -> {0, 1}]
    /\ buf \in [Lanes -> Seq(1..MaxRecords)]
    /\ \A l \in Lanes : Len(buf[l]) <= ResultBatch
    /\ wpc \in [Lanes -> WorkerPcs]
    /\ rec \in [Lanes -> 1..(MaxRecords + 1)]
    /\ sticky \in [Lanes -> {0, 1}]
    /\ resume \in [Lanes -> {"next", "complete"}]

\* The mapping is fresh anonymous memory: every word is zero (EMPTY, no TID).
Init ==
    /\ input \in NativeInputs
    /\ out = << >> /\ fault = "no" /\ status = "running"
    /\ cpc = "map" /\ wave = 1 /\ cl = 1 /\ admitted = 0 /\ sent = 0 /\ header = 0
    /\ protocol = "kept"
    /\ state = [l \in Lanes |-> "EMPTY"]
    /\ tid = [l \in Lanes |-> 0]
    /\ lstat = [l \in Lanes |-> 0]
    /\ buf = [l \in Lanes |-> << >>]
    /\ wpc = [l \in Lanes |-> "off"]
    /\ rec = [l \in Lanes |-> 1]
    /\ sticky = [l \in Lanes |-> 0]
    /\ resume = [l \in Lanes |-> "next"]

-----------------------------------------------------------------------------
(* Shared instruction sequences. *)

\* exit_group: the process and all its threads end with this status.
ExitGroup(s) ==
    /\ status' = s
    /\ cpc' = "dead"
    /\ wpc' = [l \in Lanes |-> "off"]

\* wake: FUTEX_WAKE(1) on the state word resumes one of its sleepers.
CoordinatorSleepsOn(l) == cpc = "asleep" /\ cl = l

WakeWorker(l) == wpc' = [wpc EXCEPT ![l] = IF @ = "asleep" THEN "await" ELSE @]

\* Variant: publication is a plain store.
PublishAlways(l, value, then) ==
    /\ state' = [state EXCEPT ![l] = value]
    /\ wpc' = [wpc EXCEPT ![l] = then]

\* publish: lock cmpxchg from EMPTY; whoever finds another state goes to exit.
\* A cancellation that came first therefore wins.
PublishOnce(l, value, then) ==
    IF state[l] = "EMPTY"
    THEN /\ state' = [state EXCEPT ![l] = value]
         /\ wpc' = [wpc EXCEPT ![l] = then]
    ELSE /\ wpc' = [wpc EXCEPT ![l] = "exit"]
         /\ UNCHANGED state

CoordinatorGoto(label) ==
    /\ cpc' = label
    /\ UNCHANGED <<input, admitted, host, wave, cl, sent, header, protocol, lane, worker>>

WorkerGoto(l, label) ==
    /\ wpc' = [wpc EXCEPT ![l] = label]
    /\ UNCHANGED <<input, host, coord, lane, rec, sticky, resume>>

-----------------------------------------------------------------------------
(* The coordinator. *)

\* One PROT_NONE mapping, its protections, and SIGPIPE blocked; a failure
\* before the header is writable exits, a later one goes through cleanup.
Map == cpc = "map" /\ CoordinatorGoto("reset")

MapFails ==
    /\ cpc = "map"
    /\ fault' = "yes"
    /\ \/ /\ ExitGroup("failed")
          /\ UNCHANGED header
       \/ /\ header' = 1
          /\ cpc' = "cleanup"
          /\ UNCHANGED <<status, wpc>>
    /\ UNCHANGED <<input, admitted, out, wave, cl, sent, protocol, lane, rec, sticky, resume>>

\* Every lane of the wave is set EMPTY before any of its threads is cloned.
Reset ==
    /\ cpc = "reset"
    /\ state' = [l \in Lanes |-> IF l \in WaveLanes(wave) THEN "EMPTY" ELSE state[l]]
    /\ cl' = 1
    /\ admitted' = 0
    /\ cpc' = "clone"
    /\ UNCHANGED <<input, host, wave, sent, header, protocol, tid, lstat, buf, worker>>

\* clone with CLONE_PARENT_SETTID; the last admission starts the publication.
Clone ==
    /\ cpc = "clone"
    /\ tid' = [tid EXCEPT ![cl] = 1]
    /\ wpc' = [wpc EXCEPT ![cl] = "start"]
    /\ admitted' = admitted + 1
    /\ IF cl < LastLane(wave)
       THEN cl' = cl + 1 /\ UNCHANGED cpc
       ELSE cl' = 1 /\ cpc' = "receive"
    /\ UNCHANGED <<input, host, wave, sent, header, protocol, state, lstat, buf,
                   rec, sticky, resume>>

\* The label `cancel` of the wave: the header remembers the failure, and the
\* lanes are then cancelled one by one.
BeginCancel ==
    /\ header' = 1
    /\ cl' = 1
    /\ cpc' = "cancel"
    /\ UNCHANGED <<input, admitted, out, status, wave, sent, lane, worker>>

\* Variant: the lanes admitted so far are still consumed.
CloneFailsButReceives ==
    /\ cpc = "clone"
    /\ fault' = "yes"
    /\ header' = 1
    /\ cl' = 1
    /\ cpc' = "receive"
    /\ UNCHANGED <<input, admitted, out, status, wave, sent, protocol, lane, worker>>

CloneFails ==
    /\ cpc = "clone"
    /\ fault' = "yes"
    /\ BeginCancel
    /\ UNCHANGED protocol

\* The receive loop over one lane, after loading its state word.
ReceiveReady ==
    /\ cpc = "receive" /\ state[cl] = "READY"
    /\ IF Len(buf[cl]) <= ResultBatch
       THEN /\ sent' = 0
            /\ cpc' = "write"
            /\ UNCHANGED <<input, admitted, out, status, wave, cl, header, protocol,
                           lane, worker>>
       ELSE BeginCancel /\ protocol' = "broken"
    /\ UNCHANGED fault

\* Variant: a wave all of whose lanes are DONE is taken to be joined.
ReceiveDoneUnjoined ==
    /\ cpc = "receive" /\ state[cl] = "DONE" /\ lstat[cl] = 0
    /\ IF cl < LastLane(wave)
       THEN cl' = cl + 1 /\ UNCHANGED cpc
       ELSE cl' = 1 /\ cpc' = "after"
    /\ UNCHANGED <<input, admitted, host, wave, sent, header, protocol, lane, worker>>

ReceiveDone ==
    /\ cpc = "receive" /\ state[cl] = "DONE" /\ lstat[cl] = 0
    /\ IF cl < LastLane(wave)
       THEN cl' = cl + 1 /\ UNCHANGED cpc
       ELSE cl' = 1 /\ cpc' = "join"
    /\ UNCHANGED <<input, admitted, host, wave, sent, header, protocol, lane, worker>>

\* Variant: a failed phase is remembered, but the wave goes on.
ReceiveFailureGoesOn ==
    /\ cpc = "receive"
    /\ state[cl] \in {"ERROR", "CANCEL"} \/ (state[cl] = "DONE" /\ lstat[cl] # 0)
    /\ header' = 1
    /\ IF cl < LastLane(wave)
       THEN cl' = cl + 1 /\ UNCHANGED cpc
       ELSE cl' = 1 /\ cpc' = "join"
    /\ UNCHANGED <<input, admitted, host, wave, sent, protocol, lane, worker>>

\* A failed phase: its status word, or ERROR, ends the execution.  CANCEL would
\* take the same branch, but nobody has cancelled the lane yet.
ReceiveFailure ==
    /\ cpc = "receive"
    /\ state[cl] \in {"ERROR", "CANCEL"} \/ (state[cl] = "DONE" /\ lstat[cl] # 0)
    /\ BeginCancel
    /\ protocol' = IF state[cl] = "CANCEL" THEN "broken" ELSE protocol
    /\ UNCHANGED fault

ReceiveEmpty == cpc = "receive" /\ state[cl] = "EMPTY" /\ CoordinatorGoto("block")

\* FUTEX_WAIT compares and blocks atomically; EAGAIN and EINTR look again.
Block ==
    /\ cpc = "block"
    /\ CoordinatorGoto(IF state[cl] = "EMPTY" THEN "asleep" ELSE "receive")

Interrupted == cpc = "asleep" /\ CoordinatorGoto("receive")

\* The units of a lane's batch in the order they lie in its buffer.
Unit(l, k) == <<Phase(wave, l), buf[l][((k - 1) \div Units) + 1], ((k - 1) % Units) + 1>>
BatchUnits(l) == Len(buf[l]) * Units

\* write(1, ..) takes any positive number of the remaining bytes.
Write ==
    /\ cpc = "write"
    /\ \E n \in 1..(BatchUnits(cl) - sent) :
        /\ out' = out \o [k \in 1..n |-> Unit(cl, sent + k)]
        /\ sent' = sent + n
    /\ UNCHANGED <<input, admitted, fault, status, cpc, wave, cl, header, protocol, lane, worker>>

WriteFails ==
    /\ cpc = "write" /\ sent < BatchUnits(cl)
    /\ fault' = "yes"
    /\ BeginCancel
    /\ UNCHANGED protocol

\* The whole batch is out: xchg EMPTY hands the buffer back.
Consume ==
    /\ cpc = "write" /\ sent = BatchUnits(cl)
    /\ state' = [state EXCEPT ![cl] = "EMPTY"]
    /\ cpc' = "wake"
    /\ UNCHANGED <<input, admitted, host, wave, cl, sent, header, protocol, tid, lstat, buf, worker>>

Wake ==
    /\ cpc = "wake"
    /\ WakeWorker(cl)
    /\ cpc' = "receive"
    /\ UNCHANGED <<input, admitted, host, wave, cl, sent, header, protocol, lane, rec, sticky, resume>>

\* cancel: xchg CANCEL and wake, for every lane the wave could have used.
Cancel ==
    /\ cpc = "cancel"
    /\ state' = [state EXCEPT ![cl] = "CANCEL"]
    /\ cpc' = "cancel_wake"
    /\ UNCHANGED <<input, admitted, host, wave, cl, sent, header, protocol, tid, lstat, buf, worker>>

\* Variant: cancelled lanes are not woken.
CancelSilently ==
    /\ cpc = "cancel_wake"
    /\ IF cl < LastLane(wave)
       THEN cl' = cl + 1 /\ cpc' = "cancel"
       ELSE cl' = 1 /\ cpc' = "join"
    /\ UNCHANGED <<input, admitted, host, wave, sent, header, protocol, lane, worker>>

CancelWake ==
    /\ cpc = "cancel_wake"
    /\ WakeWorker(cl)
    /\ IF cl < LastLane(wave)
       THEN cl' = cl + 1 /\ cpc' = "cancel"
       ELSE cl' = 1 /\ cpc' = "join"
    /\ UNCHANGED <<input, admitted, host, wave, sent, header, protocol, lane, rec, sticky, resume>>

\* join: wait for the kernel to clear the TID word of every lane in turn.
JoinDone ==
    /\ cpc = "join" /\ tid[cl] = 0
    /\ IF cl < LastLane(wave)
       THEN cl' = cl + 1 /\ UNCHANGED cpc
       ELSE cl' = 1 /\ cpc' = "after"
    /\ UNCHANGED <<input, admitted, host, wave, sent, header, protocol, lane, worker>>

JoinWait == cpc = "join" /\ tid[cl] # 0 /\ CoordinatorGoto("join_block")

JoinBlock ==
    /\ cpc = "join_block"
    /\ CoordinatorGoto(IF tid[cl] # 0 THEN "join_asleep" ELSE "join")

JoinInterrupted == cpc = "join_asleep" /\ CoordinatorGoto("join")

\* A cancelled wave is the last one.
NextWave ==
    /\ cpc = "after" /\ header = 0 /\ MoreWaves
    /\ wave' = wave + 1
    /\ cpc' = "reset"
    /\ UNCHANGED <<input, admitted, host, cl, sent, header, protocol, lane, worker>>

LastJoined ==
    /\ cpc = "after" /\ (header # 0 \/ ~MoreWaves)
    /\ CoordinatorGoto("cleanup")

\* munmap, then exit_group with the header's status.
Cleanup ==
    /\ cpc = "cleanup"
    /\ \/ /\ ExitGroup(IF header = 0 THEN "ok" ELSE "failed")
          /\ UNCHANGED fault
       \/ /\ ExitGroup("failed")
          /\ fault' = "yes"
    /\ UNCHANGED <<input, admitted, out, wave, cl, sent, header, protocol, lane, rec, sticky, resume>>

-----------------------------------------------------------------------------
(* The worker of lane l. *)

\* fail: single results report ERROR, batches a status of 1 that is reported
\* once the completed records have been flushed.
Fail(l) ==
    IF ResultBatch > 1
    THEN /\ lstat' = [lstat EXCEPT ![l] = 1]
         /\ wpc' = [wpc EXCEPT ![l] = "terminal"]
    ELSE /\ wpc' = [wpc EXCEPT ![l] = "error"]
         /\ UNCHANGED lstat

\* Variant: a reused lane keeps the batch cursor of its previous worker.
WorkerStartKeepsBatch(l) ==
    /\ wpc[l] = "start"
    /\ rec' = [rec EXCEPT ![l] = 1]
    /\ sticky' = [sticky EXCEPT ![l] = 0]
    /\ resume' = [resume EXCEPT ![l] = "next"]
    /\ input.n > 0
    /\ wpc' = [wpc EXCEPT ![l] = "next"]
    /\ UNCHANGED <<input, host, coord, lane>>

FirstError == input.error[1]

\* Fresh stack, sticky status cleared, batch cursor rewound to the buffer.
\* An argument vector too short for one record goes straight to `fail`.
WorkerStart(l) ==
    /\ wpc[l] = "start"
    /\ rec' = [rec EXCEPT ![l] = 1]
    /\ sticky' = [sticky EXCEPT ![l] = 0]
    /\ resume' = [resume EXCEPT ![l] = "next"]
    /\ buf' = [buf EXCEPT ![l] = IF ResultBatch > 1 THEN << >> ELSE @]
    /\ \/ input.n > 0 /\ wpc' = [wpc EXCEPT ![l] = "next"] /\ UNCHANGED lstat
       \/ (input.n = 0 \/ FirstError = 1) /\ Fail(l)
    /\ UNCHANGED <<input, host, coord, state, tid>>

\* Between records: cancellation first, then end of input, then a bad record.
NextCancelled(l) == wpc[l] = "next" /\ state[l] = "CANCEL" /\ WorkerGoto(l, "exit")

Continues(l) == wpc[l] = "next" /\ state[l] # "CANCEL"

\* A complete record whose fields parse and respect their bounds.
NextRecord(l) ==
    /\ Continues(l) /\ rec[l] < FirstError
    /\ WorkerGoto(l, "serialize")

\* done: the sticky status becomes the lane's.
NextDone(l) ==
    /\ Continues(l) /\ rec[l] > input.n
    /\ lstat' = [lstat EXCEPT ![l] = sticky[l]]
    /\ wpc' = [wpc EXCEPT ![l] = IF ResultBatch > 1 THEN "terminal" ELSE "done"]
    /\ UNCHANGED <<input, host, coord, state, tid, buf, rec, sticky, resume>>

\* An incomplete record, a field that does not parse, or one out of bounds.
NextInvalid(l) ==
    /\ Continues(l) /\ rec[l] = FirstError /\ rec[l] <= input.n
    /\ Fail(l)
    /\ UNCHANGED <<input, host, coord, state, tid, buf, rec, sticky, resume>>

\* Variant: the batch is flushed one record too late.
SerializePastBatch(l) ==
    /\ wpc[l] = "serialize"
    /\ buf' = [buf EXCEPT ![l] = Append(@, rec[l])]
    /\ rec' = [rec EXCEPT ![l] = rec[l] + 1]
    /\ wpc' = [wpc EXCEPT ![l] = IF Len(buf'[l]) > ResultBatch THEN "publish" ELSE "next"]
    /\ UNCHANGED <<input, host, coord, state, tid, lstat, sticky, resume>>

\* The phase body writes one result at the buffer cursor; a false result is
\* remembered.  A single result overwrites the previous one, a batch grows
\* until it holds result_batch records.
Serialize(l) ==
    LET batch == IF ResultBatch > 1 THEN Append(buf[l], rec[l]) ELSE <<rec[l]>>
    IN  /\ wpc[l] = "serialize"
        /\ buf' = [buf EXCEPT ![l] = batch]
        /\ sticky' = [sticky EXCEPT ![l] =
                         IF <<Phase(wave, l), rec[l]>> \in input.falsy THEN 1 ELSE @]
        /\ rec' = [rec EXCEPT ![l] = rec[l] + 1]
        /\ wpc' = [wpc EXCEPT ![l] = IF Len(batch) < ResultBatch THEN "next" ELSE "publish"]
        /\ UNCHANGED <<input, host, coord, state, tid, lstat, resume>>

\* flush: READY, then wake the coordinator, then await consumption.
PublishReady(l) ==
    /\ wpc[l] = "publish"
    /\ PublishOnce(l, "READY", "ready_wake")
    /\ UNCHANGED <<input, host, coord, tid, lstat, buf, rec, sticky, resume>>

\* Variant: the worker goes on without waiting for the coordinator.
ReadyWakeAndContinue(l) ==
    /\ wpc[l] = "ready_wake"
    /\ cpc' = IF CoordinatorSleepsOn(l) THEN "receive" ELSE cpc
    /\ wpc' = [wpc EXCEPT ![l] = "next"]
    /\ UNCHANGED <<input, host, wave, cl, admitted, sent, header, protocol, lane,
                   rec, sticky, resume>>

ReadyWake(l) ==
    /\ wpc[l] = "ready_wake"
    /\ cpc' = IF CoordinatorSleepsOn(l) THEN "receive" ELSE cpc
    /\ wpc' = [wpc EXCEPT ![l] = "await"]
    /\ UNCHANGED <<input, host, wave, cl, admitted, sent, header, protocol, lane,
                   rec, sticky, resume>>

AwaitCancelled(l) == wpc[l] = "await" /\ state[l] = "CANCEL" /\ WorkerGoto(l, "exit")

\* EMPTY again: rewind the batch and go on, or finish the terminal flush.
AwaitConsumed(l) ==
    /\ wpc[l] = "await" /\ state[l] = "EMPTY"
    /\ IF resume[l] = "next"
       THEN /\ wpc' = [wpc EXCEPT ![l] = "next"]
            /\ buf' = [buf EXCEPT ![l] = IF ResultBatch > 1 THEN << >> ELSE @]
       ELSE /\ wpc' = [wpc EXCEPT ![l] = "done"]
            /\ UNCHANGED buf
    /\ UNCHANGED <<input, host, coord, state, tid, lstat, rec, sticky, resume>>

\* READY: not consumed yet.  Any other word here would end the process.
AwaitPending(l) ==
    /\ wpc[l] = "await" /\ state[l] \notin {"CANCEL", "EMPTY"}
    /\ IF state[l] = "READY"
       THEN /\ wpc' = [wpc EXCEPT ![l] = "block"]
            /\ UNCHANGED <<status, cpc, protocol>>
       ELSE ExitGroup("failed") /\ protocol' = "broken"
    /\ UNCHANGED <<input, out, fault, wave, cl, admitted, sent, header, lane, rec,
                   sticky, resume>>

\* Variant: the wait does not compare the word with what was read.
WorkerBlockBlindly(l) == wpc[l] = "block" /\ WorkerGoto(l, "asleep")

WorkerBlock(l) ==
    /\ wpc[l] = "block"
    /\ WorkerGoto(l, IF state[l] = "READY" THEN "asleep" ELSE "await")

WorkerInterrupted(l) == wpc[l] = "asleep" /\ WorkerGoto(l, "await")

\* terminal: whatever the batch still holds is published before the status.
Terminal(l) ==
    /\ wpc[l] = "terminal"
    /\ IF buf[l] = << >>
       THEN wpc' = [wpc EXCEPT ![l] = "done"] /\ UNCHANGED resume
       ELSE /\ wpc' = [wpc EXCEPT ![l] = "publish"]
            /\ resume' = [resume EXCEPT ![l] = "complete"]
    /\ UNCHANGED <<input, host, coord, lane, rec, sticky>>

PublishEnd(l) ==
    /\ \/ wpc[l] = "done" /\ PublishOnce(l, "DONE", "end_wake")
       \/ wpc[l] = "error" /\ PublishOnce(l, "ERROR", "end_wake")
    /\ UNCHANGED <<input, host, coord, tid, lstat, buf, rec, sticky, resume>>

EndWake(l) ==
    /\ wpc[l] = "end_wake"
    /\ cpc' = IF CoordinatorSleepsOn(l) THEN "receive" ELSE cpc
    /\ wpc' = [wpc EXCEPT ![l] = "exit"]
    /\ UNCHANGED <<input, host, wave, cl, admitted, sent, header, protocol, lane,
                   rec, sticky, resume>>

\* Thread exit: the kernel clears the TID word and wakes a joiner.
ThreadExit(l) ==
    /\ wpc[l] = "exit"
    /\ wpc' = [wpc EXCEPT ![l] = "off"]
    /\ tid' = [tid EXCEPT ![l] = 0]
    /\ cpc' = IF cpc = "join_asleep" /\ cl = l THEN "join" ELSE cpc
    /\ UNCHANGED <<input, host, wave, cl, admitted, sent, header, protocol, state,
                   lstat, buf, rec, sticky, resume>>

\* A futex call refused with anything but EINTR or EAGAIN ends the process.
SyncFails ==
    /\ \/ cpc \in {"block", "wake", "cancel_wake", "join_block"}
       \/ \E l \in Lanes : wpc[l] \in {"ready_wake", "block", "end_wake"}
    /\ fault' = "yes"
    /\ ExitGroup("failed")
    /\ UNCHANGED <<input, out, wave, cl, admitted, sent, header, protocol, lane, rec,
                   sticky, resume>>

-----------------------------------------------------------------------------
\* The coordinator's steps that need nothing from the host but to return.
CoordinatorStep ==
    \/ Map \/ Reset \/ Clone
    \/ ReceiveReady \/ ReceiveDone \/ ReceiveFailure
    \/ ReceiveEmpty \/ Block
    \/ Write \/ Consume \/ Wake
    \/ Cancel \/ CancelWake
    \/ JoinDone \/ JoinWait \/ JoinBlock
    \/ NextWave \/ LastJoined \/ Cleanup

WorkerStep(l) ==
    \/ WorkerStart(l)
    \/ NextCancelled(l) \/ NextRecord(l) \/ NextDone(l) \/ NextInvalid(l)
    \/ Serialize(l) \/ PublishReady(l) \/ ReadyWake(l)
    \/ AwaitCancelled(l) \/ AwaitConsumed(l) \/ AwaitPending(l)
    \/ WorkerBlock(l) \/ Terminal(l) \/ PublishEnd(l) \/ EndWake(l) \/ ThreadExit(l)

\* What the host may do, and never has to.
HostStep ==
    \/ MapFails \/ CloneFails \/ WriteFails \/ SyncFails
    \/ Interrupted \/ JoinInterrupted
    \/ \E l \in Lanes : WorkerInterrupted(l)

Ended == cpc = "dead" /\ UNCHANGED vars

Next == CoordinatorStep \/ (\E l \in Lanes : WorkerStep(l)) \/ HostStep \/ Ended

\* Every runnable thread is scheduled and system calls return.
Fairness ==
    /\ WF_vars(CoordinatorStep)
    /\ \A l \in Lanes : WF_vars(WorkerStep(l))

Spec == Init /\ [][Next]_vars
FairSpec == Spec /\ Fairness

-----------------------------------------------------------------------------
(* Properties. *)

\* The result buffer is never read and written at once: while the coordinator
\* writes a lane's batch out, the lane's worker is parked until consumption.
BufferExclusive ==
    cpc = "write" => /\ state[cl] = "READY"
                     /\ wpc[cl] \in {"ready_wake", "await", "block", "asleep"}

\* No sleeper is left behind: a thread asleep on a word that has changed has a
\* wake-up on its way from the thread that changed it.
NoLostWakeup ==
    /\ cpc = "asleep" /\ state[cl] # "EMPTY" => wpc[cl] \in {"ready_wake", "end_wake"}
    /\ \A l \in Lanes :
        wpc[l] = "asleep" /\ state[l] # "READY" =>
            cl = l /\ cpc \in {"wake", "cancel_wake"}
    /\ cpc = "join_asleep" => tid[cl] # 0

\* A lane's stack, buffer and words are reset, reused or unmapped only when its
\* previous thread has left.
JoinBeforeReuse ==
    /\ cpc \in {"reset", "cleanup"} => \A l \in Lanes : wpc[l] = "off"
    /\ cpc = "clone" => wpc[cl] = "off"
    /\ \A l \in Lanes : wpc[l] # "off" => tid[l] # 0

\* The branches that only a broken hand-off can take are dead code.
ProtocolKept == protocol = "kept"

\* A wave whose admission was refused part-way publishes nothing.
PartialWavePublishesNothing ==
    admitted < LastLane(wave) =>
        \A k \in 1..Len(out) : out[k][1] < Phase(wave, 1)

\* A cancelled lane stays cancelled: no worker overwrites CANCEL.
CancelIsFinal == [][\A l \in Lanes : state[l] = "CANCEL" => state'[l] = "CANCEL"]_vars

\* The scheduler implements the sequential reference: standard output is always
\* a prefix of the phase-major order, complete and with the reference's exit
\* status unless the host refused a call.
RefinesPublication == Published!Spec

\* The execution ends, whatever fails and whenever cancellation strikes.
Termination == <>(cpc = "dead")

=============================================================================

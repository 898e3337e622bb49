----------------------- MODULE NativeConcurrent_proofs -----------------------
(***************************************************************************)
(* The hand-off between the coordinator and the workers of the emitted      *)
(* scheduler, for every number of phases, lanes, records and results per    *)
(* batch: buffers are exclusive, no futex wake-up is lost, lanes are reused *)
(* only after their thread has left, a cancelled lane stays cancelled and   *)
(* the branches that only a broken hand-off could take are dead.            *)
(*                                                                         *)
(* And what is published: at every moment the output is a beginning of the  *)
(* reference, phase by phase, record by record and unit by unit, so the     *)
(* scheduler implements OrderedPublication and a wave that was only partly  *)
(* admitted is silent.                                                      *)
(*                                                                         *)
(* None of these is inductive alone.  The invariant says, lane by lane,     *)
(* which state words are possible at each point of the worker (LaneProtocol)*)
(* what the coordinator knows at each of its own (Coordination), where      *)
(* threads can be (Threads), that cancellation is recorded in the header    *)
(* before any lane sees it (Cancellation), and that a batch still has room  *)
(* when a worker is about to fill it (BatchRoom).  For what is published it *)
(* adds Ordered: the output is the reference's first Len(out) units         *)
(* (Content), each lane's records, batch and verdict are those the request  *)
(* determines (Found), the coordinator's place in the reference is that of  *)
(* the lane it serves (Pending), and nothing is out before all lanes of the *)
(* wave are admitted (Admission).                                           *)
(***************************************************************************)
EXTENDS NativeConcurrent, TLAPS, WellFoundedInduction, SequenceTheorems

\* The part of TypeOK the hand-off depends on.
Control ==
    /\ cpc \in CoordinatorPcs
    /\ wave \in Nat \ {0} /\ Phase(wave, 1) <= NumPhases
    /\ cl \in 1..LastLane(wave)
    /\ protocol = "kept"
    /\ header \in {0, 1}
    /\ state \in [Lanes -> States]
    /\ tid \in [Lanes -> {0, 1}]
    /\ wpc \in [Lanes -> WorkerPcs]

Parked == {"ready_wake", "await", "block", "asleep"}
Producing == {"start", "next", "serialize", "publish", "terminal", "done", "error"}
Leaving == {"end_wake", "exit"}

\* The words a lane can hold while its worker is at `where`.
Fits(where, word) ==
    /\ where \in Parked => word \in {"READY", "EMPTY", "CANCEL"}
    /\ where \in Producing => word \in {"EMPTY", "CANCEL"}
    /\ where \in Leaving => word \in {"DONE", "ERROR", "CANCEL"}
    /\ where = "off" => word # "READY"

LaneProtocol == cpc # "dead" => \A l \in Lanes : Fits(wpc[l], state[l])

\* What the coordinator relies on; exit_group leaves no thread.
Coordination ==
    /\ cpc = "dead" => \A l \in Lanes : wpc[l] = "off"
    /\ cpc = "write" => state[cl] = "READY"
    /\ cpc = "asleep" /\ state[cl] # "EMPTY" => wpc[cl] \in {"ready_wake", "end_wake"}
    /\ \A l \in Lanes : wpc[l] = "asleep" /\ state[l] # "READY" =>
                            cl = l /\ cpc \in {"wake", "cancel_wake"}
    /\ cpc = "join_asleep" => tid[cl] # 0

\* Where threads can be: on lanes of the wave only, none while lanes are reset,
\* none ahead of the clone loop and none behind the join loop.
Threads ==
    /\ \A l \in Lanes : wpc[l] # "off" => tid[l] = 1
    /\ \A l \in Lanes : tid[l] = 1 => l <= LastLane(wave)
    /\ cpc \in {"map", "reset", "after", "cleanup"} => \A l \in Lanes : tid[l] = 0
    /\ cpc \in {"map", "reset", "after"} => cl = 1
    /\ cpc = "clone" => \A l \in Lanes : l >= cl => tid[l] = 0
    /\ cpc = "clone" => \A l \in WaveLanes(wave) : l >= cl => state[l] = "EMPTY"
    /\ cpc \in {"join", "join_block", "join_asleep"} => \A l \in Lanes : l < cl => tid[l] = 0

LiveThreads == cpc # "dead" => Threads

\* The header is raised before the first lane is cancelled, and only then.
Cancellation ==
    /\ \A l \in Lanes : state[l] = "CANCEL" => header = 1
    /\ cpc \in {"map", "reset", "clone", "receive", "block", "asleep", "write", "wake"} =>
           header = 0
    /\ cpc \in {"cancel", "cancel_wake"} => header = 1

\* A worker that is about to add a result to a batch has room for it.
BatchRoom ==
    /\ ResultBatch \in Nat \ {0}
    /\ rec \in [Lanes -> Nat]
    /\ buf \in [Lanes -> Seq(Nat)]
    /\ \A l \in Lanes :
        /\ Len(buf[l]) <= ResultBatch
        /\ ResultBatch > 1 /\ wpc[l] \in {"next", "serialize"} => Len(buf[l]) < ResultBatch

\* The inductive invariant.
Protocol == Control /\ LaneProtocol /\ Coordination /\ LiveThreads /\ Cancellation
Handoff == Protocol /\ BatchRoom

-----------------------------------------------------------------------------
\* The lanes of a wave that exists are lanes of the layout, one at least.
LEMMA WaveShape ==
    ASSUME NEW w \in Nat, Phase(w, 1) <= NumPhases
    PROVE  /\ LaneCount \in Nat \ {0}
           /\ LastLane(w) \in 1..LaneCount
<1>1. LaneCount \in Nat \ {0}
  BY ConcurrentAssumption DEF LaneCount
<1>2. (w - 1) * MaxInFlight \in Int
  BY ConcurrentAssumption
<1>3. QED
  BY <1>1, <1>2, ConcurrentAssumption DEF LastLane, Phase

\* The fresh mapping satisfies the invariant.
LEMMA InitHandoff == Init => Handoff
<1> SUFFICES ASSUME Init PROVE Handoff
  OBVIOUS
<1>1. wave \in Nat /\ Phase(wave, 1) <= NumPhases
  BY ConcurrentAssumption DEF Init, Phase
<1>2. LaneCount \in Nat /\ LastLane(wave) \in 1..LaneCount
  BY <1>1, WaveShape
<1>3. Control
  BY <1>1, <1>2 DEF Init, Control, CoordinatorPcs, States, WorkerPcs, Lanes
<1>4. LaneProtocol /\ Coordination /\ Threads /\ Cancellation
  BY <1>2 DEF Init, LaneProtocol, Fits, Coordination, Threads, Cancellation, Lanes, WaveLanes,
              Parked, Producing, Leaving
<1>5. BatchRoom
  BY ConcurrentAssumption DEF Init, NativeInputs, BatchRoom, ResultBatch
<1>6. QED
  BY <1>3, <1>4, <1>5 DEF Handoff, Protocol, LiveThreads

-----------------------------------------------------------------------------
\* A step that fills no buffer keeps the batches within bounds.
LEMMA BatchKept ==
    ASSUME BatchRoom, UNCHANGED <<input, rec, buf>>,
           \A l \in Lanes : wpc'[l] \in {"next", "serialize"} => wpc[l] \in {"next", "serialize"}
    PROVE  BatchRoom'
BY DEF BatchRoom, ResultBatch

\* A worker that moves on to `where` without touching its lane's word, and
\* without a wake-up to deliver, keeps the protocol if `where` fits the word.
LEMMA WorkerMove ==
    ASSUME Protocol, NEW k \in Lanes, NEW where \in WorkerPcs \ {"off"},
           wpc' = [wpc EXCEPT ![k] = where],
           UNCHANGED <<cpc, wave, cl, protocol, header, state, tid>>,
           wpc[k] \notin {"off", "ready_wake", "end_wake"},
           Fits(where, state[k]),
           where = "asleep" => state[k] = "READY"
    PROVE  Protocol'
<1>1. Control'
  BY DEF Protocol, Control
<1>2. LaneProtocol'
  BY DEF Protocol, Control, LaneProtocol, Fits
<1>3. Coordination'
  BY DEF Protocol, Control, Coordination
<1>4. LiveThreads'
  BY DEF Protocol, Control, LiveThreads, Threads
<1>5. Cancellation'
  BY DEF Protocol, Control, Cancellation
<1>6. QED
  BY <1>1, <1>2, <1>3, <1>4, <1>5 DEF Protocol

\* A worker's cmpxchg either publishes its word, owing a wake-up, or finds the
\* lane cancelled and leaves.
LEMMA WorkerPublishes ==
    ASSUME Protocol, NEW k \in Lanes,
           NEW value \in {"READY", "DONE", "ERROR"}, NEW then \in {"ready_wake", "end_wake"},
           Fits(then, value),
           wpc[k] \in Producing,
           PublishOnce(k, value, then),
           UNCHANGED <<cpc, wave, cl, protocol, header, tid>>
    PROVE  Protocol'
<1>1. CASE state[k] = "EMPTY"
  <2>0. /\ state' = [state EXCEPT ![k] = value]
        /\ wpc' = [wpc EXCEPT ![k] = then]
    BY <1>1 DEF PublishOnce
  <2>1. Control'
    BY <2>0 DEF Protocol, Control, States, WorkerPcs
  <2>2. LaneProtocol'
    BY <2>0 DEF Protocol, Control, LaneProtocol, Fits
  <2>3. Coordination'
    BY <1>1, <2>0 DEF Protocol, Control, Coordination, Producing
  <2>4. LiveThreads'
    BY <2>0 DEF Protocol, Control, LiveThreads, Threads, Producing, WaveLanes, Lanes
  <2>5. Cancellation'
    BY <2>0 DEF Protocol, Control, Cancellation
  <2>6. QED
    BY <2>1, <2>2, <2>3, <2>4, <2>5 DEF Protocol
<1>2. CASE state[k] # "EMPTY"
  <2>1. cpc # "dead"
    BY DEF Protocol, Coordination, Producing
  <2>2. state[k] = "CANCEL"
    BY <1>2, <2>1 DEF Protocol, LaneProtocol, Fits
  <2>3. /\ wpc' = [wpc EXCEPT ![k] = "exit"] /\ UNCHANGED state
    BY <1>2 DEF PublishOnce
  <2>4. Fits("exit", state[k])
    BY <2>2 DEF Fits, Parked, Producing, Leaving
  <2>5. wpc[k] \notin {"off", "ready_wake", "end_wake"} /\ "exit" \in WorkerPcs \ {"off"}
    BY DEF Producing, WorkerPcs
  <2>6. QED
    BY <2>3, <2>4, <2>5, WorkerMove
<1>3. QED
  BY <1>1, <1>2

\* A worker's wake-up resumes the coordinator if it sleeps on the lane.
LEMMA WorkerWakes ==
    ASSUME Protocol, NEW k \in Lanes, NEW where \in {"await", "exit"},
           \/ wpc[k] = "ready_wake" /\ where = "await"
           \/ wpc[k] = "end_wake" /\ where = "exit",
           wpc' = [wpc EXCEPT ![k] = where],
           cpc' = IF CoordinatorSleepsOn(k) THEN "receive" ELSE cpc,
           UNCHANGED <<wave, cl, protocol, header, state, tid>>
    PROVE  Protocol'
<1>1. Control'
  BY DEF Protocol, Control, WorkerPcs, CoordinatorPcs
<1>2. LaneProtocol'
  BY DEF Protocol, Control, LaneProtocol, Fits, Parked, Producing, Leaving, CoordinatorSleepsOn
<1>3. Coordination'
  BY DEF Protocol, Control, Coordination, CoordinatorSleepsOn
<1>4. LiveThreads'
  BY DEF Protocol, Control, LiveThreads, Threads, CoordinatorSleepsOn
<1>5. Cancellation'
  BY DEF Protocol, Control, Cancellation, CoordinatorSleepsOn
<1>6. QED
  BY <1>1, <1>2, <1>3, <1>4, <1>5 DEF Protocol

\* exit_group ends every thread.
LEMMA ProcessEnds ==
    ASSUME Protocol, NEW s, ExitGroup(s), UNCHANGED <<wave, cl, header, state, tid>>,
           protocol' = "kept", header' \in {0, 1}
    PROVE  Protocol'
BY DEF Protocol, Control, LaneProtocol, Coordination, LiveThreads, Cancellation,
       ExitGroup, CoordinatorPcs, WorkerPcs

-----------------------------------------------------------------------------
\* Every step of the coordinator keeps the invariant.
LEMMA CoordinatorHandoff == Handoff /\ CoordinatorStep => Handoff'
<1> SUFFICES ASSUME Handoff, CoordinatorStep PROVE Handoff'
  OBVIOUS
<1>1. LaneCount \in Nat \ {0} /\ LastLane(wave) \in 1..LaneCount
  BY WaveShape DEF Handoff, Protocol, Control
<1> USE DEF Handoff, Protocol, host, coord, lane, worker
<1>2. CASE Map
  <2>1. Protocol'
    BY <1>1, <1>2 DEF Map, CoordinatorGoto, Control, LaneProtocol, Fits, Coordination,
       LiveThreads, Threads, Cancellation, Lanes, WaveLanes, Parked, Producing, Leaving,
       CoordinatorPcs, WorkerPcs, States
  <2>2. BatchRoom'
    BY <1>2, BatchKept DEF Map, CoordinatorGoto
  <2>3. QED
    BY <2>1, <2>2
<1>3. CASE Reset
  <2>1. Protocol'
    BY <1>1, <1>3 DEF Reset, Control, LaneProtocol, Fits, Coordination, LiveThreads,
       Threads, Cancellation, Lanes, WaveLanes, Parked, Producing, Leaving, CoordinatorPcs,
       WorkerPcs, States
  <2>2. BatchRoom'
    BY <1>3, BatchKept DEF Reset
  <2>3. QED
    BY <2>1, <2>2
<1>4. CASE Clone
  <2>0. cl' \in 1..LastLane(wave)
    BY <1>1, <1>4 DEF Clone, Control, Lanes
  <2>1. Control'
    BY <1>1, <1>4, <2>0 DEF Clone, Control, Lanes, CoordinatorPcs, WorkerPcs, States
  <2>2. LaneProtocol'
    BY <1>1, <1>4, <2>0 DEF Clone, Control, LaneProtocol, Fits, LiveThreads, Threads,
       Coordination, Lanes, WaveLanes, Parked, Producing, Leaving
  <2>3. Coordination'
    BY <1>1, <1>4, <2>0 DEF Clone, Control, Coordination, LaneProtocol, Fits, LiveThreads,
       Threads, Lanes
  <2>4. LiveThreads'
    BY <1>1, <1>4, <2>0 DEF Clone, Control, LiveThreads, Threads, Lanes, WaveLanes
  <2>5. Cancellation'
    BY <1>1, <1>4, <2>0 DEF Clone, Control, Cancellation, Lanes
  <2>6. BatchRoom'
    BY <1>4, BatchKept DEF Clone, Control
  <2>7. QED
    BY <2>1, <2>2, <2>3, <2>4, <2>5, <2>6
<1>5. CASE ReceiveReady
  <2>0. Len(buf[cl]) <= ResultBatch
    BY <1>1 DEF Control, BatchRoom, Lanes
  <2>1. Control'
    BY <1>1, <1>5, <2>0 DEF ReceiveReady, BeginCancel, Control, Lanes, CoordinatorPcs,
       WorkerPcs, States
  <2>2. LaneProtocol'
    BY <1>1, <1>5, <2>0 DEF ReceiveReady, BeginCancel, Control, LaneProtocol, Fits,
       LiveThreads, Threads, Coordination, Lanes, WaveLanes, Parked, Producing, Leaving
  <2>3. Coordination'
    BY <1>1, <1>5, <2>0 DEF ReceiveReady, BeginCancel, Control, Coordination, LaneProtocol,
       Fits, LiveThreads, Threads, Lanes
  <2>4. LiveThreads'
    BY <1>1, <1>5, <2>0 DEF ReceiveReady, BeginCancel, Control, LiveThreads, Threads, Lanes,
       WaveLanes
  <2>5. Cancellation'
    BY <1>1, <1>5, <2>0 DEF ReceiveReady, BeginCancel, Control, Cancellation, Lanes
  <2>6. BatchRoom'
    BY <1>5, BatchKept DEF ReceiveReady, BeginCancel, Control
  <2>7. QED
    BY <2>1, <2>2, <2>3, <2>4, <2>5, <2>6
<1>6. CASE ReceiveDone
  <2>0. cl' \in 1..LastLane(wave)
    BY <1>1, <1>6 DEF ReceiveDone, Control, Lanes
  <2>1. Control'
    BY <1>1, <1>6, <2>0 DEF ReceiveDone, Control, Lanes, CoordinatorPcs, WorkerPcs, States
  <2>2. LaneProtocol'
    BY <1>1, <1>6, <2>0 DEF ReceiveDone, Control, LaneProtocol, Fits, LiveThreads, Threads,
       Coordination, Lanes, WaveLanes, Parked, Producing, Leaving
  <2>3. Coordination'
    BY <1>1, <1>6, <2>0 DEF ReceiveDone, Control, Coordination, LaneProtocol, Fits,
       LiveThreads, Threads, Lanes
  <2>4. LiveThreads'
    BY <1>1, <1>6, <2>0 DEF ReceiveDone, Control, LiveThreads, Threads, Lanes, WaveLanes
  <2>5. Cancellation'
    BY <1>1, <1>6, <2>0 DEF ReceiveDone, Control, Cancellation, Lanes
  <2>6. BatchRoom'
    BY <1>6, BatchKept DEF ReceiveDone, Control
  <2>7. QED
    BY <2>1, <2>2, <2>3, <2>4, <2>5, <2>6
<1>7. CASE ReceiveFailure
  <2>0. state[cl] # "CANCEL"
    BY <1>1, <1>7 DEF ReceiveFailure, Control, Cancellation, Lanes
  <2>1. Control'
    BY <1>1, <1>7, <2>0 DEF ReceiveFailure, BeginCancel, Control, Lanes, CoordinatorPcs,
       WorkerPcs, States
  <2>2. LaneProtocol'
    BY <1>1, <1>7, <2>0 DEF ReceiveFailure, BeginCancel, Control, LaneProtocol, Fits,
       LiveThreads, Threads, Coordination, Lanes, WaveLanes, Parked, Producing, Leaving
  <2>3. Coordination'
    BY <1>1, <1>7, <2>0 DEF ReceiveFailure, BeginCancel, Control, Coordination,
       LaneProtocol, Fits, LiveThreads, Threads, Lanes
  <2>4. LiveThreads'
    BY <1>1, <1>7, <2>0 DEF ReceiveFailure, BeginCancel, Control, LiveThreads, Threads,
       Lanes, WaveLanes
  <2>5. Cancellation'
    BY <1>1, <1>7, <2>0 DEF ReceiveFailure, BeginCancel, Control, Cancellation, Lanes
  <2>6. BatchRoom'
    BY <1>7, BatchKept DEF ReceiveFailure, BeginCancel, Control
  <2>7. QED
    BY <2>1, <2>2, <2>3, <2>4, <2>5, <2>6
<1>8. CASE ReceiveEmpty
  <2>1. Protocol'
    BY <1>1, <1>8 DEF ReceiveEmpty, CoordinatorGoto, Control, LaneProtocol, Fits,
       Coordination, LiveThreads, Threads, Cancellation, Lanes, WaveLanes, Parked,
       Producing, Leaving, CoordinatorPcs, WorkerPcs, States
  <2>2. BatchRoom'
    BY <1>8, BatchKept DEF ReceiveEmpty, CoordinatorGoto
  <2>3. QED
    BY <2>1, <2>2
<1>9. CASE Block
  <2>1. Protocol'
    BY <1>1, <1>9 DEF Block, CoordinatorGoto, Control, LaneProtocol, Fits, Coordination,
       LiveThreads, Threads, Cancellation, Lanes, WaveLanes, Parked, Producing, Leaving,
       CoordinatorPcs, WorkerPcs, States
  <2>2. BatchRoom'
    BY <1>9, BatchKept DEF Block, CoordinatorGoto
  <2>3. QED
    BY <2>1, <2>2
<1>10. CASE Write
  <2>1. Protocol'
    BY <1>1, <1>10 DEF Write, Control, LaneProtocol, Fits, Coordination, LiveThreads,
       Threads, Cancellation, Lanes, WaveLanes, Parked, Producing, Leaving, CoordinatorPcs,
       WorkerPcs, States
  <2>2. BatchRoom'
    BY <1>10, BatchKept DEF Write
  <2>3. QED
    BY <2>1, <2>2
<1>11. CASE Consume
  <2>1. Protocol'
    BY <1>1, <1>11 DEF Consume, Control, LaneProtocol, Fits, Coordination, LiveThreads,
       Threads, Cancellation, Lanes, WaveLanes, Parked, Producing, Leaving, CoordinatorPcs,
       WorkerPcs, States
  <2>2. BatchRoom'
    BY <1>11, BatchKept DEF Consume
  <2>3. QED
    BY <2>1, <2>2
<1>12. CASE Wake
  <2>1. Protocol'
    BY <1>1, <1>12 DEF Wake, WakeWorker, Control, LaneProtocol, Fits, Coordination,
       LiveThreads, Threads, Cancellation, Lanes, WaveLanes, Parked, Producing, Leaving,
       CoordinatorPcs, WorkerPcs, States
  <2>2. BatchRoom'
    BY <1>12, BatchKept DEF Wake, WakeWorker
  <2>3. QED
    BY <2>1, <2>2
<1>13. CASE Cancel
  <2>0. header = 1
    BY <1>13 DEF Cancel, Cancellation, Control
  <2>1. Control'
    BY <1>1, <1>13, <2>0 DEF Cancel, Control, Lanes, CoordinatorPcs, WorkerPcs, States
  <2>2. LaneProtocol'
    BY <1>1, <1>13, <2>0 DEF Cancel, Control, LaneProtocol, Fits, LiveThreads, Threads,
       Coordination, Lanes, WaveLanes, Parked, Producing, Leaving
  <2>3. Coordination'
    BY <1>1, <1>13, <2>0 DEF Cancel, Control, Coordination, LaneProtocol, Fits, LiveThreads,
       Threads, Lanes
  <2>4. LiveThreads'
    BY <1>1, <1>13, <2>0 DEF Cancel, Control, LiveThreads, Threads, Lanes, WaveLanes
  <2>5. Cancellation'
    BY <1>1, <1>13, <2>0 DEF Cancel, Control, Cancellation, Lanes
  <2>6. BatchRoom'
    BY <1>13, BatchKept DEF Cancel, Control
  <2>7. QED
    BY <2>1, <2>2, <2>3, <2>4, <2>5, <2>6
<1>14. CASE CancelWake
  <2>0. cl' \in 1..LastLane(wave)
    BY <1>1, <1>14 DEF CancelWake, Control, Lanes
  <2>1. Control'
    BY <1>1, <1>14, <2>0 DEF CancelWake, WakeWorker, Control, Lanes, CoordinatorPcs,
       WorkerPcs, States
  <2>2. LaneProtocol'
    BY <1>1, <1>14, <2>0 DEF CancelWake, WakeWorker, Control, LaneProtocol, Fits,
       LiveThreads, Threads, Coordination, Lanes, WaveLanes, Parked, Producing, Leaving
  <2>3. Coordination'
    BY <1>1, <1>14, <2>0 DEF CancelWake, WakeWorker, Control, Coordination, LaneProtocol,
       Fits, LiveThreads, Threads, Lanes
  <2>4. LiveThreads'
    BY <1>1, <1>14, <2>0 DEF CancelWake, WakeWorker, Control, LiveThreads, Threads, Lanes,
       WaveLanes
  <2>5. Cancellation'
    BY <1>1, <1>14, <2>0 DEF CancelWake, WakeWorker, Control, Cancellation, Lanes
  <2>6. BatchRoom'
    BY <1>14, BatchKept DEF CancelWake, WakeWorker, Control
  <2>7. QED
    BY <2>1, <2>2, <2>3, <2>4, <2>5, <2>6
<1>15. CASE JoinDone
  <2>0. cl' \in 1..LastLane(wave)
    BY <1>1, <1>15 DEF JoinDone, Control, Lanes
  <2>1. Control'
    BY <1>1, <1>15, <2>0 DEF JoinDone, Control, Lanes, CoordinatorPcs, WorkerPcs, States
  <2>2. LaneProtocol'
    BY <1>1, <1>15, <2>0 DEF JoinDone, Control, LaneProtocol, Fits, LiveThreads, Threads,
       Coordination, Lanes, WaveLanes, Parked, Producing, Leaving
  <2>3. Coordination'
    BY <1>1, <1>15, <2>0 DEF JoinDone, Control, Coordination, LaneProtocol, Fits,
       LiveThreads, Threads, Lanes
  <2>4. LiveThreads'
    BY <1>1, <1>15, <2>0 DEF JoinDone, Control, LiveThreads, Threads, Lanes, WaveLanes
  <2>5. Cancellation'
    BY <1>1, <1>15, <2>0 DEF JoinDone, Control, Cancellation, Lanes
  <2>6. BatchRoom'
    BY <1>15, BatchKept DEF JoinDone, Control
  <2>7. QED
    BY <2>1, <2>2, <2>3, <2>4, <2>5, <2>6
<1>16. CASE JoinWait
  <2>1. Protocol'
    BY <1>1, <1>16 DEF JoinWait, CoordinatorGoto, Control, LaneProtocol, Fits, Coordination,
       LiveThreads, Threads, Cancellation, Lanes, WaveLanes, Parked, Producing, Leaving,
       CoordinatorPcs, WorkerPcs, States
  <2>2. BatchRoom'
    BY <1>16, BatchKept DEF JoinWait, CoordinatorGoto
  <2>3. QED
    BY <2>1, <2>2
<1>17. CASE JoinBlock
  <2>1. Protocol'
    BY <1>1, <1>17 DEF JoinBlock, CoordinatorGoto, Control, LaneProtocol, Fits,
       Coordination, LiveThreads, Threads, Cancellation, Lanes, WaveLanes, Parked,
       Producing, Leaving, CoordinatorPcs, WorkerPcs, States
  <2>2. BatchRoom'
    BY <1>17, BatchKept DEF JoinBlock, CoordinatorGoto
  <2>3. QED
    BY <2>1, <2>2
<1>18. CASE NextWave
  <2>0. wave + 1 \in Nat /\ Phase(wave + 1, 1) <= NumPhases /\ LastLane(wave + 1) \in 1..LaneCount
                  /\ cl = 1 /\ wave' = wave + 1 /\ cl' = 1
    BY <1>1, <1>18, WaveShape DEF NextWave, MoreWaves, Control, LiveThreads, Threads
  <2>1. Control'
    BY <1>1, <1>18, <2>0 DEF NextWave, MoreWaves, Control, Lanes, CoordinatorPcs, WorkerPcs,
       States
  <2>2. LaneProtocol'
    BY <1>1, <1>18, <2>0 DEF NextWave, MoreWaves, Control, LaneProtocol, Fits, LiveThreads,
       Threads, Coordination, Lanes, WaveLanes, Parked, Producing, Leaving
  <2>3. Coordination'
    BY <1>1, <1>18, <2>0 DEF NextWave, MoreWaves, Control, Coordination, LaneProtocol, Fits,
       LiveThreads, Threads, Lanes
  <2>4. LiveThreads'
    BY <1>1, <1>18, <2>0 DEF NextWave, MoreWaves, Control, LiveThreads, Threads, Lanes,
       WaveLanes
  <2>5. Cancellation'
    BY <1>1, <1>18, <2>0 DEF NextWave, MoreWaves, Control, Cancellation, Lanes
  <2>6. BatchRoom'
    BY <1>18, BatchKept DEF NextWave, MoreWaves, Control
  <2>7. QED
    BY <2>1, <2>2, <2>3, <2>4, <2>5, <2>6
<1>19. CASE LastJoined
  <2>1. Protocol'
    BY <1>1, <1>19 DEF LastJoined, CoordinatorGoto, Control, LaneProtocol, Fits,
       Coordination, LiveThreads, Threads, Cancellation, Lanes, WaveLanes, Parked,
       Producing, Leaving, CoordinatorPcs, WorkerPcs, States
  <2>2. BatchRoom'
    BY <1>19, BatchKept DEF LastJoined, CoordinatorGoto
  <2>3. QED
    BY <2>1, <2>2
<1>20. CASE Cleanup
  BY <1>20, ProcessEnds, BatchKept DEF Cleanup, ExitGroup, Control, BatchRoom
<1>21. QED
  BY <1>2, <1>3, <1>4, <1>5, <1>6, <1>7, <1>8, <1>9, <1>10, <1>11, <1>12, <1>13, <1>14,
     <1>15, <1>16, <1>17, <1>18, <1>19, <1>20 DEF CoordinatorStep

-----------------------------------------------------------------------------
\* Every step of a worker keeps the invariant.
LEMMA WorkerHandoff == ASSUME NEW k \in Lanes PROVE Handoff /\ WorkerStep(k) => Handoff'
<1> SUFFICES ASSUME Handoff, WorkerStep(k) PROVE Handoff'
  OBVIOUS
<1>1. LaneCount \in Nat \ {0} /\ LastLane(wave) \in 1..LaneCount /\ k \in Lanes
  BY WaveShape DEF Handoff, Protocol, Control
<1>0. wpc[k] # "off" => cpc # "dead" /\ Fits(wpc[k], state[k])
  BY DEF Handoff, Protocol, Coordination, LaneProtocol
<1> USE DEF Handoff, Protocol, host, coord, lane, worker
<1>2. CASE WorkerStart(k)
  <2>1. PICK where \in {"next", "terminal", "error"} :
          /\ wpc' = [wpc EXCEPT ![k] = where]
          /\ Fits(where, state[k])
          /\ where = "asleep" => state[k] = "READY"
    BY <1>0, <1>2 DEF WorkerStart, Fail, Control, Fits, Parked, Producing, Leaving,
       WorkerPcs
  <2>2. wpc[k] \notin {"off", "ready_wake", "end_wake"} /\ where \in WorkerPcs \ {"off"}
    BY <1>2, <2>1 DEF WorkerStart, Fail, WorkerPcs
  <2>3. UNCHANGED <<cpc, wave, cl, protocol, header, state, tid>>
    BY <1>2 DEF WorkerStart, Fail
  <2>4. Protocol'
    BY <2>1, <2>2, <2>3, WorkerMove
  <2>5. BatchRoom'
    BY <1>1, <1>2 DEF WorkerStart, Fail, Control, BatchRoom, ResultBatch
  <2>6. QED
    BY <2>4, <2>5
<1>3. CASE NextCancelled(k)
  <2>1. PICK where \in {"exit"} :
          /\ wpc' = [wpc EXCEPT ![k] = where]
          /\ Fits(where, state[k])
          /\ where = "asleep" => state[k] = "READY"
    BY <1>0, <1>3 DEF NextCancelled, WorkerGoto, Control, Fits, Parked, Producing, Leaving,
       WorkerPcs
  <2>2. wpc[k] \notin {"off", "ready_wake", "end_wake"} /\ where \in WorkerPcs \ {"off"}
    BY <1>3, <2>1 DEF NextCancelled, WorkerGoto, WorkerPcs
  <2>3. UNCHANGED <<cpc, wave, cl, protocol, header, state, tid>>
    BY <1>3 DEF NextCancelled, WorkerGoto
  <2>4. Protocol'
    BY <2>1, <2>2, <2>3, WorkerMove
  <2>5. BatchRoom'
    BY <1>3, <2>1, BatchKept DEF NextCancelled, WorkerGoto, Control
  <2>6. QED
    BY <2>4, <2>5
<1>4. CASE NextRecord(k)
  <2>1. PICK where \in {"serialize"} :
          /\ wpc' = [wpc EXCEPT ![k] = where]
          /\ Fits(where, state[k])
          /\ where = "asleep" => state[k] = "READY"
    BY <1>0, <1>4 DEF NextRecord, Continues, WorkerGoto, Control, Fits, Parked, Producing,
       Leaving, WorkerPcs
  <2>2. wpc[k] \notin {"off", "ready_wake", "end_wake"} /\ where \in WorkerPcs \ {"off"}
    BY <1>4, <2>1 DEF NextRecord, Continues, WorkerGoto, WorkerPcs
  <2>3. UNCHANGED <<cpc, wave, cl, protocol, header, state, tid>>
    BY <1>4 DEF NextRecord, Continues, WorkerGoto
  <2>4. Protocol'
    BY <2>1, <2>2, <2>3, WorkerMove
  <2>5. BatchRoom'
    BY <1>4, <2>1, BatchKept DEF NextRecord, Continues, WorkerGoto, Control
  <2>6. QED
    BY <2>4, <2>5
<1>5. CASE NextDone(k)
  <2>1. PICK where \in {"terminal", "done"} :
          /\ wpc' = [wpc EXCEPT ![k] = where]
          /\ Fits(where, state[k])
          /\ where = "asleep" => state[k] = "READY"
    BY <1>0, <1>5 DEF NextDone, Continues, Control, Fits, Parked, Producing, Leaving,
       WorkerPcs
  <2>2. wpc[k] \notin {"off", "ready_wake", "end_wake"} /\ where \in WorkerPcs \ {"off"}
    BY <1>5, <2>1 DEF NextDone, Continues, WorkerPcs
  <2>3. UNCHANGED <<cpc, wave, cl, protocol, header, state, tid>>
    BY <1>5 DEF NextDone, Continues
  <2>4. Protocol'
    BY <2>1, <2>2, <2>3, WorkerMove
  <2>5. BatchRoom'
    BY <1>5, <2>1, BatchKept DEF NextDone, Continues, Control
  <2>6. QED
    BY <2>4, <2>5
<1>6. CASE NextInvalid(k)
  <2>1. PICK where \in {"terminal", "error"} :
          /\ wpc' = [wpc EXCEPT ![k] = where]
          /\ Fits(where, state[k])
          /\ where = "asleep" => state[k] = "READY"
    BY <1>0, <1>6 DEF NextInvalid, Continues, Fail, Control, Fits, Parked, Producing,
       Leaving, WorkerPcs
  <2>2. wpc[k] \notin {"off", "ready_wake", "end_wake"} /\ where \in WorkerPcs \ {"off"}
    BY <1>6, <2>1 DEF NextInvalid, Continues, Fail, WorkerPcs
  <2>3. UNCHANGED <<cpc, wave, cl, protocol, header, state, tid>>
    BY <1>6 DEF NextInvalid, Continues, Fail
  <2>4. Protocol'
    BY <2>1, <2>2, <2>3, WorkerMove
  <2>5. BatchRoom'
    BY <1>6, <2>1, BatchKept DEF NextInvalid, Continues, Fail, Control
  <2>6. QED
    BY <2>4, <2>5
<1>7. CASE Serialize(k)
  <2>1. PICK where \in {"next", "publish"} :
          /\ wpc' = [wpc EXCEPT ![k] = where]
          /\ Fits(where, state[k])
          /\ where = "asleep" => state[k] = "READY"
    BY <1>0, <1>7 DEF Serialize, Control, Fits, Parked, Producing, Leaving, WorkerPcs
  <2>2. wpc[k] \notin {"off", "ready_wake", "end_wake"} /\ where \in WorkerPcs \ {"off"}
    BY <1>7, <2>1 DEF Serialize, WorkerPcs
  <2>3. UNCHANGED <<cpc, wave, cl, protocol, header, state, tid>>
    BY <1>7 DEF Serialize
  <2>4. Protocol'
    BY <2>1, <2>2, <2>3, WorkerMove
  <2>5. BatchRoom'
    BY <1>1, <1>7 DEF Serialize, Control, BatchRoom, ResultBatch
  <2>6. QED
    BY <2>4, <2>5
<1>8. CASE PublishReady(k)
  <2>1. Fits("ready_wake", "READY") /\ wpc[k] \in Producing
    BY <1>8 DEF PublishReady, Fits, Parked, Producing, Leaving
  <2>2. PublishOnce(k, "READY", "ready_wake") /\ UNCHANGED <<cpc, wave, cl, protocol, header, tid>>
    BY <1>8 DEF PublishReady
  <2>3. Protocol'
    BY <2>1, <2>2, WorkerPublishes
  <2>4. BatchRoom'
    BY <1>8, BatchKept DEF PublishReady, PublishOnce, Control
  <2>5. QED
    BY <2>3, <2>4
<1>9. CASE ReadyWake(k)
  <2>1. Protocol'
    BY <1>9, WorkerWakes DEF ReadyWake
  <2>2. BatchRoom'
    BY <1>9, BatchKept DEF ReadyWake, Control
  <2>3. QED
    BY <2>1, <2>2
<1>10. CASE AwaitCancelled(k)
  <2>1. PICK where \in {"exit"} :
          /\ wpc' = [wpc EXCEPT ![k] = where]
          /\ Fits(where, state[k])
          /\ where = "asleep" => state[k] = "READY"
    BY <1>0, <1>10 DEF AwaitCancelled, WorkerGoto, Control, Fits, Parked, Producing,
       Leaving, WorkerPcs
  <2>2. wpc[k] \notin {"off", "ready_wake", "end_wake"} /\ where \in WorkerPcs \ {"off"}
    BY <1>10, <2>1 DEF AwaitCancelled, WorkerGoto, WorkerPcs
  <2>3. UNCHANGED <<cpc, wave, cl, protocol, header, state, tid>>
    BY <1>10 DEF AwaitCancelled, WorkerGoto
  <2>4. Protocol'
    BY <2>1, <2>2, <2>3, WorkerMove
  <2>5. BatchRoom'
    BY <1>10, <2>1, BatchKept DEF AwaitCancelled, WorkerGoto, Control
  <2>6. QED
    BY <2>4, <2>5
<1>11. CASE AwaitConsumed(k)
  <2>1. PICK where \in {"next", "done"} :
          /\ wpc' = [wpc EXCEPT ![k] = where]
          /\ Fits(where, state[k])
          /\ where = "asleep" => state[k] = "READY"
    BY <1>0, <1>11 DEF AwaitConsumed, Control, Fits, Parked, Producing, Leaving, WorkerPcs
  <2>2. wpc[k] \notin {"off", "ready_wake", "end_wake"} /\ where \in WorkerPcs \ {"off"}
    BY <1>11, <2>1 DEF AwaitConsumed, WorkerPcs
  <2>3. UNCHANGED <<cpc, wave, cl, protocol, header, state, tid>>
    BY <1>11 DEF AwaitConsumed
  <2>4. Protocol'
    BY <2>1, <2>2, <2>3, WorkerMove
  <2>5. BatchRoom'
    <3>1. CASE resume[k] = "next"
      <4>1. /\ wpc' = [wpc EXCEPT ![k] = "next"]
            /\ buf' = [buf EXCEPT ![k] = IF ResultBatch > 1 THEN << >> ELSE @]
            /\ UNCHANGED <<input, rec>>
        BY <1>11, <3>1 DEF AwaitConsumed
      <4>2. QED
        BY <1>1, <4>1 DEF BatchRoom, Control, ResultBatch
    <3>2. CASE resume[k] # "next"
      BY <1>11, <3>2, BatchKept DEF AwaitConsumed, Control
    <3>3. QED
      BY <3>1, <3>2
  <2>6. QED
    BY <2>4, <2>5
<1>12. CASE AwaitPending(k)
  <2>1. state[k] = "READY"
    BY <1>0, <1>12 DEF AwaitPending, Fits, Parked
  <2>2. wpc' = [wpc EXCEPT ![k] = "block"] /\ UNCHANGED <<cpc, wave, cl, protocol, header, state, tid>>
    BY <1>12, <2>1 DEF AwaitPending
  <2>3. Fits("block", state[k]) /\ "block" \in WorkerPcs \ {"off"}
    BY <2>1 DEF Fits, Parked, Producing, Leaving, WorkerPcs
  <2>4. Protocol'
    BY <1>12, <2>2, <2>3, WorkerMove DEF AwaitPending
  <2>5. BatchRoom'
    BY <1>12, <2>2, BatchKept DEF AwaitPending, Control
  <2>6. QED
    BY <2>4, <2>5
<1>13. CASE WorkerBlock(k)
  <2>1. PICK where \in {"asleep", "await"} :
          /\ wpc' = [wpc EXCEPT ![k] = where]
          /\ Fits(where, state[k])
          /\ where = "asleep" => state[k] = "READY"
    BY <1>0, <1>13 DEF WorkerBlock, WorkerGoto, Control, Fits, Parked, Producing, Leaving,
       WorkerPcs
  <2>2. wpc[k] \notin {"off", "ready_wake", "end_wake"} /\ where \in WorkerPcs \ {"off"}
    BY <1>13, <2>1 DEF WorkerBlock, WorkerGoto, WorkerPcs
  <2>3. UNCHANGED <<cpc, wave, cl, protocol, header, state, tid>>
    BY <1>13 DEF WorkerBlock, WorkerGoto
  <2>4. Protocol'
    BY <2>1, <2>2, <2>3, WorkerMove
  <2>5. BatchRoom'
    BY <1>13, <2>1, BatchKept DEF WorkerBlock, WorkerGoto, Control
  <2>6. QED
    BY <2>4, <2>5
<1>14. CASE Terminal(k)
  <2>1. PICK where \in {"done", "publish"} :
          /\ wpc' = [wpc EXCEPT ![k] = where]
          /\ Fits(where, state[k])
          /\ where = "asleep" => state[k] = "READY"
    BY <1>0, <1>14 DEF Terminal, Control, Fits, Parked, Producing, Leaving, WorkerPcs
  <2>2. wpc[k] \notin {"off", "ready_wake", "end_wake"} /\ where \in WorkerPcs \ {"off"}
    BY <1>14, <2>1 DEF Terminal, WorkerPcs
  <2>3. UNCHANGED <<cpc, wave, cl, protocol, header, state, tid>>
    BY <1>14 DEF Terminal
  <2>4. Protocol'
    BY <2>1, <2>2, <2>3, WorkerMove
  <2>5. BatchRoom'
    BY <1>14, <2>1, BatchKept DEF Terminal, Control
  <2>6. QED
    BY <2>4, <2>5
<1>15. CASE PublishEnd(k)
  <2>1. wpc[k] \in Producing /\ Fits("end_wake", "DONE") /\ Fits("end_wake", "ERROR")
    BY <1>15 DEF PublishEnd, Fits, Parked, Producing, Leaving
  <2>2. UNCHANGED <<cpc, wave, cl, protocol, header, tid>>
    BY <1>15 DEF PublishEnd
  <2>3. PublishOnce(k, "DONE", "end_wake") \/ PublishOnce(k, "ERROR", "end_wake")
    BY <1>15 DEF PublishEnd
  <2>4. Protocol'
    BY <2>1, <2>2, <2>3, WorkerPublishes
  <2>5. BatchRoom'
    BY <1>15, BatchKept DEF PublishEnd, PublishOnce, Control
  <2>6. QED
    BY <2>4, <2>5
<1>16. CASE EndWake(k)
  <2>1. Protocol'
    BY <1>16, WorkerWakes DEF EndWake
  <2>2. BatchRoom'
    BY <1>16, BatchKept DEF EndWake, Control
  <2>3. QED
    BY <2>1, <2>2
<1>17. CASE ThreadExit(k)
  <2>1. Control'
    BY <1>17 DEF ThreadExit, Control, CoordinatorPcs, WorkerPcs
  <2>2. LaneProtocol'
    BY <1>0, <1>17 DEF ThreadExit, Control, LaneProtocol, Fits, Parked, Producing, Leaving
  <2>3. Coordination'
    BY <1>17 DEF ThreadExit, Control, Coordination
  <2>4. LiveThreads'
    BY <1>17 DEF ThreadExit, Control, LiveThreads, Threads
  <2>5. Cancellation'
    BY <1>17 DEF ThreadExit, Cancellation
  <2>6. BatchRoom'
    BY <1>17, BatchKept DEF ThreadExit, Control
  <2>7. QED
    BY <2>1, <2>2, <2>3, <2>4, <2>5, <2>6
<1>18. QED
  BY <1>2, <1>3, <1>4, <1>5, <1>6, <1>7, <1>8, <1>9, <1>10, <1>11, <1>12, <1>13, <1>14,
     <1>15, <1>16, <1>17 DEF WorkerStep

-----------------------------------------------------------------------------
\* What the host may do keeps the invariant.
LEMMA HostHandoff == Handoff /\ HostStep => Handoff'
<1> SUFFICES ASSUME Handoff, HostStep PROVE Handoff'
  OBVIOUS
<1>1. LaneCount \in Nat \ {0} /\ LastLane(wave) \in 1..LaneCount
  BY WaveShape DEF Handoff, Protocol, Control
<1> USE DEF Handoff, Protocol, host, coord, lane, worker
<1>2. CASE MapFails
  <2>1. CASE ExitGroup("failed") /\ UNCHANGED header
    BY <1>2, <2>1, ProcessEnds, BatchKept DEF MapFails, ExitGroup, Control
  <2>2. CASE header' = 1 /\ cpc' = "cleanup" /\ UNCHANGED <<status, wpc>>
    <3>1. Protocol'
      BY <1>1, <1>2, <2>2 DEF MapFails, Control, LaneProtocol, Fits, Coordination,
         LiveThreads, Threads, Cancellation, Lanes, WaveLanes, Parked, Producing, Leaving,
         CoordinatorPcs, WorkerPcs, States
    <3>2. BatchRoom'
      BY <1>2, <2>2, BatchKept DEF MapFails
    <3>3. QED
      BY <3>1, <3>2
  <2>3. QED
    BY <1>2, <2>1, <2>2 DEF MapFails
<1>3. CASE CloneFails
  <2>1. Protocol'
    BY <1>1, <1>3 DEF CloneFails, BeginCancel, Control, LaneProtocol, Fits, Coordination,
       LiveThreads, Threads, Cancellation, Lanes, WaveLanes, Parked, Producing, Leaving,
       CoordinatorPcs, WorkerPcs, States
  <2>2. BatchRoom'
    BY <1>3, BatchKept DEF CloneFails, BeginCancel
  <2>3. QED
    BY <2>1, <2>2
<1>4. CASE WriteFails
  <2>1. Protocol'
    BY <1>1, <1>4 DEF WriteFails, BeginCancel, Control, LaneProtocol, Fits, Coordination,
       LiveThreads, Threads, Cancellation, Lanes, WaveLanes, Parked, Producing, Leaving,
       CoordinatorPcs, WorkerPcs, States
  <2>2. BatchRoom'
    BY <1>4, BatchKept DEF WriteFails, BeginCancel
  <2>3. QED
    BY <2>1, <2>2
<1>5. CASE SyncFails
  BY <1>5, ProcessEnds, BatchKept DEF SyncFails, ExitGroup, Control
<1>6. CASE Interrupted
  <2>1. Protocol'
    BY <1>1, <1>6 DEF Interrupted, CoordinatorGoto, Control, LaneProtocol, Fits,
       Coordination, LiveThreads, Threads, Cancellation, Lanes, WaveLanes, Parked,
       Producing, Leaving, CoordinatorPcs, WorkerPcs, States
  <2>2. BatchRoom'
    BY <1>6, BatchKept DEF Interrupted, CoordinatorGoto
  <2>3. QED
    BY <2>1, <2>2
<1>7. CASE JoinInterrupted
  <2>1. Protocol'
    BY <1>1, <1>7 DEF JoinInterrupted, CoordinatorGoto, Control, LaneProtocol, Fits,
       Coordination, LiveThreads, Threads, Cancellation, Lanes, WaveLanes, Parked,
       Producing, Leaving, CoordinatorPcs, WorkerPcs, States
  <2>2. BatchRoom'
    BY <1>7, BatchKept DEF JoinInterrupted, CoordinatorGoto
  <2>3. QED
    BY <2>1, <2>2
<1>8. ASSUME NEW k \in Lanes, WorkerInterrupted(k) PROVE Handoff'
  <2>1. Fits("await", state[k]) /\ "await" \in WorkerPcs \ {"off"}
    BY <1>8 DEF WorkerInterrupted, Coordination, LaneProtocol, Fits, Parked, Producing, Leaving, WorkerPcs
  <2>2. Protocol'
    BY <1>8, <2>1, WorkerMove DEF WorkerInterrupted, WorkerGoto
  <2>3. BatchRoom'
    BY <1>8, BatchKept DEF WorkerInterrupted, WorkerGoto, Control
  <2>4. QED
    BY <2>2, <2>3
<1>9. QED
  BY <1>2, <1>3, <1>4, <1>5, <1>6, <1>7, <1>8 DEF HostStep

\* Every step keeps the invariant.
LEMMA NextHandoff == Handoff /\ [Next]_vars => Handoff'
<1> SUFFICES ASSUME Handoff, [Next]_vars PROVE Handoff'
  OBVIOUS
<1>1. CASE UNCHANGED vars
  BY <1>1 DEF vars, host, coord, lane, worker, Handoff, Protocol, Control, LaneProtocol,
              Coordination, LiveThreads, Threads, Cancellation, BatchRoom, ResultBatch
<1>2. QED
  BY <1>1, CoordinatorHandoff, WorkerHandoff, HostHandoff DEF Next, Ended

\* The hand-off invariant holds throughout every execution.
THEOREM HandoffInvariant == Spec => []Handoff
BY InitHandoff, NextHandoff, PTL DEF Spec

-----------------------------------------------------------------------------
\* The result buffer is never written by a worker while the coordinator reads it,
\* for every number of phases, lanes, records and results per batch.
THEOREM BuffersExclusive == Spec => []BufferExclusive
<1>1. Handoff => BufferExclusive
  <2> SUFFICES ASSUME Handoff, cpc = "write" PROVE BufferExclusive
    BY DEF BufferExclusive
  <2>1. cl \in Lanes
    BY WaveShape DEF Handoff, Protocol, Control, Lanes
  <2>2. QED
    BY <2>1 DEF Handoff, Protocol, Control, Coordination, LaneProtocol, Fits, BufferExclusive,
                Parked, Producing, Leaving, WorkerPcs
<1>2. QED
  BY <1>1, HandoffInvariant, PTL

\* No thread sleeps on a futex word whose change nobody is about to announce.
THEOREM WakeupsKept == Spec => []NoLostWakeup
<1>1. Handoff => NoLostWakeup
  BY DEF Handoff, Protocol, Coordination, NoLostWakeup
<1>2. QED
  BY <1>1, HandoffInvariant, PTL

\* A lane is reset, reused or unmapped only when its previous thread has left.
THEOREM LanesJoined == Spec => []JoinBeforeReuse
<1>1. Handoff => JoinBeforeReuse
  <2> SUFFICES ASSUME Handoff PROVE JoinBeforeReuse
    OBVIOUS
  <2>1. cl \in Lanes /\ LaneCount \in Nat
    BY WaveShape DEF Handoff, Protocol, Control, Lanes
  <2>2. QED
    BY <2>1 DEF Handoff, Protocol, Control, Coordination, LiveThreads, Threads,
                JoinBeforeReuse, Lanes
<1>2. QED
  BY <1>1, HandoffInvariant, PTL

\* The branches of the emitted code that only a broken hand-off takes are dead.
THEOREM HandoffNeverBroken == Spec => []ProtocolKept
<1>1. Handoff => ProtocolKept
  BY DEF Handoff, Protocol, Control, ProtocolKept
<1>2. QED
  BY <1>1, HandoffInvariant, PTL

\* No step of any thread takes a cancelled lane out of CANCEL.
LEMMA CancelKept ==
    ASSUME Handoff, [Next]_vars, NEW l \in Lanes, state[l] = "CANCEL"
    PROVE  state'[l] = "CANCEL"
<1>1. LaneCount \in Nat \ {0} /\ LastLane(wave) \in 1..LaneCount /\ header = 1
  BY WaveShape DEF Handoff, Protocol, Control, Cancellation
<1>2. CASE CoordinatorStep
  <2>1. CASE Reset
    BY <1>1, <2>1 DEF Reset, Handoff, Protocol, Cancellation
  <2>2. CASE Consume
    BY <1>1, <2>2 DEF Consume, Handoff, Protocol, Cancellation
  <2>3. CASE Cancel
    BY <2>3 DEF Cancel, Handoff, Protocol, Control
  <2>4. QED
    BY <1>2, <2>1, <2>2, <2>3
       DEF CoordinatorStep, Map, Clone, ReceiveReady, ReceiveDone, ReceiveFailure, ReceiveEmpty,
           Block, Write, Wake, CancelWake, JoinDone, JoinWait, JoinBlock, NextWave, LastJoined,
           Cleanup, CoordinatorGoto, BeginCancel, ExitGroup, lane
<1>3. ASSUME NEW k \in Lanes, WorkerStep(k) PROVE state'[l] = "CANCEL"
  <2>1. CASE PublishReady(k) \/ PublishEnd(k)
    BY <2>1 DEF PublishReady, PublishEnd, PublishOnce, Handoff, Protocol, Control
  <2>2. QED
    BY <1>3, <2>1
       DEF WorkerStep, WorkerStart, NextCancelled, NextRecord, NextDone, NextInvalid, Serialize,
           ReadyWake, AwaitCancelled, AwaitConsumed, AwaitPending, WorkerBlock, Terminal, EndWake,
           ThreadExit, WorkerGoto, lane
<1>4. CASE HostStep
  BY <1>4 DEF HostStep, MapFails, CloneFails, WriteFails, SyncFails, Interrupted, JoinInterrupted,
              WorkerInterrupted, CoordinatorGoto, WorkerGoto, BeginCancel, lane
<1>5. CASE UNCHANGED vars
  BY <1>5 DEF vars, lane
<1>6. QED
  BY <1>2, <1>3, <1>4, <1>5 DEF Next, Ended

\* Cancellation wins every race: a lane that is cancelled stays cancelled.
THEOREM CancellationFinal == Spec => CancelIsFinal
<1>1. Handoff /\ [Next]_vars => [\A l \in Lanes : state[l] = "CANCEL" => state'[l] = "CANCEL"]_vars
  BY CancelKept
<1>2. QED
  BY <1>1, HandoffInvariant, PTL DEF Spec, CancelIsFinal

-----------------------------------------------------------------------------
(* The reference output in numbers. *)

Phases == 1..NumPhases

\* A number is taken apart by \div and % the way it was put together.
LEMMA Quotient ==
    ASSUME NEW d \in Nat \ {0}, NEW q \in Nat, NEW x \in Nat, x < d
    PROVE  (q * d + x) \div d = q /\ (q * d + x) % d = x
<1> DEFINE m == q * d + x
           e == m \div d
<1>1. m \in Nat /\ q * d \in Nat
  OBVIOUS
<1>2. e \in Int /\ m % d \in Int /\ m = (e * d) + (m % d) /\ 0 <= m % d /\ m % d < d
  BY <1>1
<1>3. \A a, b \in Int : a < b => a * d + d <= b * d
  OBVIOUS
<1>4. e * d \in Int /\ q * d \in Int
  BY <1>2
<1>5. ~(e < q) /\ ~(q < e)
  BY <1>1, <1>2, <1>3, <1>4
<1>6. e = q
  BY <1>2, <1>5
<1>7. m % d = x
  BY <1>1, <1>2, <1>4, <1>6
<1>8. QED
  BY <1>6, <1>7

\* The same twice over: v, w and p are the digits of k in base U, then n.
Splits(n, U, p, w, v) ==
    \A N, k : N = n * U /\ k = (p * N) + ((w * U) + v) =>
        /\ k \in Nat /\ (w * U) + v < N
        /\ k \div N = p /\ (k % N) \div U = w /\ k % U = v

LEMMA Digits ==
    ASSUME NEW n \in Nat \ {0}, NEW U \in Nat \ {0}, NEW p \in Nat, NEW w \in Nat, NEW v \in Nat,
           w < n, v < U
    PROVE  Splits(n, U, p, w, v)
<1> SUFFICES ASSUME NEW N, N = n * U, NEW k, k = (p * N) + ((w * U) + v)
             PROVE  /\ k \in Nat /\ (w * U) + v < N
                    /\ k \div N = p /\ (k % N) \div U = w /\ k % U = v
  BY DEF Splits
<1>1. PICK a \in Nat : a = w * U
  OBVIOUS
<1>2. N \in Nat \ {0} /\ a + U <= N
  <2>1. \A b, c \in Nat : b <= c => b * U <= c * U
    OBVIOUS
  <2>2. (w + 1) * U <= n * U
    BY <2>1
  <2>3. (w + 1) * U = a + U /\ n * U \in Nat \ {0}
    BY <1>1
  <2>4. QED
    BY <2>2, <2>3
<1>3. PICK x \in Nat : x = a + v /\ x < N
  BY <1>2
<1>4. PICK c \in Nat : c = p * N
  BY <1>2
<1>5. k = c + x
  BY <1>1, <1>3, <1>4
<1>6. k \div N = p /\ k % N = x
  <2>1. (p * N + x) \div N = p /\ (p * N + x) % N = x
    BY <1>2, <1>3, Quotient
  <2>2. k = p * N + x
    BY <1>4, <1>5
  <2>3. QED
    BY <2>1, <2>2
<1>7. x \div U = w
  <2>1. (w * U + v) \div U = w
    BY Quotient
  <2>2. QED
    BY <1>1, <1>3, <2>1
<1>8. k % U = v
  <2>1. PICK d \in Nat : d = p * n
    OBVIOUS
  <2>2. c = d * U
    BY <1>4, <2>1
  <2>3. d * U + w * U = (d + w) * U
    BY <2>1
  <2>4. PICK b \in Nat : b = d + w
    BY <2>1
  <2>5. (b * U + v) % U = v
    BY <2>4, Quotient
  <2>6. b * U = c + a
    BY <1>1, <2>2, <2>3, <2>4
  <2>7. b * U + v = k
    BY <1>1, <1>3, <1>4, <1>5, <2>6
  <2>8. QED
    BY <2>5, <2>7
<1>9. k \in Nat /\ (w * U) + v < N
  BY <1>1, <1>3, <1>4, <1>5
<1>10. QED
  BY <1>6, <1>7, <1>8, <1>9

\* A set of numbers has a least one.
LEMMA Least ==
    ASSUME NEW S \in SUBSET Nat, S # {}
    PROVE  \E m \in S : \A k \in S : m <= k
<1>1. PICK m \in S : \A k \in S : <<k, m>> \notin OpToRel(<, Nat)
  BY WFMin, NatLessThanWellFounded
<1>2. ASSUME NEW k \in S PROVE m <= k
  <2>1. ~(k < m)
    BY <1>1, <1>2 DEF OpToRel
  <2>2. QED
    BY <2>1
<1>3. QED
  BY <1>2

\* What an input says of a phase.
LEMMA InputShape ==
    ASSUME NEW i \in Published!Inputs
    PROVE  /\ i.n \in Nat /\ i.n <= MaxRecords
           /\ \A p \in Phases : i.error[p] \in Nat /\ 1 <= i.error[p] /\ i.error[p] <= i.n + 1
           /\ \A f \in i.falsy : /\ f = <<f[1], f[2]>> /\ f[1] \in Phases
                                 /\ f[2] \in Nat /\ 1 <= f[2] /\ f[2] < i.error[f[1]]
<1>1. PICK n \in 0..MaxRecords :
        /\ i \in [n : {n}, error : [Phases -> 1..(n + 1)], falsy : SUBSET (Phases \X (1..n))]
        /\ \A f \in i.falsy : f[2] < i.error[f[1]]
  BY DEF Published!Inputs, Published!Phases, Phases
<1>2. i.n = n /\ i.error \in [Phases -> 1..(n + 1)] /\ i.falsy \subseteq Phases \X (1..n)
  BY <1>1
<1>3. QED
  BY <1>1, <1>2, ConcurrentAssumption

\* The first phase that fails is where the reference ends.
LEMMA FirstFailure ==
    ASSUME NEW i, NEW p \in Phases, Published!Fails(i, p),
           \A q \in Phases : q < p => ~Published!Fails(i, q)
    PROVE  Published!LastPhase(i) = p
<1>1. \A q \in Phases : q \in Nat /\ 1..(q - 1) \subseteq Phases
  BY ConcurrentAssumption DEF Phases
<1> DEFINE Is(q) == Published!Fails(i, q) /\ \A r \in 1..(q - 1) : ~Published!Fails(i, r)
<1>2. Is(p)
  <2>1. \A r \in 1..(p - 1) : r \in Phases /\ r < p
    BY <1>1 DEF Phases
  <2>2. QED
    BY <2>1
<1>3. \A q \in Phases : Is(q) => q = p
  <2> SUFFICES ASSUME NEW q \in Phases, Is(q) PROVE q = p
    OBVIOUS
  <2>1. ~(q < p)
    OBVIOUS
  <2>2. ~(p < q)
    <3>1. p < q => p \in 1..(q - 1)
      BY <1>1 DEF Phases
    <3>2. QED
      BY <3>1
  <2>3. QED
    BY <1>1, <2>1, <2>2
<1>4. Published!LastPhase(i) = CHOOSE q \in Phases : Is(q)
  BY DEF Published!LastPhase, Published!Phases, Phases
<1>5. QED
  BY <1>2, <1>3, <1>4

\* No phase before it fails, and it is not beyond the last one.
LEMMA LastPhaseReached ==
    ASSUME NEW i, NEW p \in Phases, \A q \in Phases : q < p => ~Published!Fails(i, q)
    PROVE  /\ Published!LastPhase(i) \in Phases /\ p <= Published!LastPhase(i)
           /\ p < Published!LastPhase(i) => ~Published!Fails(i, p)
           /\ (\A q \in Phases : ~Published!Fails(i, q)) => Published!LastPhase(i) = NumPhases
<1> DEFINE F == {q \in Phases : Published!Fails(i, q)}
<1>1. F \subseteq Nat /\ NumPhases \in Phases /\ \A q \in Phases : q \in Nat /\ q <= NumPhases
  BY ConcurrentAssumption DEF Phases
<1>2. CASE F = {}
  <2>1. Published!LastPhase(i) = NumPhases
    BY <1>2 DEF Published!LastPhase, Published!Phases, Phases
  <2>2. QED
    BY <1>1, <1>2, <2>1
<1>3. CASE F # {}
  <2>1. PICK m \in F : \A k \in F : m <= k
    BY <1>1, <1>3, Least
  <2>2. m \in Phases /\ Published!Fails(i, m) /\ \A q \in Phases : q < m => ~Published!Fails(i, q)
    BY <1>1, <2>1
  <2>3. Published!LastPhase(i) = m
    BY <2>2, FirstFailure
  <2>4. ~(m < p) /\ p \in Nat /\ m \in Nat
    BY <1>1, <2>2
  <2>5. QED
    BY <2>2, <2>3, <2>4
<1>4. QED
  BY <1>2, <1>3

\* The reference is a sequence.
LEMMA ReferenceShape ==
    ASSUME NEW i \in Published!Inputs
    PROVE  /\ Published!ReferenceLength(i) \in Nat
           /\ Len(Published!Reference(i)) = Published!ReferenceLength(i)
           /\ Published!Reference(i) =
                 [k \in 1..Published!ReferenceLength(i) |-> Published!Reference(i)[k]]
<1>1. Published!LastPhase(i) \in Phases
  <2>1. 1 \in Phases /\ \A q \in Phases : ~(q < 1)
    BY ConcurrentAssumption DEF Phases
  <2>2. QED
    BY <2>1, LastPhaseReached
<1>2. /\ Published!LastPhase(i) - 1 \in Nat /\ i.error[Published!LastPhase(i)] - 1 \in Nat
      /\ i.n \in Nat /\ Units \in Nat
  BY <1>1, InputShape, ConcurrentAssumption DEF Phases
<1>3. Published!ReferenceLength(i) \in Nat
  <2>1. Published!PhaseUnits(i) \in Nat
    BY <1>2 DEF Published!PhaseUnits
  <2>2. (Published!LastPhase(i) - 1) * Published!PhaseUnits(i) \in Nat
        /\ (i.error[Published!LastPhase(i)] - 1) * Units \in Nat
    BY <1>2, <2>1
  <2>3. QED
    BY <2>2 DEF Published!ReferenceLength
<1>4. QED
  BY <1>3 DEF Published!Reference

\* Where the units of phase p stand in the reference, r records of it being out.
Index(i, p, r) == ((p - 1) * Published!PhaseUnits(i)) + (r * Units)

\* Unit u of record r of phase p, when no phase before p fails.
LEMMA ReferenceUnit ==
    ASSUME NEW i \in Published!Inputs, NEW p \in Phases,
           \A q \in Phases : q < p => ~Published!Fails(i, q),
           NEW r \in 1..i.n, r < i.error[p], NEW u \in 1..Units
    PROVE  /\ Index(i, p, r - 1) + u \in 1..Len(Published!Reference(i))
           /\ Published!Reference(i)[Index(i, p, r - 1) + u] = <<p, r, u>>
<1> DEFINE N == Published!PhaseUnits(i)
           k == Index(i, p, r - 1) + u
           L == Published!LastPhase(i)
<1>1. /\ Units \in Nat \ {0} /\ i.n \in Nat \ {0} /\ r \in Nat \ {0} /\ u \in Nat \ {0}
      /\ p \in Nat \ {0} /\ NumPhases \in Nat /\ p - 1 \in Nat /\ r - 1 \in Nat /\ u - 1 \in Nat
      /\ r <= i.n /\ u <= Units
  BY ConcurrentAssumption, InputShape DEF Phases
<1>2. /\ L \in Phases /\ p <= L /\ (p < L => ~Published!Fails(i, p))
  BY LastPhaseReached
<1>3. i.error[L] \in Nat /\ 1 <= i.error[L] /\ L \in Nat /\ L >= 1 /\ L - 1 \in Nat
      /\ i.error[p] \in Nat /\ i.error[L] - 1 \in Nat
  BY <1>2, InputShape, ConcurrentAssumption DEF Phases
<1>4. N = i.n * Units /\ N \in Nat /\ (r - 1) * Units \in Nat /\ (p - 1) * N \in Nat
  BY <1>1 DEF Published!PhaseUnits
<1>5. \A a, b, c \in Nat : a <= b => a * c <= b * c
  OBVIOUS
<1>6. (r - 1) * Units + Units = r * Units /\ r * Units <= i.n * Units
  BY <1>1, <1>5
<1>7. PICK v \in Nat, w \in Nat, c \in Nat :
        v = u - 1 /\ w = r - 1 /\ c = p - 1 /\ v < Units /\ w < i.n
  <2>1. u - 1 < Units /\ r - 1 < i.n
    BY <1>1
  <2>2. QED
    BY <1>1, <2>1
<1>8. k - 1 = (c * N) + ((w * Units) + v) /\ k \in Nat /\ k >= 1
  BY <1>1, <1>4, <1>7 DEF Index
<1>9. PICK j : j = k - 1
  OBVIOUS
<1>10. j \div N = c /\ (j % N) \div Units = w /\ j % Units = v
  <2> HIDE DEF N, k
  <2>1. j = (c * N) + ((w * Units) + v)
    BY <1>8, <1>9
  <2>2. N = i.n * Units
    BY <1>4
  <2>3. Units \in Nat \ {0} /\ i.n \in Nat \ {0}
    BY <1>1
  <2>4. w < i.n /\ v < Units
    BY <1>7
  <2>5. Splits(i.n, Units, c, w, v)
    BY <2>3, <2>4, Digits
  <2>6. QED
    BY <2>1, <2>2, <2>5 DEF Splits
<1>11. /\ ((k - 1) \div N) + 1 = p /\ (((k - 1) % N) \div Units) + 1 = r
       /\ ((k - 1) % Units) + 1 = u
  <2> HIDE DEF N, k
  <2>1. c + 1 = p /\ w + 1 = r /\ v + 1 = u
    BY <1>1, <1>7
  <2>2. QED
    BY <1>9, <1>10, <2>1
<1>12. k <= Published!ReferenceLength(i)
  <2>1. Published!ReferenceLength(i) = (L - 1) * N + (i.error[L] - 1) * Units
    BY DEF Published!ReferenceLength
  <2>2. (L - 1) * N \in Nat /\ (i.error[L] - 1) * Units \in Nat /\ k = (p - 1) * N + (r - 1) * Units + u
    BY <1>1, <1>3, <1>4 DEF Index
  <2>3. CASE p = L
    <3>1. r * Units <= (i.error[L] - 1) * Units
      BY <1>1, <1>3, <1>5, <2>3
    <3>2. QED
      BY <1>1, <1>4, <1>6, <2>1, <2>2, <2>3, <3>1
  <2>4. CASE p < L
    <3>1. p * N <= (L - 1) * N
      BY <1>1, <1>3, <1>4, <1>5, <2>4
    <3>2. p * N = (p - 1) * N + N
      BY <1>1, <1>4
    <3>3. QED
      BY <1>1, <1>4, <1>6, <2>1, <2>2, <3>1, <3>2
  <2>5. QED
    BY <1>1, <1>2, <1>3, <2>3, <2>4
<1>13. Published!ReferenceLength(i) \in Nat
  <2>1. (L - 1) * N \in Nat /\ (i.error[L] - 1) * Units \in Nat
    BY <1>1, <1>3, <1>4
  <2>2. QED
    BY <2>1 DEF Published!ReferenceLength
<1>14. k \in 1..Published!ReferenceLength(i)
  BY <1>8, <1>12, <1>13
<1>15. Published!Reference(i)[k] = <<((k - 1) \div N) + 1, (((k - 1) % N) \div Units) + 1,
                                    ((k - 1) % Units) + 1>>
  BY <1>14 DEF Published!Reference
<1>16. Len(Published!Reference(i)) = Published!ReferenceLength(i)
  BY <1>13 DEF Published!Reference
<1>17. QED
  BY <1>11, <1>14, <1>15, <1>16

\* Its length, for a first failing phase and for none.
LEMMA ReferenceEnd ==
    ASSUME NEW i \in Published!Inputs, NEW p \in Phases,
           \A q \in Phases : q < p => ~Published!Fails(i, q),
           Published!Fails(i, p) \/ p = NumPhases
    PROVE  Len(Published!Reference(i)) = Index(i, p, i.error[p] - 1)
<1>1. Published!LastPhase(i) = p
  BY FirstFailure, LastPhaseReached, ConcurrentAssumption DEF Phases
<1>2. /\ p - 1 \in Nat /\ i.error[p] - 1 \in Nat /\ Units \in Nat /\ i.n \in Nat
  BY InputShape, ConcurrentAssumption DEF Phases
<1>3. (p - 1) * Published!PhaseUnits(i) \in Nat /\ (i.error[p] - 1) * Units \in Nat
  BY <1>2 DEF Published!PhaseUnits
<1>4. Published!ReferenceLength(i) \in Nat
  BY <1>1, <1>3 DEF Published!ReferenceLength
<1>5. QED
  BY <1>1, <1>4 DEF Published!Reference, Published!ReferenceLength, Index

-----------------------------------------------------------------------------
(* What has been published, and what the lanes hold of the rest. *)

\* No phase before p fails, and everything before p is out.
Fine(i, p) == \A q \in Phases : q < p => ~Published!Fails(i, q)
Begun(i, o, p) == Fine(i, p) /\ Len(o) = Index(i, p, 0)

\* Standard output is the beginning of the reference.
Content ==
    /\ out \in Seq(Nat \X Nat \X Nat)
    /\ Len(out) <= Len(Published!Reference(Argv))
    /\ out = [k \in 1..Len(out) |-> Published!Reference(Argv)[k]]

\* The words only a worker reads.
Private ==
    /\ lstat \in [Lanes -> {0, 1}]
    /\ sticky \in [Lanes -> {0, 1}]
    /\ resume \in [Lanes -> {"next", "complete"}]

\* A batch that its worker has yet to publish, or the coordinator to consume.
Filled(l) ==
    \/ ResultBatch > 1 /\ wpc[l] \in {"next", "serialize", "terminal"}
    \/ wpc[l] = "publish"
    \/ state[l] = "READY"

\* The records of the phase that have been consumed.
Consumed(l) ==
    IF wpc[l] = "start" THEN 0
    ELSE IF Filled(l) THEN (rec[l] - 1) - Len(buf[l])
    ELSE rec[l] - 1

\* A worker that knows how its phase ends, and one that has found it to fail.
Ending(l) ==
    \/ wpc[l] \in {"terminal", "done"}
    \/ resume[l] = "complete" /\ wpc[l] \in Parked \cup {"publish"}
    \/ cpc # "reset" /\ state[l] = "DONE"
Erring(l) == wpc[l] = "error" \/ (cpc # "reset" /\ state[l] = "ERROR")

\* What the worker of lane l, running phase p, has found out.
Scanned(l, p) ==
    wpc[l] \notin {"off", "start"} =>
        /\ rec[l] >= 1 /\ rec[l] <= input.error[p]
        /\ sticky[l] = 0 => \A r \in 1..input.n : <<p, r>> \in input.falsy => r >= rec[l]
        /\ sticky[l] # 0 => \E r \in 1..input.n : <<p, r>> \in input.falsy
Working(l, p) ==
    /\ wpc[l] = "serialize" => rec[l] < input.error[p]
    /\ wpc[l] \in {"next", "serialize"} => resume[l] = "next"
    /\ wpc[l] \in {"next", "serialize", "publish"} \cup Parked => input.n > 0
    /\ wpc[l] = "terminal" => ResultBatch > 1
Batched(l, p) ==
    wpc[l] # "start" /\ Filled(l) =>
        /\ Len(buf[l]) <= rec[l] - 1 /\ rec[l] <= input.error[p]
        /\ \A k \in 1..Len(buf[l]) : buf[l][k] = ((rec[l] - 1) - Len(buf[l])) + k
Concluded(l, p) ==
    /\ Ending(l) =>
          /\ rec[l] = input.error[p]
          /\ lstat[l] = 0 <=> ~Published!Fails(Argv, p)
    /\ Erring(l) => rec[l] = input.error[p] /\ Published!Fails(Argv, p)
Findings(l, p) == Scanned(l, p) /\ Working(l, p) /\ Batched(l, p) /\ Concluded(l, p)

Found == \A l \in WaveLanes(wave) : Findings(l, Phase(wave, l))

Complete(i, o) ==
    /\ Len(o) = Len(Published!Reference(i))
    /\ \E p \in Phases : Published!Fails(i, p)

Receiving == {"receive", "block", "asleep", "write", "wake"}
Joining == {"join", "join_block", "join_asleep", "after"}

\* Lane l is the one being received: its units are next.
Due(l) ==
    /\ Fine(Argv, Phase(wave, l))
    /\ Len(out) = Index(Argv, Phase(wave, l), Consumed(l)) + (IF cpc = "write" THEN sent ELSE 0)

\* How far publication is at each place of the coordinator.
Pending ==
    /\ cpc = "dead" <=> status # "running"
    /\ cpc \in {"map", "reset", "clone"} => Begun(Argv, out, Phase(wave, 1))
    /\ cpc = "clone" => \A l \in Lanes : l < cl => Consumed(l) = 0
    /\ cpc \in Receiving => \A l \in WaveLanes(wave) : (l = cl => Due(l)) /\ (l > cl => Consumed(l) = 0)
    /\ cpc = "write" => sent \in Nat /\ \A l \in Lanes : l = cl => sent <= BatchUnits(l)
    /\ cpc \in Joining /\ header = 0 => Begun(Argv, out, Phase(wave, LastLane(wave)) + 1)
    /\ cpc = "cleanup" /\ header = 0 => Begun(Argv, out, NumPhases + 1)
    /\ cpc \in {"cancel", "cancel_wake"} \/ (cpc \in Joining \cup {"cleanup"} /\ header # 0) =>
          fault = "yes" \/ Complete(Argv, out)

\* Admission is whole before anything of a wave is out.
Admission ==
    /\ admitted \in Nat
    /\ cpc = "clone" => admitted = cl - 1
    /\ cpc \in Receiving => admitted >= LastLane(wave)
    /\ admitted < LastLane(wave) => Len(out) = Index(Argv, Phase(wave, 1), 0)

Ordered == (input \in NativeInputs) /\ Content /\ Private /\ Found /\ Pending /\ Admission

-----------------------------------------------------------------------------
\* The argument vector is one the reference is defined for.
LEMMA ArgvShape ==
    ASSUME input \in NativeInputs
    PROVE  /\ Argv \in Published!Inputs /\ ResultBatch \in Nat \ {0}
           /\ Argv.n = input.n /\ Argv.error = input.error /\ Argv.falsy = input.falsy
           /\ input.n \in Nat
           /\ \A p \in Phases : /\ input.error[p] \in Nat /\ 1 <= input.error[p]
                                /\ input.error[p] <= input.n + 1 /\ input.error[p] = FirstError
           /\ \A f \in input.falsy : f[1] \in Phases /\ f[2] \in 1..input.n /\ f = <<f[1], f[2]>>
<1>1. PICK i \in Published!Inputs, b \in Batches :
        /\ \A p, q \in 1..NumPhases : i.error[p] = i.error[q]
        /\ input = [n |-> i.n, error |-> i.error, falsy |-> i.falsy, batch |-> b]
  BY DEF NativeInputs
<1>2. i = [n |-> i.n, error |-> i.error, falsy |-> i.falsy]
  <2>1. PICK n \in 0..MaxRecords :
          i \in [n : {n}, error : [Phases -> 1..(n + 1)], falsy : SUBSET (Phases \X (1..n))]
    BY DEF Published!Inputs, Published!Phases, Phases
  <2>2. QED
    BY <2>1
<1>3. Argv = i
  BY <1>1, <1>2 DEF Argv
<1>4. /\ i.n \in Nat
      /\ \A p \in Phases : i.error[p] \in Nat /\ 1 <= i.error[p] /\ i.error[p] <= i.n + 1
      /\ \A f \in i.falsy : /\ f = <<f[1], f[2]>> /\ f[1] \in Phases
                            /\ f[2] \in Nat /\ 1 <= f[2] /\ f[2] < i.error[f[1]]
  BY InputShape
<1>5. 1 \in Phases
  BY ConcurrentAssumption DEF Phases
<1>6. ASSUME NEW f \in i.falsy PROVE f[2] \in 1..i.n
  <2>1. i.error[f[1]] \in Nat /\ i.error[f[1]] <= i.n + 1
    BY <1>4
  <2>2. f[2] \in Nat /\ 1 <= f[2] /\ f[2] < i.error[f[1]]
    BY <1>4
  <2>3. QED
    BY <1>4, <2>1, <2>2
<1>7. ResultBatch \in Nat \ {0}
  BY <1>1, ConcurrentAssumption DEF ResultBatch
<1>8. \A p \in Phases : input.error[p] = FirstError
  BY <1>1, <1>5 DEF FirstError, Phases
<1>9. QED
  BY <1>1, <1>3, <1>4, <1>6, <1>7, <1>8

\* A step that leaves the input alone leaves the arguments and the batch alone.
LEMMA SameArgv ==
    ASSUME input' = input
    PROVE  Argv' = Argv /\ ResultBatch' = ResultBatch /\ FirstError' = FirstError
BY DEF Argv, ResultBatch, FirstError

\* A phase fails exactly when its records end early or one of them is false.
LEMMA PhaseOutcome ==
    ASSUME input \in NativeInputs, NEW p \in Phases
    PROVE  Published!Fails(Argv, p) <=>
              \/ input.n = 0 \/ input.error[p] <= input.n
              \/ \E r \in 1..input.n : <<p, r>> \in input.falsy
<1>1. Argv.n = input.n /\ Argv.error = input.error /\ Argv.falsy = input.falsy
  BY ArgvShape
<1>2. (\E f \in input.falsy : f[1] = p) <=> \E r \in 1..input.n : <<p, r>> \in input.falsy
  <2>1. ASSUME NEW f \in input.falsy, f[1] = p PROVE f[2] \in 1..input.n /\ <<p, f[2]>> \in input.falsy
    <3>1. f[2] \in 1..input.n /\ f = <<f[1], f[2]>>
      BY ArgvShape
    <3>2. QED
      BY <2>1, <3>1
  <2>2. \A r \in 1..input.n : <<p, r>>[1] = p
    OBVIOUS
  <2>3. QED
    BY <2>1, <2>2
<1>3. QED
  BY <1>1, <1>2 DEF Published!Fails

\* The phases of a wave are consecutive; the next wave goes on where it ends, and
\* the last one ends with the last phase.
LEMMA WavePhases ==
    ASSUME Handoff
    PROVE  /\ wave \in Nat /\ LaneCount \in Nat \ {0} /\ LastLane(wave) \in 1..LaneCount
           /\ WaveLanes(wave) \subseteq Lanes
           /\ \A l \in WaveLanes(wave) : l \in Nat /\ l >= 1 /\ Phase(wave, l) \in Phases
           /\ \A l \in Int : Phase(wave, l) \in Int /\ Phase(wave, l + 1) = Phase(wave, l) + 1
           /\ MoreWaves => /\ Phase(wave + 1, 1) = Phase(wave, LastLane(wave)) + 1
                           /\ LastLane(wave) = LaneCount
           /\ ~MoreWaves => Phase(wave, LastLane(wave)) = NumPhases
<1>1. /\ wave \in Nat /\ Phase(wave, 1) <= NumPhases /\ LaneCount \in Nat \ {0}
      /\ LastLane(wave) \in 1..LaneCount
  BY WaveShape DEF Handoff, Protocol, Control
<1>2. PICK b \in Int : b = (wave - 1) * MaxInFlight
  BY <1>1, ConcurrentAssumption
<1>3. \A l : Phase(wave, l) = b + l
  BY <1>2 DEF Phase
<1>4. /\ NumPhases \in Nat \ {0} /\ MaxInFlight \in Nat \ {0} /\ LaneCount \in Nat /\ LaneCount >= 1
      /\ LastLane(wave) \in Nat /\ 1 <= LastLane(wave) /\ LastLane(wave) <= LaneCount
  BY <1>1, ConcurrentAssumption
<1>5. LaneCount = IF MaxInFlight < NumPhases THEN MaxInFlight ELSE NumPhases
  BY DEF LaneCount
<1>6. LastLane(wave) = IF b + LaneCount <= NumPhases THEN LaneCount ELSE NumPhases - b
  <2>1. NumPhases - (b + 0) = NumPhases - b
    BY <1>2, <1>4
  <2>2. QED
    BY <1>3, <2>1 DEF LastLane
<1>7. Phase(wave + 1, 1) = (b + MaxInFlight) + 1
  <2>1. ((wave + 1) - 1) * MaxInFlight = (wave - 1) * MaxInFlight + MaxInFlight
    BY <1>1, <1>4
  <2>2. QED
    BY <1>2, <2>1 DEF Phase
<1>8. wave >= 1 /\ b >= 0
  <2>1. wave # 0
    BY DEF Handoff, Protocol, Control
  <2>2. QED
    BY <1>1, <1>2, <1>4, <2>1
<1>9. QED
  BY <1>1, <1>2, <1>3, <1>4, <1>5, <1>6, <1>7, <1>8 DEF MoreWaves, WaveLanes, Lanes, Phases

-----------------------------------------------------------------------------
(* The workers. *)

\* A worker changes only its own lane, prints nothing, and at most resumes the
\* coordinator.
LEMMA WorkerFrame ==
    ASSUME Handoff, Private, NEW k \in Lanes, WorkerStep(k)
    PROVE  /\ UNCHANGED <<input, out, fault, status, wave, cl, admitted, sent, header>>
           /\ wpc[k] # "off" /\ cpc # "dead" /\ k \in WaveLanes(wave)
           /\ \A l \in Lanes \ {k} :
                 /\ state'[l] = state[l] /\ lstat'[l] = lstat[l] /\ buf'[l] = buf[l]
                 /\ wpc'[l] = wpc[l] /\ rec'[l] = rec[l] /\ sticky'[l] = sticky[l]
                 /\ resume'[l] = resume[l]
           /\ \/ cpc' = cpc
              \/ cpc = "asleep" /\ cpc' = "receive"
              \/ cpc = "join_asleep" /\ cpc' = "join"
<1>1. wpc[k] # "off"
  BY DEF WorkerStep, WorkerStart, NextCancelled, NextRecord, NextDone, NextInvalid, Continues,
         Serialize, PublishReady, ReadyWake, AwaitCancelled, AwaitConsumed, AwaitPending,
         WorkerBlock, Terminal, PublishEnd, EndWake, ThreadExit
<1>2. cpc # "dead"
  BY <1>1 DEF Handoff, Protocol, Coordination
<1>3. k \in WaveLanes(wave)
  BY <1>1, <1>2, WavePhases DEF Handoff, Protocol, LiveThreads, Threads, WaveLanes, Lanes
<1>4. Fits(wpc[k], state[k])
  BY <1>2 DEF Handoff, Protocol, LaneProtocol
<1>5. /\ state \in [Lanes -> States] /\ wpc \in [Lanes -> WorkerPcs] /\ rec \in [Lanes -> Nat]
      /\ buf \in [Lanes -> Seq(Nat)] /\ lstat \in [Lanes -> {0, 1}]
      /\ sticky \in [Lanes -> {0, 1}] /\ resume \in [Lanes -> {"next", "complete"}]
  BY DEF Handoff, Protocol, Control, BatchRoom, Private
<1>6. wpc[k] = "await" => state[k] \in {"READY", "EMPTY", "CANCEL"}
  BY <1>4 DEF Fits, Parked
<1> DEFINE Framed ==
      /\ UNCHANGED <<input, out, fault, status, wave, cl, admitted, sent, header>>
      /\ \A l \in Lanes \ {k} :
            /\ state'[l] = state[l] /\ lstat'[l] = lstat[l] /\ buf'[l] = buf[l]
            /\ wpc'[l] = wpc[l] /\ rec'[l] = rec[l] /\ sticky'[l] = sticky[l]
            /\ resume'[l] = resume[l]
      /\ \/ cpc' = cpc
         \/ cpc = "asleep" /\ cpc' = "receive"
         \/ cpc = "join_asleep" /\ cpc' = "join"
<1> SUFFICES Framed
  BY <1>1, <1>2, <1>3
<1>7. CASE WorkerStart(k)
  BY <1>5, <1>7 DEF WorkerStart, Fail, host, coord
<1>8. CASE NextCancelled(k) \/ NextRecord(k) \/ AwaitCancelled(k) \/ WorkerBlock(k)
  BY <1>5, <1>8 DEF NextCancelled, NextRecord, AwaitCancelled, WorkerBlock, WorkerGoto, host, coord, lane
<1>9. CASE NextDone(k) \/ NextInvalid(k)
  BY <1>5, <1>9 DEF NextDone, NextInvalid, Fail, host, coord
<1>10. CASE Serialize(k)
  BY <1>5, <1>10 DEF Serialize, host, coord
<1>11. CASE PublishReady(k) \/ PublishEnd(k)
  BY <1>5, <1>11 DEF PublishReady, PublishEnd, PublishOnce, host, coord
<1>12. CASE ReadyWake(k) \/ EndWake(k)
  BY <1>5, <1>12 DEF ReadyWake, EndWake, CoordinatorSleepsOn, host, lane
<1>13. CASE AwaitConsumed(k)
  BY <1>5, <1>13 DEF AwaitConsumed, host, coord
<1>14. CASE AwaitPending(k)
  BY <1>5, <1>6, <1>14 DEF AwaitPending, lane
<1>15. CASE Terminal(k)
  BY <1>5, <1>15 DEF Terminal, host, coord, lane
<1>16. CASE ThreadExit(k)
  BY <1>5, <1>16 DEF ThreadExit, host
<1>17. Framed
  BY <1>7, <1>8, <1>9, <1>10, <1>11, <1>12, <1>13, <1>14, <1>15, <1>16 DEF WorkerStep
<1>18. QED
  BY <1>17

\* The private words keep their types.
LEMMA WorkerPrivate ==
    ASSUME Handoff, Private, NEW k \in Lanes, WorkerStep(k)
    PROVE  Private'
<1> USE DEF Private
<1>1. CASE WorkerStart(k)
  BY <1>1 DEF WorkerStart, Fail
<1>2. CASE NextCancelled(k) \/ NextRecord(k) \/ AwaitCancelled(k) \/ WorkerBlock(k)
  BY <1>2 DEF NextCancelled, NextRecord, AwaitCancelled, WorkerBlock, WorkerGoto, lane
<1>3. CASE NextDone(k) \/ NextInvalid(k)
  BY <1>3 DEF NextDone, NextInvalid, Fail
<1>4. CASE Serialize(k)
  BY <1>4 DEF Serialize
<1>5. CASE PublishReady(k) \/ PublishEnd(k)
  BY <1>5 DEF PublishReady, PublishEnd
<1>6. CASE ReadyWake(k) \/ EndWake(k)
  BY <1>6 DEF ReadyWake, EndWake, lane
<1>7. CASE AwaitConsumed(k) \/ AwaitPending(k)
  BY <1>7 DEF AwaitConsumed, AwaitPending, lane
<1>8. CASE Terminal(k)
  BY <1>8 DEF Terminal, lane
<1>9. CASE ThreadExit(k)
  BY <1>9 DEF ThreadExit
<1>10. QED
  BY <1>1, <1>2, <1>3, <1>4, <1>5, <1>6, <1>7, <1>8, <1>9 DEF WorkerStep

\* What is known of a lane nobody touched is still known.
LEMMA LaneUntouched ==
    ASSUME input' = input, NEW l, NEW p, Findings(l, p), cpc' = "reset" <=> cpc = "reset",
           state'[l] = state[l], lstat'[l] = lstat[l], buf'[l] = buf[l], wpc'[l] = wpc[l],
           rec'[l] = rec[l], sticky'[l] = sticky[l], resume'[l] = resume[l]
    PROVE  Findings(l, p)' /\ Consumed(l)' = Consumed(l)
<1>1. Argv' = Argv /\ ResultBatch' = ResultBatch
  BY SameArgv
<1>2. Scanned(l, p)' /\ Working(l, p)'
  BY <1>1 DEF Findings, Scanned, Working
<1>3. Filled(l)' <=> Filled(l)
  BY <1>1 DEF Filled
<1>4. Batched(l, p)' /\ Consumed(l)' = Consumed(l)
  BY <1>3 DEF Findings, Batched, Consumed
<1>5. (Ending(l)' <=> Ending(l)) /\ (Erring(l)' <=> Erring(l))
  BY DEF Ending, Erring
<1>6. Concluded(l, p)'
  BY <1>1, <1>5 DEF Findings, Concluded
<1>7. QED
  BY <1>2, <1>4, <1>6 DEF Findings

\* A worker's own step keeps what is known of its lane, and moves no record past
\* the coordinator.
LEMMA WorkerFinds ==
    ASSUME Handoff, Private, input \in NativeInputs, NEW k \in Lanes, WorkerStep(k),
           NEW p \in Phases, p = Phase(wave, k), Findings(k, p)
    PROVE  /\ Findings(k, p)'
           /\ state[k] # "CANCEL" => Consumed(k)' = Consumed(k)
           /\ state[k] = "READY" => buf'[k] = buf[k]
<1>1. /\ state \in [Lanes -> States] /\ wpc \in [Lanes -> WorkerPcs] /\ rec \in [Lanes -> Nat]
      /\ buf \in [Lanes -> Seq(Nat)] /\ lstat \in [Lanes -> {0, 1}]
      /\ sticky \in [Lanes -> {0, 1}] /\ resume \in [Lanes -> {"next", "complete"}]
  BY DEF Handoff, Protocol, Control, BatchRoom, Private
<1>2. /\ rec[k] \in Nat /\ buf[k] \in Seq(Nat) /\ Len(buf[k]) \in Nat /\ sticky[k] \in {0, 1}
      /\ lstat[k] \in {0, 1} /\ resume[k] \in {"next", "complete"} /\ state[k] \in States
  BY <1>1
<1>3. /\ input' = input /\ cpc # "dead" /\ (cpc' = "reset" <=> cpc = "reset")
      /\ Argv' = Argv /\ ResultBatch' = ResultBatch
  BY WorkerFrame, SameArgv
<1>4. Fits(wpc[k], state[k])
  BY <1>3 DEF Handoff, Protocol, LaneProtocol
<1>5. /\ ResultBatch \in Nat \ {0} /\ input.n \in Nat /\ input.error[p] \in Nat
      /\ 1 <= input.error[p] /\ input.error[p] <= input.n + 1 /\ input.error[p] = FirstError
  BY ArgvShape
<1>6. Published!Fails(Argv, p) <=>
              \/ input.n = 0 \/ input.error[p] <= input.n
              \/ \E r \in 1..input.n : <<p, r>> \in input.falsy
  BY PhaseOutcome
<1>7. ResultBatch > 1 /\ wpc[k] \in {"next", "serialize"} => Len(buf[k]) < ResultBatch
  BY DEF Handoff, BatchRoom
<1>8. Scanned(k, p) /\ Working(k, p) /\ Batched(k, p) /\ Concluded(k, p)
  BY DEF Findings
<1> DEFINE Kept == /\ Findings(k, p)'
                   /\ state[k] # "CANCEL" => Consumed(k)' = Consumed(k)
                   /\ state[k] = "READY" => buf'[k] = buf[k]
<1> SUFFICES Kept
  OBVIOUS
<1>9. CASE WorkerStart(k)
  <2>1. /\ wpc[k] = "start" /\ rec'[k] = 1 /\ sticky'[k] = 0 /\ resume'[k] = "next" /\ state'[k] = state[k]
        /\ buf'[k] = IF ResultBatch > 1 THEN << >> ELSE buf[k]
        /\ \/ input.n > 0 /\ wpc'[k] = "next" /\ lstat'[k] = lstat[k]
           \/ /\ input.n = 0 \/ FirstError = 1
              /\ \/ ResultBatch > 1 /\ lstat'[k] = 1 /\ wpc'[k] = "terminal"
                 \/ ~(ResultBatch > 1) /\ lstat'[k] = lstat[k] /\ wpc'[k] = "error"
    BY <1>1, <1>2, <1>4, <1>9 DEF WorkerStart, Fail
  <2>2. Scanned(k, p)'
    BY <1>2, <1>3, <1>5, <1>8, <2>1 DEF Scanned, Working, Parked
  <2>3. Working(k, p)'
    BY <1>2, <1>3, <1>5, <1>8, <2>1 DEF Scanned, Working, Parked
  <2>4. Batched(k, p)' /\ (state[k] # "CANCEL" => Consumed(k)' = Consumed(k))
    <3>1. state[k] # "READY" /\ Consumed(k) = 0
      BY <1>4, <2>1 DEF Consumed, Fits, Parked, Producing
    <3>2. CASE ResultBatch > 1
      <4>1. Len(buf'[k]) = 0 /\ \A j \in 1..Len(buf'[k]) : FALSE
        BY <2>1, <3>2
      <4>2. rec'[k] = 1 /\ wpc'[k] # "start" /\ input' = input
        BY <1>3, <2>1
      <4>3. Consumed(k)' = 0
        BY <4>1, <4>2 DEF Consumed
      <4>4. Batched(k, p)'
        BY <1>5, <4>1, <4>2 DEF Batched
      <4>5. QED
        BY <3>1, <4>3, <4>4
    <3>3. CASE ~(ResultBatch > 1)
      <4>1. ~Filled(k)'
        BY <1>3, <2>1, <3>1, <3>3 DEF Filled
      <4>2. Consumed(k)' = 0
        BY <2>1, <4>1 DEF Consumed
      <4>3. QED
        BY <3>1, <4>1, <4>2 DEF Batched
    <3>4. QED
      BY <3>2, <3>3
  <2>5. Concluded(k, p)'
    BY <1>2, <1>3, <1>4, <1>5, <1>6, <1>8, <2>1
    DEF Scanned, Working, Concluded, Ending, Erring, Fits, Parked, Producing, Leaving
  <2>6. state[k] = "READY" => buf'[k] = buf[k]
    BY <1>4, <2>1 DEF Fits, Parked, Producing
  <2>7. QED
    BY <2>2, <2>3, <2>4, <2>5, <2>6 DEF Findings
<1>10. CASE NextRecord(k)
  <2>1. /\ wpc[k] = "next" /\ state[k] # "CANCEL" /\ rec[k] < FirstError /\ wpc'[k] = "serialize"
        /\ rec'[k] = rec[k] /\ sticky'[k] = sticky[k] /\ resume'[k] = resume[k] /\ state'[k] = state[k]
        /\ buf'[k] = buf[k] /\ lstat'[k] = lstat[k]
    BY <1>1, <1>2, <1>4, <1>10 DEF NextRecord, Continues, WorkerGoto, lane
  <2>2. Scanned(k, p)'
    BY <1>2, <1>3, <1>5, <1>8, <2>1 DEF Scanned, Working, Parked
  <2>3. Working(k, p)'
    BY <1>2, <1>3, <1>5, <1>8, <2>1 DEF Scanned, Working, Parked
  <2>4. Batched(k, p)' /\ (state[k] # "CANCEL" => Consumed(k)' = Consumed(k))
    BY <1>2, <1>3, <1>4, <1>5, <1>7, <1>8, <2>1
    DEF Scanned, Working, Batched, Filled, Consumed, Fits, Parked, Producing, Leaving
  <2>5. Concluded(k, p)'
    BY <1>2, <1>3, <1>4, <1>5, <1>6, <1>8, <2>1
    DEF Scanned, Working, Concluded, Ending, Erring, Fits, Parked, Producing, Leaving
  <2>6. state[k] = "READY" => buf'[k] = buf[k]
    BY <1>4, <2>1 DEF Fits, Parked, Producing
  <2>7. QED
    BY <2>2, <2>3, <2>4, <2>5, <2>6 DEF Findings
<1>11. CASE NextDone(k)
  <2>1. /\ wpc[k] = "next" /\ rec[k] > input.n
        /\ rec'[k] = rec[k] /\ sticky'[k] = sticky[k] /\ resume'[k] = resume[k] /\ state'[k] = state[k]
        /\ buf'[k] = buf[k] /\ lstat'[k] = sticky[k]
        /\ wpc'[k] = IF ResultBatch > 1 THEN "terminal" ELSE "done"
    BY <1>1, <1>2, <1>4, <1>11 DEF NextDone, Continues
  <2>2. Scanned(k, p)'
    BY <1>2, <1>3, <1>5, <1>8, <2>1 DEF Scanned, Working, Parked
  <2>3. Working(k, p)'
    BY <1>2, <1>3, <1>5, <1>8, <2>1 DEF Scanned, Working, Parked
  <2>4. Batched(k, p)' /\ (state[k] # "CANCEL" => Consumed(k)' = Consumed(k))
    BY <1>2, <1>3, <1>4, <1>5, <1>7, <1>8, <2>1
    DEF Scanned, Working, Batched, Filled, Consumed, Fits, Parked, Producing, Leaving
  <2>5. Concluded(k, p)'
    <3>1. rec[k] = input.error[p] /\ rec[k] = input.n + 1 /\ input.n > 0
      BY <1>2, <1>5, <1>8, <2>1 DEF Scanned, Working
    <3>2. sticky[k] = 0 <=> ~\E r \in 1..input.n : <<p, r>> \in input.falsy
      <4>1. \A r \in 1..input.n : ~(r >= rec[k])
        BY <1>5, <3>1
      <4>2. QED
        BY <1>8, <2>1, <4>1 DEF Scanned
    <3>3. sticky[k] = 0 <=> ~Published!Fails(Argv, p)
      BY <1>5, <1>6, <3>1, <3>2
    <3>4. state[k] \in {"EMPTY", "CANCEL"} /\ ~Erring(k)'
      BY <1>4, <2>1 DEF Fits, Producing, Erring
    <3>5. QED
      BY <1>3, <2>1, <3>1, <3>3, <3>4 DEF Concluded
  <2>6. state[k] = "READY" => buf'[k] = buf[k]
    BY <1>4, <2>1 DEF Fits, Parked, Producing
  <2>7. QED
    BY <2>2, <2>3, <2>4, <2>5, <2>6 DEF Findings
<1>12. CASE NextInvalid(k)
  <2>1. /\ wpc[k] = "next" /\ rec[k] = FirstError /\ rec[k] <= input.n
        /\ rec'[k] = rec[k] /\ sticky'[k] = sticky[k] /\ resume'[k] = resume[k] /\ state'[k] = state[k]
        /\ buf'[k] = buf[k]
        /\ \/ ResultBatch > 1 /\ lstat'[k] = 1 /\ wpc'[k] = "terminal"
           \/ ~(ResultBatch > 1) /\ lstat'[k] = lstat[k] /\ wpc'[k] = "error"
    BY <1>1, <1>2, <1>4, <1>12 DEF NextInvalid, Continues, Fail
  <2>2. Scanned(k, p)'
    BY <1>2, <1>3, <1>5, <1>8, <2>1 DEF Scanned, Working, Parked
  <2>3. Working(k, p)'
    BY <1>2, <1>3, <1>5, <1>8, <2>1 DEF Scanned, Working, Parked
  <2>4. Batched(k, p)' /\ (state[k] # "CANCEL" => Consumed(k)' = Consumed(k))
    BY <1>2, <1>3, <1>4, <1>5, <1>7, <1>8, <2>1
    DEF Scanned, Working, Batched, Filled, Consumed, Fits, Parked, Producing, Leaving
  <2>5. Concluded(k, p)'
    BY <1>2, <1>3, <1>4, <1>5, <1>6, <1>8, <2>1
    DEF Scanned, Working, Concluded, Ending, Erring, Fits, Parked, Producing, Leaving
  <2>6. state[k] = "READY" => buf'[k] = buf[k]
    BY <1>4, <2>1 DEF Fits, Parked, Producing
  <2>7. QED
    BY <2>2, <2>3, <2>4, <2>5, <2>6 DEF Findings
<1>13. CASE Serialize(k)
  <2>1. /\ wpc[k] = "serialize"
        /\ buf'[k] = IF ResultBatch > 1 THEN Append(buf[k], rec[k]) ELSE <<rec[k]>>
        /\ sticky'[k] = IF <<p, rec[k]>> \in input.falsy THEN 1 ELSE sticky[k]
        /\ rec'[k] = rec[k] + 1 /\ resume'[k] = resume[k] /\ state'[k] = state[k] /\ lstat'[k] = lstat[k]
        /\ wpc'[k] = IF Len(buf'[k]) < ResultBatch THEN "next" ELSE "publish"
    BY <1>1, <1>2, <1>4, <1>13 DEF Serialize
  <2>2. Scanned(k, p)'
    <3>1. /\ rec[k] >= 1 /\ rec[k] < input.error[p] /\ rec[k] \in 1..input.n
          /\ sticky[k] = 0 => \A r \in 1..input.n : <<p, r>> \in input.falsy => r >= rec[k]
          /\ sticky[k] # 0 => \E r \in 1..input.n : <<p, r>> \in input.falsy
      BY <1>2, <1>5, <1>8, <2>1 DEF Scanned, Working
    <3>2. rec'[k] >= 1 /\ rec'[k] <= input.error[p]
      BY <1>2, <1>5, <2>1, <3>1
    <3>3. ASSUME sticky'[k] = 0, NEW r \in 1..input.n, <<p, r>> \in input.falsy PROVE r >= rec'[k]
      <4>1. r >= rec[k] /\ r # rec[k]
        BY <2>1, <3>1, <3>3
      <4>2. QED
        BY <1>2, <1>5, <2>1, <4>1
    <3>4. sticky'[k] # 0 => \E r \in 1..input.n : <<p, r>> \in input.falsy
      BY <2>1, <3>1
    <3>5. QED
      BY <1>3, <3>2, <3>3, <3>4 DEF Scanned
  <2>3. Working(k, p)'
    BY <1>2, <1>3, <1>5, <1>8, <2>1 DEF Scanned, Working, Parked
  <2>4. Batched(k, p)' /\ (state[k] # "CANCEL" => Consumed(k)' = Consumed(k))
    <3>1. /\ rec[k] >= 1 /\ rec[k] < input.error[p] /\ state[k] # "READY"
      BY <1>4, <1>8, <2>1 DEF Scanned, Working, Fits, Parked, Producing
    <3>2. CASE ResultBatch > 1
      <4>1. Filled(k) /\ Filled(k)' /\ wpc'[k] # "start"
        BY <1>3, <2>1, <3>2 DEF Filled
      <4>0. rec'[k] = rec[k] + 1 /\ Len(buf'[k]) = Len(buf[k]) + 1
        BY <1>2, <2>1, <3>2
      <4>2. /\ buf'[k] = Append(buf[k], rec[k]) /\ Len(buf'[k]) = Len(buf[k]) + 1
            /\ \A j \in 1..(Len(buf[k]) + 1) :
                  buf'[k][j] = IF j = Len(buf[k]) + 1 THEN rec[k] ELSE buf[k][j]
        BY <1>2, <2>1, <3>2
      <4>3. /\ Len(buf[k]) <= rec[k] - 1
            /\ \A j \in 1..Len(buf[k]) : buf[k][j] = ((rec[k] - 1) - Len(buf[k])) + j
        BY <1>8, <2>1, <4>1 DEF Batched
      <4>4. PICK n \in Nat, m \in Nat : n = Len(buf[k]) /\ m = Len(buf'[k]) /\ m = n + 1
        BY <1>2, <4>0
      <4>4a. m = n + 1 /\ n \in Nat /\ rec[k] \in Nat /\ rec'[k] = rec[k] + 1
        BY <1>2, <4>0, <4>4
      <4>4b. ((rec[k] + 1) - 1) - (n + 1) = (rec[k] - 1) - n
        BY <4>4a
      <4>4c. (rec'[k] - 1) - m = (rec[k] - 1) - n
        BY <4>4a, <4>4b
      <4>5. \A j \in 1..m : buf'[k][j] = ((rec'[k] - 1) - m) + j
        <5> SUFFICES ASSUME NEW j \in 1..m PROVE buf'[k][j] = ((rec'[k] - 1) - m) + j
          OBVIOUS
        <5>1. rec'[k] = rec[k] + 1
          BY <2>1
        <5>2. CASE j = m
          <6>1. buf'[k][j] = rec[k]
            BY <4>2, <4>4, <5>2
          <6>2. QED
            BY <1>2, <4>4, <5>1, <5>2, <6>1
        <5>3. CASE j # m
          <6>1. j \in 1..n /\ j # n + 1
            BY <4>4, <5>3
          <6>2. buf'[k][j] = buf[k][j] /\ buf[k][j] = ((rec[k] - 1) - n) + j
            BY <4>2, <4>3, <4>4, <6>1
          <6>3. ((rec'[k] - 1) - m) + j = ((rec[k] - 1) - n) + j
            BY <4>4c
          <6>4. QED
            BY <6>2, <6>3
        <5>4. QED
          BY <5>2, <5>3
      <4>6. m <= rec'[k] - 1 /\ rec'[k] <= input.error[p]
        BY <1>2, <1>5, <2>1, <3>1, <4>3, <4>4
      <4>7. (rec'[k] - 1) - m = (rec[k] - 1) - n
        BY <4>4c
      <4>8. Consumed(k) = (rec[k] - 1) - n /\ Consumed(k)' = (rec'[k] - 1) - m
        BY <2>1, <4>1, <4>4 DEF Consumed
      <4>9. QED
        BY <1>3, <4>4, <4>5, <4>6, <4>7, <4>8 DEF Batched
    <3>3. CASE ~(ResultBatch > 1)
      <4>1. buf'[k] = <<rec[k]>> /\ Len(buf'[k]) = 1 /\ buf'[k][1] = rec[k]
        BY <2>1, <3>3
      <4>2. wpc'[k] = "publish" /\ ~Filled(k)
        BY <1>5, <2>1, <3>1, <3>3, <4>1 DEF Filled
      <4>3. Filled(k)'
        BY <4>2 DEF Filled
      <4>4. 1 <= rec'[k] - 1 /\ rec'[k] <= input.error[p] /\ rec[k] = ((rec'[k] - 1) - 1) + 1
        BY <1>2, <1>5, <2>1, <3>1
      <4>5. Consumed(k) = rec[k] - 1 /\ Consumed(k)' = (rec'[k] - 1) - 1
        BY <2>1, <4>1, <4>2, <4>3 DEF Consumed
      <4>6. rec[k] - 1 = (rec'[k] - 1) - 1
        BY <1>2, <2>1
      <4>7. \A j \in 1..1 : j = 1
        OBVIOUS
      <4>8. QED
        BY <1>3, <4>1, <4>4, <4>5, <4>6, <4>7 DEF Batched
    <3>4. QED
      BY <3>2, <3>3
  <2>5. Concluded(k, p)'
    BY <1>2, <1>3, <1>4, <1>5, <1>6, <1>8, <2>1
    DEF Scanned, Working, Concluded, Ending, Erring, Fits, Parked, Producing, Leaving
  <2>6. state[k] = "READY" => buf'[k] = buf[k]
    BY <1>4, <2>1 DEF Fits, Parked, Producing
  <2>7. QED
    BY <2>2, <2>3, <2>4, <2>5, <2>6 DEF Findings
<1>14. CASE PublishReady(k)
  <2>1. /\ wpc[k] = "publish"
        /\ \/ state[k] = "EMPTY" /\ state'[k] = "READY" /\ wpc'[k] = "ready_wake"
           \/ state[k] # "EMPTY" /\ state'[k] = state[k] /\ wpc'[k] = "exit"
        /\ rec'[k] = rec[k] /\ sticky'[k] = sticky[k] /\ resume'[k] = resume[k]
        /\ buf'[k] = buf[k] /\ lstat'[k] = lstat[k]
    BY <1>1, <1>2, <1>4, <1>14 DEF PublishReady, PublishOnce
  <2>2. Scanned(k, p)'
    BY <1>2, <1>3, <1>5, <1>8, <2>1 DEF Scanned, Working, Parked
  <2>3. Working(k, p)'
    BY <1>2, <1>3, <1>5, <1>8, <2>1 DEF Scanned, Working, Parked
  <2>4. Batched(k, p)' /\ (state[k] # "CANCEL" => Consumed(k)' = Consumed(k))
    BY <1>2, <1>3, <1>4, <1>5, <1>7, <1>8, <2>1
    DEF Scanned, Working, Batched, Filled, Consumed, Fits, Parked, Producing, Leaving
  <2>5. Concluded(k, p)'
    BY <1>2, <1>3, <1>4, <1>5, <1>6, <1>8, <2>1
    DEF Scanned, Working, Concluded, Ending, Erring, Fits, Parked, Producing, Leaving
  <2>6. state[k] = "READY" => buf'[k] = buf[k]
    BY <1>4, <2>1 DEF Fits, Parked, Producing
  <2>7. QED
    BY <2>2, <2>3, <2>4, <2>5, <2>6 DEF Findings
<1>15. CASE ReadyWake(k)
  <2>1. /\ wpc[k] = "ready_wake" /\ wpc'[k] = "await"
        /\ rec'[k] = rec[k] /\ sticky'[k] = sticky[k] /\ resume'[k] = resume[k] /\ state'[k] = state[k]
        /\ buf'[k] = buf[k] /\ lstat'[k] = lstat[k]
    BY <1>1, <1>2, <1>4, <1>15 DEF ReadyWake, lane
  <2>2. Scanned(k, p)'
    BY <1>2, <1>3, <1>5, <1>8, <2>1 DEF Scanned, Working, Parked
  <2>3. Working(k, p)'
    BY <1>2, <1>3, <1>5, <1>8, <2>1 DEF Scanned, Working, Parked
  <2>4. Batched(k, p)' /\ (state[k] # "CANCEL" => Consumed(k)' = Consumed(k))
    BY <1>2, <1>3, <1>4, <1>5, <1>7, <1>8, <2>1
    DEF Scanned, Working, Batched, Filled, Consumed, Fits, Parked, Producing, Leaving
  <2>5. Concluded(k, p)'
    BY <1>2, <1>3, <1>4, <1>5, <1>6, <1>8, <2>1
    DEF Scanned, Working, Concluded, Ending, Erring, Fits, Parked, Producing, Leaving
  <2>6. state[k] = "READY" => buf'[k] = buf[k]
    BY <1>4, <2>1 DEF Fits, Parked, Producing
  <2>7. QED
    BY <2>2, <2>3, <2>4, <2>5, <2>6 DEF Findings
<1>16. CASE NextCancelled(k) \/ AwaitCancelled(k)
  <2>1. /\ state[k] = "CANCEL" /\ wpc[k] \notin {"off", "start"} /\ wpc'[k] = "exit"
        /\ rec'[k] = rec[k] /\ sticky'[k] = sticky[k] /\ resume'[k] = resume[k] /\ state'[k] = state[k]
        /\ buf'[k] = buf[k] /\ lstat'[k] = lstat[k]
    BY <1>1, <1>2, <1>4, <1>16 DEF NextCancelled, AwaitCancelled, WorkerGoto, lane
  <2>2. Scanned(k, p)'
    BY <1>2, <1>3, <1>5, <1>8, <2>1 DEF Scanned, Working, Parked
  <2>3. Working(k, p)'
    BY <1>2, <1>3, <1>5, <1>8, <2>1 DEF Scanned, Working, Parked
  <2>4. Batched(k, p)' /\ (state[k] # "CANCEL" => Consumed(k)' = Consumed(k))
    BY <1>2, <1>3, <1>4, <1>5, <1>7, <1>8, <2>1
    DEF Scanned, Working, Batched, Filled, Consumed, Fits, Parked, Producing, Leaving
  <2>5. Concluded(k, p)'
    BY <1>2, <1>3, <1>4, <1>5, <1>6, <1>8, <2>1
    DEF Scanned, Working, Concluded, Ending, Erring, Fits, Parked, Producing, Leaving
  <2>6. state[k] = "READY" => buf'[k] = buf[k]
    BY <1>4, <2>1 DEF Fits, Parked, Producing
  <2>7. QED
    BY <2>2, <2>3, <2>4, <2>5, <2>6 DEF Findings
<1>17. CASE AwaitConsumed(k)
  <2>1. /\ wpc[k] = "await" /\ state[k] = "EMPTY"
        /\ \/ /\ resume[k] = "next" /\ wpc'[k] = "next"
              /\ buf'[k] = IF ResultBatch > 1 THEN << >> ELSE buf[k]
           \/ /\ resume[k] = "complete" /\ wpc'[k] = "done" /\ buf'[k] = buf[k]
        /\ rec'[k] = rec[k] /\ sticky'[k] = sticky[k] /\ resume'[k] = resume[k] /\ state'[k] = state[k]
        /\ lstat'[k] = lstat[k]
    BY <1>1, <1>2, <1>4, <1>17 DEF AwaitConsumed
  <2>2. Scanned(k, p)'
    BY <1>2, <1>3, <1>5, <1>8, <2>1 DEF Scanned, Working, Parked
  <2>3. Working(k, p)'
    BY <1>2, <1>3, <1>5, <1>8, <2>1 DEF Scanned, Working, Parked
  <2>4. Batched(k, p)' /\ (state[k] # "CANCEL" => Consumed(k)' = Consumed(k))
    BY <1>2, <1>3, <1>4, <1>5, <1>7, <1>8, <2>1
    DEF Scanned, Working, Batched, Filled, Consumed, Fits, Parked, Producing, Leaving
  <2>5. Concluded(k, p)'
    BY <1>2, <1>3, <1>4, <1>5, <1>6, <1>8, <2>1
    DEF Scanned, Working, Concluded, Ending, Erring, Fits, Parked, Producing, Leaving
  <2>6. state[k] = "READY" => buf'[k] = buf[k]
    BY <1>4, <2>1 DEF Fits, Parked, Producing
  <2>7. QED
    BY <2>2, <2>3, <2>4, <2>5, <2>6 DEF Findings
<1>18. CASE AwaitPending(k) \/ WorkerBlock(k)
  <2>1. /\ wpc[k] \in Parked /\ wpc'[k] \in Parked
        /\ rec'[k] = rec[k] /\ sticky'[k] = sticky[k] /\ resume'[k] = resume[k] /\ state'[k] = state[k]
        /\ buf'[k] = buf[k] /\ lstat'[k] = lstat[k]
    BY <1>1, <1>2, <1>4, <1>18 DEF AwaitPending, WorkerBlock, WorkerGoto, lane, Fits, Parked
  <2>2. Scanned(k, p)'
    BY <1>2, <1>3, <1>5, <1>8, <2>1 DEF Scanned, Working, Parked
  <2>3. Working(k, p)'
    BY <1>2, <1>3, <1>5, <1>8, <2>1 DEF Scanned, Working, Parked
  <2>4. Batched(k, p)' /\ (state[k] # "CANCEL" => Consumed(k)' = Consumed(k))
    BY <1>2, <1>3, <1>4, <1>5, <1>7, <1>8, <2>1
    DEF Scanned, Working, Batched, Filled, Consumed, Fits, Parked, Producing, Leaving
  <2>5. Concluded(k, p)'
    BY <1>2, <1>3, <1>4, <1>5, <1>6, <1>8, <2>1
    DEF Scanned, Working, Concluded, Ending, Erring, Fits, Parked, Producing, Leaving
  <2>6. state[k] = "READY" => buf'[k] = buf[k]
    BY <1>4, <2>1 DEF Fits, Parked, Producing
  <2>7. QED
    BY <2>2, <2>3, <2>4, <2>5, <2>6 DEF Findings
<1>19. CASE Terminal(k)
  <2>1. /\ wpc[k] = "terminal"
        /\ \/ buf[k] = << >> /\ wpc'[k] = "done" /\ resume'[k] = resume[k]
           \/ buf[k] # << >> /\ wpc'[k] = "publish" /\ resume'[k] = "complete"
        /\ rec'[k] = rec[k] /\ sticky'[k] = sticky[k] /\ state'[k] = state[k]
        /\ buf'[k] = buf[k] /\ lstat'[k] = lstat[k]
    BY <1>1, <1>2, <1>4, <1>19 DEF Terminal, lane
  <2>2. Scanned(k, p)'
    BY <1>2, <1>3, <1>5, <1>8, <2>1 DEF Scanned, Working, Parked
  <2>3. Working(k, p)'
    <3>1. ResultBatch > 1 /\ Filled(k)
      BY <1>8, <2>1 DEF Working, Filled
    <3>2. buf[k] # << >> => Len(buf[k]) > 0
      BY <1>2
    <3>3. buf[k] # << >> => input.n > 0
      BY <1>2, <1>5, <1>8, <2>1, <3>1, <3>2 DEF Batched
    <3>4. QED
      BY <1>3, <2>1, <3>3 DEF Working, Parked
  <2>4. Batched(k, p)' /\ (state[k] # "CANCEL" => Consumed(k)' = Consumed(k))
    <3>1. ResultBatch > 1 /\ Filled(k) /\ state[k] # "READY"
      BY <1>4, <1>8, <2>1 DEF Working, Filled, Fits, Parked, Producing
    <3>2. Consumed(k) = (rec[k] - 1) - Len(buf[k])
      BY <2>1, <3>1 DEF Consumed
    <3>3. CASE buf[k] = << >>
      <4>1. Len(buf[k]) = 0 /\ wpc'[k] = "done" /\ ~Filled(k)'
        BY <2>1, <3>1, <3>3 DEF Filled
      <4>2. Consumed(k)' = rec[k] - 1
        BY <2>1, <4>1 DEF Consumed
      <4>3. QED
        BY <1>2, <3>2, <4>1, <4>2 DEF Batched
    <3>4. CASE buf[k] # << >>
      <4>1. wpc'[k] = "publish" /\ Filled(k)'
        BY <2>1, <3>4 DEF Filled
      <4>2. QED
        BY <1>3, <1>8, <2>1, <3>1, <3>2, <4>1 DEF Batched, Consumed
    <3>5. QED
      BY <3>3, <3>4
  <2>5. Concluded(k, p)'
    BY <1>2, <1>3, <1>4, <1>5, <1>6, <1>8, <2>1
    DEF Scanned, Working, Concluded, Ending, Erring, Fits, Parked, Producing, Leaving
  <2>6. state[k] = "READY" => buf'[k] = buf[k]
    BY <1>4, <2>1 DEF Fits, Parked, Producing
  <2>7. QED
    BY <2>2, <2>3, <2>4, <2>5, <2>6 DEF Findings
<1>20. CASE PublishEnd(k)
  <2>1. /\ \/ wpc[k] \in {"done", "error"} /\ state[k] # "EMPTY" /\ state'[k] = state[k] /\ wpc'[k] = "exit"
           \/ wpc[k] = "done" /\ state'[k] = "DONE" /\ wpc'[k] = "end_wake"
           \/ wpc[k] = "error" /\ state'[k] = "ERROR" /\ wpc'[k] = "end_wake"
        /\ rec'[k] = rec[k] /\ sticky'[k] = sticky[k] /\ resume'[k] = resume[k]
        /\ buf'[k] = buf[k] /\ lstat'[k] = lstat[k]
    BY <1>1, <1>2, <1>4, <1>20 DEF PublishEnd, PublishOnce
  <2>2. Scanned(k, p)'
    BY <1>2, <1>3, <1>5, <1>8, <2>1 DEF Scanned, Working, Parked
  <2>3. Working(k, p)'
    BY <1>2, <1>3, <1>5, <1>8, <2>1 DEF Scanned, Working, Parked
  <2>4. Batched(k, p)' /\ (state[k] # "CANCEL" => Consumed(k)' = Consumed(k))
    BY <1>2, <1>3, <1>4, <1>5, <1>7, <1>8, <2>1
    DEF Scanned, Working, Batched, Filled, Consumed, Fits, Parked, Producing, Leaving
  <2>5. Concluded(k, p)'
    BY <1>2, <1>3, <1>4, <1>5, <1>6, <1>8, <2>1
    DEF Scanned, Working, Concluded, Ending, Erring, Fits, Parked, Producing, Leaving
  <2>6. state[k] = "READY" => buf'[k] = buf[k]
    BY <1>4, <2>1 DEF Fits, Parked, Producing
  <2>7. QED
    BY <2>2, <2>3, <2>4, <2>5, <2>6 DEF Findings
<1>21. CASE EndWake(k) \/ ThreadExit(k)
  <2>1. /\ wpc[k] \in {"end_wake", "exit"} /\ wpc'[k] \in {"off", "exit"}
        /\ rec'[k] = rec[k] /\ sticky'[k] = sticky[k] /\ resume'[k] = resume[k] /\ state'[k] = state[k]
        /\ buf'[k] = buf[k] /\ lstat'[k] = lstat[k]
    BY <1>1, <1>2, <1>4, <1>21 DEF EndWake, ThreadExit, lane
  <2>2. Scanned(k, p)'
    BY <1>2, <1>3, <1>5, <1>8, <2>1 DEF Scanned, Working, Parked
  <2>3. Working(k, p)'
    BY <1>2, <1>3, <1>5, <1>8, <2>1 DEF Scanned, Working, Parked
  <2>4. Batched(k, p)' /\ (state[k] # "CANCEL" => Consumed(k)' = Consumed(k))
    BY <1>2, <1>3, <1>4, <1>5, <1>7, <1>8, <2>1
    DEF Scanned, Working, Batched, Filled, Consumed, Fits, Parked, Producing, Leaving
  <2>5. Concluded(k, p)'
    BY <1>2, <1>3, <1>4, <1>5, <1>6, <1>8, <2>1
    DEF Scanned, Working, Concluded, Ending, Erring, Fits, Parked, Producing, Leaving
  <2>6. state[k] = "READY" => buf'[k] = buf[k]
    BY <1>4, <2>1 DEF Fits, Parked, Producing
  <2>7. QED
    BY <2>2, <2>3, <2>4, <2>5, <2>6 DEF Findings
<1>22. QED
  BY <1>9, <1>10, <1>11, <1>12, <1>13, <1>14, <1>15, <1>16, <1>17, <1>18, <1>19, <1>20, <1>21 DEF WorkerStep

\* A thread that moves on within a stage of the wave, without output.
SameStage ==
    \/ cpc' = cpc
    \/ cpc \in Receiving \ {"write"} /\ cpc' \in Receiving \ {"write"}
    \/ cpc \in Joining /\ cpc' \in Joining
    \/ cpc \in {"cancel", "cancel_wake"} /\ cpc' \in {"cancel", "cancel_wake", "join"}

\* What is pending stays pending within a stage.
LEMMA StagePending ==
    ASSUME Handoff, Ordered, SameStage, UNCHANGED <<input, out, status, wave, header>>,
           fault' \in {fault, "yes"},
           cpc \in {"clone"} \cup Receiving => cl' = cl /\ \A l \in WaveLanes(wave) : Consumed(l)' = Consumed(l),
           cpc = "write" => sent' = sent /\ \A l \in Lanes : l = cl => buf'[l] = buf[l]
    PROVE  Pending' /\ Content'
<1>1. Argv' = Argv /\ ResultBatch' = ResultBatch
  BY SameArgv
<1>2. Content' /\ Pending
  BY <1>1 DEF Ordered, Content
<1>3. /\ LastLane(wave)' = LastLane(wave) /\ WaveLanes(wave)' = WaveLanes(wave)
      /\ \A l : Phase(wave, l)' = Phase(wave, l)
  BY DEF LastLane, WaveLanes, Phase, LaneCount
<1>4. /\ (cpc' = "dead" <=> cpc = "dead") /\ (cpc' = "write" <=> cpc = "write")
      /\ (cpc' \in {"map", "reset", "clone"} \/ cpc \in {"map", "reset", "clone", "cleanup"} => cpc' = cpc)
      /\ (cpc' \in Receiving <=> cpc \in Receiving)
      /\ (cpc' \in Joining => cpc \in Joining \cup {"cancel", "cancel_wake"})
      /\ (cpc' = "cleanup" <=> cpc = "cleanup")
      /\ (cpc' \in {"cancel", "cancel_wake"} => cpc \in {"cancel", "cancel_wake"})
  BY DEF SameStage, Receiving, Joining
<1>5. cpc' = "dead" <=> status' # "running"
  BY <1>2, <1>4 DEF Pending
<1>6. cpc' \in {"map", "reset", "clone"} => Begun(Argv, out, Phase(wave, 1))'
  BY <1>1, <1>2, <1>3, <1>4 DEF Pending, Begun, Fine, Index
<1>7. cpc' = "clone" => \A l \in Lanes : l < cl' => Consumed(l)' = 0
  <2> SUFFICES ASSUME cpc' = "clone", NEW l \in Lanes, l < cl' PROVE Consumed(l)' = 0
    OBVIOUS
  <2>1. cpc = "clone" /\ cl' = cl
    BY <1>4
  <2>2. l \in WaveLanes(wave)
    BY <2>1, WavePhases DEF Handoff, Protocol, Control, WaveLanes, Lanes
  <2>3. QED
    BY <1>2, <2>1, <2>2 DEF Pending
<1>8. cpc' \in Receiving => \A l \in WaveLanes(wave) : (l = cl' => Due(l)') /\ (l > cl' => Consumed(l)' = 0)
  <2> SUFFICES ASSUME cpc' \in Receiving, NEW l \in WaveLanes(wave)
               PROVE  (l = cl' => Due(l)') /\ (l > cl' => Consumed(l)' = 0)
    OBVIOUS
  <2>1. cpc \in Receiving /\ cl' = cl /\ Consumed(l)' = Consumed(l)
    BY <1>4
  <2>2. (l = cl => Due(l)) /\ (l > cl => Consumed(l) = 0)
    BY <1>2, <2>1 DEF Pending
  <2>3. Due(l) => Due(l)'
    BY <1>1, <1>3, <1>4, <2>1 DEF Due, Fine, Index
  <2>4. QED
    BY <2>1, <2>2, <2>3
<1>9. cpc' = "write" => sent' \in Nat /\ \A l \in Lanes : l = cl' => sent' <= BatchUnits(l)'
  <2>1. cpc' = "write" => cpc = "write" /\ cl' = cl
    BY <1>4 DEF Receiving
  <2>2. QED
    BY <1>2, <2>1 DEF Pending, BatchUnits
<1>10. cpc' \in Joining /\ header' = 0 => Begun(Argv, out, Phase(wave, LastLane(wave)) + 1)'
  <2>1. header = 0 => cpc \notin {"cancel", "cancel_wake"}
    BY DEF Handoff, Protocol, Cancellation
  <2>2. QED
    BY <1>1, <1>2, <1>3, <1>4, <2>1 DEF Pending, Begun, Fine, Index
<1>11. cpc' = "cleanup" /\ header' = 0 => Begun(Argv, out, NumPhases + 1)'
  BY <1>1, <1>2, <1>4 DEF Pending, Begun, Fine, Index
<1>12. cpc' \in {"cancel", "cancel_wake"} \/ (cpc' \in Joining \cup {"cleanup"} /\ header' # 0) =>
          fault' = "yes" \/ Complete(Argv, out)'
  <2>1. cpc \in {"cancel", "cancel_wake"} => header = 1
    BY DEF Handoff, Protocol, Cancellation
  <2>2. QED
    BY <1>1, <1>2, <1>4, <2>1 DEF Pending, Complete
<1>13. QED
  BY <1>2, <1>3, <1>5, <1>6, <1>7, <1>8, <1>9, <1>10, <1>11, <1>12 DEF Pending

\* So does what admission says.
LEMMA StageAdmission ==
    ASSUME Ordered, SameStage, UNCHANGED <<input, out, wave, admitted>>,
           cpc \in {"clone"} \cup Receiving => cl' = cl
    PROVE  Admission'
<1>1. Argv' = Argv
  BY SameArgv
<1>2. /\ cpc' = "clone" => cpc = "clone"
      /\ cpc' \in Receiving => cpc \in Receiving
  BY DEF SameStage, Receiving, Joining
<1>3. QED
  BY <1>1, <1>2 DEF Ordered, Admission, Index, LastLane, LaneCount, Phase

\* Every step of a worker keeps what is known, and prints nothing.
LEMMA WorkerOrdered ==
    ASSUME Handoff, Ordered, NEW k \in Lanes, WorkerStep(k)
    PROVE  Ordered' /\ UNCHANGED <<input, out, fault, status>>
<1>1. Private /\ Found /\ Pending /\ Content /\ input \in NativeInputs
  BY DEF Ordered
<1>2. /\ UNCHANGED <<input, out, fault, status, wave, cl, admitted, sent, header>>
      /\ wpc[k] # "off" /\ cpc # "dead" /\ k \in WaveLanes(wave)
      /\ \/ cpc' = cpc
         \/ cpc = "asleep" /\ cpc' = "receive"
         \/ cpc = "join_asleep" /\ cpc' = "join"
  BY <1>1, WorkerFrame
<1>3. /\ \A l \in WaveLanes(wave) : l \in Lanes /\ Phase(wave, l) \in Phases
      /\ WaveLanes(wave)' = WaveLanes(wave) /\ \A l : Phase(wave, l)' = Phase(wave, l)
  BY <1>2, WavePhases DEF WaveLanes, Phase, LastLane, LaneCount
<1>4. Findings(k, Phase(wave, k)) /\ Phase(wave, k) \in Phases
  BY <1>1, <1>2, <1>3 DEF Found
<1>5. ASSUME NEW p \in Phases, p = Phase(wave, k)
      PROVE  /\ Findings(k, p)'
             /\ state[k] # "CANCEL" => Consumed(k)' = Consumed(k)
             /\ state[k] = "READY" => buf'[k] = buf[k]
  BY <1>1, <1>4, <1>5, WorkerFinds
<1>6. ASSUME NEW l \in WaveLanes(wave), l # k, NEW p, p = Phase(wave, l)
      PROVE  Findings(l, p)' /\ Consumed(l)' = Consumed(l)
  <2>1. Findings(l, p) /\ l \in Lanes \ {k}
    BY <1>1, <1>3, <1>6 DEF Found
  <2>2. /\ state'[l] = state[l] /\ lstat'[l] = lstat[l] /\ buf'[l] = buf[l]
        /\ wpc'[l] = wpc[l] /\ rec'[l] = rec[l] /\ sticky'[l] = sticky[l]
        /\ resume'[l] = resume[l]
    BY <1>1, <2>1, WorkerFrame
  <2>3. cpc' = "reset" <=> cpc = "reset"
    BY <1>2
  <2>4. QED
    BY <1>2, <2>1, <2>2, <2>3, LaneUntouched
<1>7. Found'
  <2> SUFFICES ASSUME NEW l \in WaveLanes(wave), NEW p, p = Phase(wave, l) PROVE Findings(l, p)'
    BY <1>2, <1>3 DEF Found, Phase
  <2>1. p \in Phases
    BY <1>3
  <2>2. QED
    BY <1>5, <1>6, <2>1
<1>8. Private'
  BY <1>1, WorkerPrivate
<1>9. SameStage
  BY <1>2 DEF SameStage, Receiving, Joining
<1>10. cpc \in {"clone"} \cup Receiving => \A l \in WaveLanes(wave) : Consumed(l)' = Consumed(l)
  <2>1. cpc \in {"clone"} \cup Receiving => state[k] # "CANCEL"
    BY DEF Handoff, Protocol, Cancellation, Receiving
  <2>2. QED
    BY <1>4, <1>5, <1>6, <2>1
<1>11. cpc = "write" => \A l \in Lanes : l = cl => buf'[l] = buf[l]
  <2>1. cpc = "write" => state[cl] = "READY"
    BY DEF Handoff, Protocol, Coordination
  <2>2. \A l \in Lanes \ {k} : buf'[l] = buf[l]
    BY <1>1, WorkerFrame
  <2>3. QED
    BY <1>4, <1>5, <2>1, <2>2
<1>12. Pending' /\ Content'
  BY <1>2, <1>9, <1>10, <1>11, StagePending
<1>13. Admission'
  BY <1>2, <1>9, StageAdmission
<1>14. QED
  BY <1>1, <1>2, <1>7, <1>8, <1>12, <1>13 DEF Ordered

-----------------------------------------------------------------------------
(* The coordinator and the host. *)

\* The coordinator starts, wakes, empties or cancels lanes; what their workers
\* have found out stands.
LEMMA FoundKept ==
    ASSUME Handoff, Ordered, cpc # "dead", UNCHANGED <<input, wave, rec, sticky, lstat, buf, resume>>,
           \A l \in WaveLanes(wave) :
              /\ \/ wpc'[l] = wpc[l] \/ wpc'[l] \in {"off", "start"}
                 \/ wpc[l] = "asleep" /\ wpc'[l] = "await"
              /\ state'[l] \in {state[l], "EMPTY", "CANCEL"}
              /\ wpc'[l] = "start" => state'[l] # "READY"
              /\ cpc # "reset" \/ cpc' = "reset" \/ state'[l] = "EMPTY"
    PROVE  Found' /\ Private'
<1>1. Argv' = Argv /\ ResultBatch' = ResultBatch
  BY SameArgv
<1>2. /\ Private /\ Found /\ WaveLanes(wave) \subseteq Lanes
  BY WavePhases DEF Ordered
<1>3. WaveLanes(wave)' = WaveLanes(wave) /\ \A l : Phase(wave, l)' = Phase(wave, l)
  BY DEF WaveLanes, Phase, LastLane, LaneCount
<1>4. ASSUME NEW l \in WaveLanes(wave), NEW p, Findings(l, p) PROVE Findings(l, p)'
  <2>1. /\ \/ wpc'[l] = wpc[l] \/ wpc'[l] \in {"off", "start"}
           \/ wpc[l] = "asleep" /\ wpc'[l] = "await"
        /\ state'[l] \in {state[l], "EMPTY", "CANCEL"}
        /\ cpc # "reset" \/ cpc' = "reset" \/ state'[l] = "EMPTY"
    OBVIOUS
  <2>2. Fits(wpc[l], state[l])
    BY <1>2 DEF Handoff, Protocol, LaneProtocol
  <2>3. Scanned(l, p)'
    BY <1>4, <2>1 DEF Findings, Scanned
  <2>4. Working(l, p)'
    BY <1>1, <1>4, <2>1 DEF Findings, Working, Parked
  <2>5. Filled(l)' /\ wpc'[l] # "start" => Filled(l) /\ wpc[l] # "start"
    BY <1>1, <2>1, <2>2 DEF Filled, Fits, Producing
  <2>6. Batched(l, p)'
    BY <1>4, <2>5 DEF Findings, Batched
  <2>7. (Ending(l)' => Ending(l)) /\ (Erring(l)' => Erring(l))
    BY <2>1 DEF Ending, Erring, Parked
  <2>8. Concluded(l, p)'
    BY <1>1, <1>4, <2>7 DEF Findings, Concluded
  <2>9. QED
    BY <2>3, <2>4, <2>6, <2>8 DEF Findings
<1>5. Found'
  <2> SUFFICES ASSUME NEW l \in WaveLanes(wave), NEW p, p = Phase(wave, l) PROVE Findings(l, p)'
    BY <1>3 DEF Found, Phase
  <2>1. Findings(l, p)
    BY <1>2 DEF Found
  <2>2. QED
    BY <1>4, <2>1
<1>6. Private'
  BY <1>2 DEF Private
<1>7. QED
  BY <1>5, <1>6

\* A step within a stage that wakes at most a sleeping worker.
LEMMA QuietOrdered ==
    ASSUME Handoff, Ordered, SameStage, cpc # "dead",
           UNCHANGED <<input, out, status, wave, header, admitted, sent, state, rec, sticky, lstat, buf, resume>>,
           fault' \in {fault, "yes"},
           cpc \in {"clone"} \cup Receiving => cl' = cl,
           cpc # "reset" \/ cpc' = "reset",
           \A l \in Lanes : wpc'[l] = wpc[l] \/ (wpc[l] = "asleep" /\ wpc'[l] = "await")
    PROVE  Ordered'
<1>1. WaveLanes(wave) \subseteq Lanes /\ input' \in NativeInputs
  BY WavePhases DEF Ordered
<1>2. ASSUME NEW l \in WaveLanes(wave)
      PROVE  /\ \/ wpc'[l] = wpc[l] \/ wpc'[l] \in {"off", "start"}
                \/ wpc[l] = "asleep" /\ wpc'[l] = "await"
             /\ state'[l] \in {state[l], "EMPTY", "CANCEL"}
             /\ wpc'[l] = "start" => state'[l] # "READY"
             /\ cpc # "reset" \/ cpc' = "reset" \/ state'[l] = "EMPTY"
  <2>1. Fits(wpc[l], state[l])
    BY <1>1 DEF Handoff, Protocol, LaneProtocol
  <2>2. QED
    BY <1>1, <2>1 DEF Fits, Producing
<1>3. Found' /\ Private'
  BY <1>2, FoundKept
<1>4. \A l \in WaveLanes(wave) : Consumed(l)' = Consumed(l)
  <2> SUFFICES ASSUME NEW l \in WaveLanes(wave) PROVE Consumed(l)' = Consumed(l)
    OBVIOUS
  <2>1. wpc'[l] = wpc[l] \/ (wpc[l] = "asleep" /\ wpc'[l] = "await")
    BY <1>1
  <2>2. ResultBatch' = ResultBatch
    BY SameArgv
  <2>3. QED
    BY <2>1, <2>2 DEF Consumed, Filled
<1>5. Pending' /\ Content'
  BY <1>4, StagePending
<1>6. Admission'
  BY StageAdmission
<1>7. QED
  BY <1>1, <1>3, <1>5, <1>6 DEF Ordered

\* What the abstract specification makes of a step.
Refined == [Published!Next]_(Published!vars)

\* A step without output that is not the last one: at most a fault.
LEMMA SilentRefines ==
    ASSUME input \in NativeInputs, UNCHANGED <<input, out, status>>,
           fault' = fault \/ (fault' = "yes" /\ status = "running")
    PROVE  Refined
BY SameArgv DEF Refined, Published!Next, Published!Fault, Published!vars

\* The steps of the coordinator and the host that only move along.

\* The process runs until the coordinator is dead.
LEMMA StillRunning ==
    ASSUME Ordered, cpc # "dead"
    PROVE  status = "running"
BY DEF Ordered, Pending

\* The steps that only move along.
LEMMA MovesOrdered ==
    ASSUME Handoff, Ordered,
           \/ ReceiveEmpty \/ Block \/ Wake \/ CancelWake \/ JoinDone \/ JoinWait \/ JoinBlock
           \/ Interrupted \/ JoinInterrupted \/ \E k \in Lanes : WorkerInterrupted(k)
    PROVE  Ordered' /\ Refined
<1>1. wpc \in [Lanes -> WorkerPcs] /\ cpc \in CoordinatorPcs
  BY DEF Handoff, Protocol, Control
<1>2. /\ SameStage /\ cpc # "dead"
      /\ UNCHANGED <<input, out, status, fault, wave, header, admitted, sent, state, rec, sticky, lstat, buf, resume>>
      /\ cpc \in {"clone"} \cup Receiving => cl' = cl
      /\ cpc # "reset" \/ cpc' = "reset"
      /\ \A l \in Lanes : wpc'[l] = wpc[l] \/ (wpc[l] = "asleep" /\ wpc'[l] = "await")
  <2>1. CASE ReceiveEmpty \/ Block \/ Interrupted \/ JoinWait \/ JoinBlock \/ JoinInterrupted
    BY <2>1 DEF ReceiveEmpty, Block, Interrupted, JoinWait, JoinBlock, JoinInterrupted, CoordinatorGoto,
                host, lane, worker, SameStage, Receiving, Joining
  <2>2. CASE Wake \/ CancelWake
    <3>1. wpc' = [wpc EXCEPT ![cl] = IF @ = "asleep" THEN "await" ELSE @]
      BY <2>2 DEF Wake, CancelWake, WakeWorker
    <3>2. \A l \in Lanes : wpc'[l] = wpc[l] \/ (wpc[l] = "asleep" /\ wpc'[l] = "await")
      BY <1>1, <3>1
    <3>3. \/ cpc = "wake" /\ cpc' = "receive" /\ cl' = cl
          \/ cpc = "cancel_wake" /\ cpc' \in {"cancel", "join"}
      BY <2>2 DEF Wake, CancelWake
    <3>4. QED
      BY <2>2, <3>2, <3>3 DEF Wake, CancelWake, host, lane, SameStage, Receiving, Joining
  <2>3. CASE JoinDone
    BY <2>3 DEF JoinDone, host, lane, worker, SameStage, Receiving, Joining
  <2>4. ASSUME NEW k \in Lanes, WorkerInterrupted(k)
        PROVE  /\ SameStage /\ cpc # "dead"
               /\ UNCHANGED <<input, out, status, fault, wave, header, admitted, sent, state, rec,
                              sticky, lstat, buf, resume>>
               /\ cpc \in {"clone"} \cup Receiving => cl' = cl
               /\ cpc # "reset" \/ cpc' = "reset"
               /\ \A l \in Lanes : wpc'[l] = wpc[l] \/ (wpc[l] = "asleep" /\ wpc'[l] = "await")
    <3>1. wpc[k] = "asleep" /\ cpc # "dead"
      BY <2>4 DEF WorkerInterrupted, Handoff, Protocol, Coordination
    <3>2. QED
      BY <1>1, <2>4, <3>1 DEF WorkerInterrupted, WorkerGoto, host, coord, lane, SameStage
  <2>5. QED
    BY <2>1, <2>2, <2>3, <2>4
<1>3. Ordered'
  BY <1>2, QuietOrdered
<1>4. QED
  BY <1>2, <1>3, SilentRefines DEF Ordered

\* exit_group on account of a refused call.
LEMMA ExitOrdered ==
    ASSUME Handoff, Ordered, cpc \notin {"dead", "reset"}, ExitGroup("failed"), fault' = "yes",
           UNCHANGED <<input, out, wave, admitted, state, rec, sticky, lstat, buf, resume>>
    PROVE  Ordered' /\ Refined
<1>1. Argv' = Argv /\ input' \in NativeInputs
  BY SameArgv DEF Ordered
<1>2. cpc' = "dead" /\ status' = "failed" /\ status = "running" /\ \A l \in Lanes : wpc'[l] = "off"
  BY StillRunning DEF ExitGroup
<1>3. Content'
  BY <1>1 DEF Ordered, Content
<1>4. WaveLanes(wave) \subseteq Lanes
  BY WavePhases
<1>5. Found' /\ Private'
  BY <1>2, <1>4, FoundKept
<1>6. Pending'
  BY <1>2 DEF Pending, Receiving, Joining
<1>7. Admission'
  BY <1>1, <1>2 DEF Ordered, Admission, Receiving, Index, LastLane, LaneCount, Phase
<1>8. Published!GiveUp
  BY <1>1, <1>2 DEF Published!GiveUp
<1>9. QED
  BY <1>1, <1>3, <1>5, <1>6, <1>7, <1>8 DEF Ordered, Refined, Published!Next

\* Cancellation begins, because of a fault or because a phase has failed and all
\* of its output is out.
LEMMA CancelOrdered ==
    ASSUME Handoff, Ordered, cpc \in {"clone"} \cup Receiving, BeginCancel,
           fault' \in {fault, "yes"}, fault' = "yes" \/ Complete(Argv, out)
    PROVE  Ordered' /\ Refined
<1>1. Argv' = Argv /\ input' \in NativeInputs
  BY SameArgv DEF Ordered, BeginCancel
<1>2. /\ UNCHANGED <<input, admitted, out, status, wave, lane, worker>>
      /\ cpc' = "cancel" /\ header' = 1
  BY DEF BeginCancel
<1>3. Content'
  BY <1>1, <1>2 DEF Ordered, Content
<1>4. WaveLanes(wave) \subseteq Lanes /\ cpc # "dead" /\ cpc # "reset"
  BY WavePhases DEF Receiving
<1>5. Found' /\ Private'
  <2>1. \A l \in WaveLanes(wave) : wpc[l] = "start" => state[l] # "READY"
    BY <1>4 DEF Handoff, Protocol, LaneProtocol, Fits, Producing
  <2>2. QED
    BY <1>2, <1>4, <2>1, FoundKept DEF lane, worker
<1>6. Pending'
  <2>1. status = "running"
    BY <1>4, StillRunning
  <2>2. Complete(Argv, out)' <=> Complete(Argv, out)
    BY <1>1, <1>2 DEF Complete
  <2>3. QED
    BY <1>2, <2>1, <2>2 DEF Pending, Receiving, Joining
<1>7. Admission'
  BY <1>1, <1>2 DEF Ordered, Admission, Receiving, Index, LastLane, LaneCount, Phase
<1>8. Refined
  BY <1>2, <1>4, StillRunning, SilentRefines DEF Ordered
<1>9. QED
  BY <1>1, <1>3, <1>5, <1>6, <1>7, <1>8 DEF Ordered

\* A refused call of the mapping, of a futex, of clone or of write.
LEMMA FaultOrdered ==
    ASSUME Handoff, Ordered, MapFails \/ SyncFails \/ CloneFails \/ WriteFails
    PROVE  Ordered' /\ Refined
<1>1. CASE MapFails
  <2>1. cpc = "map" /\ fault' = "yes" /\ status = "running"
        /\ UNCHANGED <<input, admitted, out, wave, cl, sent, protocol, lane, rec, sticky, resume>>
    BY <1>1, StillRunning DEF MapFails
  <2>2. CASE ExitGroup("failed")
    BY <2>1, <2>2, ExitOrdered DEF lane
  <2>3. CASE header' = 1 /\ cpc' = "cleanup" /\ UNCHANGED <<status, wpc>>
    <3>1. Argv' = Argv /\ input' \in NativeInputs
      BY <2>1, SameArgv DEF Ordered
    <3>2. Content'
      BY <2>1, <3>1 DEF Ordered, Content
    <3>3. Found' /\ Private'
      <4>1. \A l \in WaveLanes(wave) : wpc[l] = "start" => state[l] # "READY"
        BY <2>1, WavePhases DEF Handoff, Protocol, LaneProtocol, Fits, Producing
      <4>2. QED
        BY <2>1, <2>3, <4>1, FoundKept DEF lane
    <3>4. Pending'
      BY <2>1, <2>3 DEF Pending, Receiving, Joining
    <3>5. Admission'
      BY <2>1, <2>3, <3>1 DEF Ordered, Admission, Receiving, Index, LastLane, LaneCount, Phase
    <3>6. Refined
      BY <2>1, <2>3, SilentRefines DEF Ordered
    <3>7. QED
      BY <3>1, <3>2, <3>3, <3>4, <3>5, <3>6 DEF Ordered
  <2>4. QED
    BY <1>1, <2>2, <2>3 DEF MapFails
<1>2. CASE SyncFails
  <2>1. cpc \notin {"dead", "reset"}
    BY <1>2 DEF SyncFails, Handoff, Protocol, Coordination, LiveThreads, Threads
  <2>2. QED
    BY <1>2, <2>1, ExitOrdered DEF SyncFails, lane
<1>3. CASE CloneFails \/ WriteFails
  BY <1>3, CancelOrdered DEF CloneFails, WriteFails, Receiving
<1>4. QED
  BY <1>1, <1>2, <1>3

\* The mapping is made: still nothing of the wave is out.
LEMMA MapOrdered ==
    ASSUME Handoff, Ordered, Map
    PROVE  Ordered' /\ Refined
<1>1. /\ cpc = "map" /\ cpc' = "reset"
      /\ UNCHANGED <<input, admitted, host, wave, cl, sent, header, protocol, lane, worker>>
  BY DEF Map, CoordinatorGoto
<1>2. Argv' = Argv /\ input' \in NativeInputs
  BY <1>1, SameArgv DEF Ordered
<1>3. Content'
  BY <1>1, <1>2 DEF Ordered, Content, host
<1>4. Found' /\ Private'
  <2>1. \A l \in WaveLanes(wave) : wpc[l] = "start" => state[l] # "READY"
    BY <1>1, WavePhases DEF Handoff, Protocol, LaneProtocol, Fits, Producing
  <2>2. QED
    BY <1>1, <2>1, FoundKept DEF lane, worker
<1>5. Pending'
  <2>1. Begun(Argv, out, Phase(wave, 1)) /\ status = "running"
    BY <1>1, StillRunning DEF Ordered, Pending
  <2>2. Begun(Argv, out, Phase(wave, 1))'
    BY <1>1, <1>2, <2>1 DEF Begun, Fine, Index, Phase, host
  <2>3. QED
    BY <1>1, <2>1, <2>2 DEF Pending, Receiving, Joining, host
<1>6. Admission'
  BY <1>1, <1>2 DEF Ordered, Admission, Receiving, Index, LastLane, LaneCount, Phase, host
<1>7. Refined
  BY <1>1, SilentRefines DEF Ordered, host
<1>8. QED
  BY <1>2, <1>3, <1>4, <1>5, <1>6, <1>7 DEF Ordered

\* The records of a lane nobody touched.
LEMMA ConsumedSame ==
    ASSUME input' = input, NEW l, wpc'[l] = wpc[l], state'[l] = state[l], buf'[l] = buf[l], rec'[l] = rec[l]
    PROVE  Consumed(l)' = Consumed(l)
<1>1. ResultBatch' = ResultBatch
  BY SameArgv
<1>2. QED
  BY <1>1 DEF Consumed, Filled

\* The lanes of the wave are set EMPTY.
LEMMA ResetOrdered ==
    ASSUME Handoff, Ordered, Reset
    PROVE  Ordered' /\ Refined
<1>1. /\ cpc = "reset" /\ cpc' = "clone" /\ cl' = 1 /\ admitted' = 0
      /\ UNCHANGED <<input, out, fault, status, wave, sent, header, lstat, buf, wpc, rec, sticky, resume>>
      /\ \A l \in WaveLanes(wave) : state'[l] = "EMPTY"
  BY WavePhases DEF Reset, host, worker
<1>2. Argv' = Argv /\ input' \in NativeInputs
  BY <1>1, SameArgv DEF Ordered
<1>3. Content'
  BY <1>1, <1>2 DEF Ordered, Content
<1>4. Found' /\ Private'
  BY <1>1, FoundKept
<1>5. Begun(Argv, out, Phase(wave, 1)) /\ status = "running"
  BY <1>1, StillRunning DEF Ordered, Pending
<1>6. Begun(Argv, out, Phase(wave, 1))'
  BY <1>1, <1>2, <1>5 DEF Begun, Fine, Index, Phase
<1>7. Pending'
  <2>1. \A l \in Lanes : ~(l < cl')
    BY <1>1, WavePhases DEF Lanes
  <2>2. QED
    BY <1>1, <1>5, <1>6, <2>1 DEF Pending, Receiving, Joining
<1>8. Admission'
  BY <1>1, <1>6 DEF Admission, Begun, Receiving
<1>9. Refined
  BY <1>1, SilentRefines DEF Ordered
<1>10. QED
  BY <1>2, <1>3, <1>4, <1>7, <1>8, <1>9 DEF Ordered

\* The lane the coordinator is at is a lane of the wave.
LEMMA CurrentLane ==
    ASSUME Handoff
    PROVE  /\ wave \in Nat /\ LastLane(wave) \in Nat /\ LaneCount \in Nat /\ cl \in Nat /\ cl >= 1
           /\ cl <= LastLane(wave) /\ cl \in WaveLanes(wave) /\ cl \in Lanes
           /\ WaveLanes(wave) = 1..LastLane(wave)
           /\ WaveLanes(wave) \subseteq Lanes /\ wpc \in [Lanes -> WorkerPcs]
           /\ state \in [Lanes -> States]
<1>1. wave \in Nat /\ LaneCount \in Nat /\ LastLane(wave) \in 1..LaneCount
  BY WavePhases
<1>2. cl \in 1..LastLane(wave) /\ wpc \in [Lanes -> WorkerPcs] /\ state \in [Lanes -> States]
  BY DEF Handoff, Protocol, Control
<1>3. QED
  BY <1>1, <1>2 DEF WaveLanes, Lanes

\* One more thread of the wave; the last one opens the publication.
LEMMA CloneOrdered ==
    ASSUME Handoff, Ordered, Clone
    PROVE  Ordered' /\ Refined
<1>0. /\ wave \in Nat /\ LastLane(wave) \in Nat /\ LaneCount \in Nat /\ cl \in Nat /\ cl >= 1
      /\ cl <= LastLane(wave) /\ cl \in WaveLanes(wave) /\ cl \in Lanes
      /\ WaveLanes(wave) = 1..LastLane(wave)
      /\ WaveLanes(wave) \subseteq Lanes /\ wpc \in [Lanes -> WorkerPcs]
  BY CurrentLane
<1>1. /\ cpc = "clone" /\ wpc' = [wpc EXCEPT ![cl] = "start"] /\ admitted' = admitted + 1
      /\ \/ cl < LastLane(wave) /\ cl' = cl + 1 /\ cpc' = "clone"
         \/ ~(cl < LastLane(wave)) /\ cl' = 1 /\ cpc' = "receive"
      /\ UNCHANGED <<input, out, fault, status, wave, sent, header, state, lstat, buf, rec, sticky, resume>>
  BY DEF Clone, host
<1>2. Argv' = Argv /\ input' \in NativeInputs
  BY <1>1, SameArgv DEF Ordered
<1>3. Content'
  BY <1>1, <1>2 DEF Ordered, Content
<1>4. wpc'[cl] = "start" /\ \A l \in Lanes : l # cl => wpc'[l] = wpc[l]
  BY <1>0, <1>1
<1>5. Found' /\ Private'
  <2>1. state[cl] = "EMPTY"
    BY <1>0, <1>1 DEF Handoff, Protocol, LiveThreads, Threads
  <2>2. \A l \in WaveLanes(wave) : wpc[l] = "start" => state[l] # "READY"
    BY <1>0, <1>1 DEF Handoff, Protocol, LaneProtocol, Fits, Producing
  <2>3. \A l \in WaveLanes(wave) : wpc'[l] = wpc[l] \/ (l = cl /\ wpc'[l] = "start")
    BY <1>0, <1>4
  <2>4. QED
    BY <1>1, <2>1, <2>2, <2>3, FoundKept
<1>6. Begun(Argv, out, Phase(wave, 1)) /\ status = "running" /\ admitted = cl - 1 /\ admitted \in Nat
  BY <1>1, StillRunning DEF Ordered, Pending, Admission
<1>7. Begun(Argv, out, Phase(wave, 1))'
  BY <1>1, <1>2, <1>6 DEF Begun, Fine, Index, Phase
<1>8. \A l \in Lanes : l <= cl => Consumed(l)' = 0
  <2> SUFFICES ASSUME NEW l \in Lanes, l <= cl PROVE Consumed(l)' = 0
    OBVIOUS
  <2>1. CASE l = cl
    BY <1>4, <2>1 DEF Consumed
  <2>2. CASE l # cl
    <3>1. l < cl
      BY <1>0, <2>2 DEF Lanes
    <3>2. Consumed(l) = 0
      BY <1>1, <3>1 DEF Ordered, Pending
    <3>3. QED
      BY <1>1, <1>4, <2>2, <3>2, ConsumedSame
  <2>3. QED
    BY <2>1, <2>2
<1>9. CASE cl < LastLane(wave) /\ cl' = cl + 1 /\ cpc' = "clone"
  <2>1. \A l \in Lanes : l < cl' => Consumed(l)' = 0
    <3>1. \A l \in Lanes : l < cl' => l <= cl
      BY <1>0, <1>9 DEF Lanes
    <3>2. QED
      BY <1>8, <3>1
  <2>2. Pending'
    BY <1>1, <1>6, <1>7, <1>9, <2>1 DEF Pending, Receiving, Joining
  <2>3. admitted' \in Nat /\ admitted' = cl' - 1
    BY <1>0, <1>1, <1>6, <1>9
  <2>4. Admission'
    BY <1>7, <1>9, <2>3 DEF Admission, Begun, Receiving
  <2>5. QED
    BY <1>1, <1>2, <1>3, <1>5, <2>2, <2>4, SilentRefines DEF Ordered
<1>10. CASE ~(cl < LastLane(wave)) /\ cl' = 1 /\ cpc' = "receive"
  <2>1. \A l \in WaveLanes(wave) : Consumed(l)' = 0
    <3>1. \A l \in WaveLanes(wave) : l <= cl
      BY <1>0, <1>10
    <3>2. QED
      BY <1>0, <1>8, <3>1
  <2>2. \A l \in WaveLanes(wave) : l = cl' => Due(l)'
    <3> SUFFICES ASSUME NEW l \in WaveLanes(wave), l = 1 PROVE Due(l)'
      BY <1>10
    <3>1. Consumed(l)' = 0 /\ Fine(Argv, Phase(wave, l))' /\ Len(out)' = Index(Argv, Phase(wave, l), 0)'
      BY <1>7, <2>1 DEF Begun, Index, Fine, Phase
    <3>2. Index(Argv, Phase(wave, l), 0)' \in Int
      <4>1. Len(out)' \in Nat
        BY <1>3 DEF Content
      <4>2. QED
        BY <3>1, <4>1
    <3>3. QED
      BY <1>10, <3>1, <3>2 DEF Due
  <2>3. WaveLanes(wave)' = WaveLanes(wave) /\ LastLane(wave)' = LastLane(wave)
    BY <1>1 DEF WaveLanes, LastLane, Phase, LaneCount
  <2>4. Pending'
    BY <1>1, <1>6, <1>10, <2>1, <2>2, <2>3 DEF Pending, Receiving, Joining
  <2>5. admitted' \in Nat /\ admitted' >= LastLane(wave)'
    BY <1>0, <1>1, <1>6, <1>10, <2>3
  <2>6. Admission'
    BY <1>7, <1>10, <2>5 DEF Admission, Begun, Receiving
  <2>7. QED
    BY <1>1, <1>2, <1>3, <1>5, <2>4, <2>6, SilentRefines DEF Ordered
<1>11. QED
  BY <1>1, <1>9, <1>10

\* The places of consecutive records and phases.
LEMMA Places ==
    ASSUME NEW i \in Published!Inputs, NEW p \in Phases, NEW g \in Nat, NEW m \in Nat
    PROVE  /\ Index(i, p, g) \in Nat /\ Index(i, p, g + m) \in Nat
           /\ Index(i, p, g + m) = Index(i, p, g) + (m * Units)
           /\ Index(i, p, i.n) = Index(i, p + 1, 0)
<1>1. /\ Units \in Nat \ {0} /\ i.n \in Nat /\ p \in Nat /\ p - 1 \in Nat
  BY ConcurrentAssumption, InputShape DEF Phases
<1>2. Published!PhaseUnits(i) = i.n * Units
  BY DEF Published!PhaseUnits
<1>3. PICK N \in Nat : N = i.n * Units
  BY <1>1
<1>4. (p - 1) * N \in Nat /\ g * Units \in Nat /\ (g + m) * Units = g * Units + m * Units
      /\ m * Units \in Nat /\ ((p + 1) - 1) * N = (p - 1) * N + N /\ 0 * Units = 0
  BY <1>1, <1>3
<1>5. /\ Index(i, p, g) = (p - 1) * N + g * Units
      /\ Index(i, p, g + m) = (p - 1) * N + (g + m) * Units
      /\ Index(i, p, i.n) = (p - 1) * N + N
      /\ Index(i, p + 1, 0) = ((p + 1) - 1) * N + 0 * Units
  BY <1>2, <1>3 DEF Index
<1>6. QED
  BY <1>1, <1>3, <1>4, <1>5

\* The lane is READY: its batch is about to be written.
LEMMA ReadyOrdered ==
    ASSUME Handoff, Ordered, ReceiveReady
    PROVE  Ordered' /\ Refined
<1>0. cl \in WaveLanes(wave) /\ cl \in Lanes /\ WaveLanes(wave) \subseteq Lanes
  BY CurrentLane
<1>1. Len(buf[cl]) <= ResultBatch /\ Len(buf[cl]) \in Nat
  BY <1>0 DEF Handoff, BatchRoom
<1>2. /\ cpc = "receive" /\ cpc' = "write" /\ sent' = 0
      /\ UNCHANGED <<input, admitted, out, fault, status, wave, cl, header, lane, worker>>
  BY <1>1 DEF ReceiveReady
<1>3. Argv' = Argv /\ input' \in NativeInputs
  BY <1>2, SameArgv DEF Ordered
<1>4. Content'
  BY <1>2, <1>3 DEF Ordered, Content
<1>5. Found' /\ Private'
  <2>1. \A l \in WaveLanes(wave) : wpc[l] = "start" => state[l] # "READY"
    BY <1>0, <1>2 DEF Handoff, Protocol, LaneProtocol, Fits, Producing
  <2>2. QED
    BY <1>2, <2>1, FoundKept DEF lane, worker
<1>6. \A l \in WaveLanes(wave) : Consumed(l)' = Consumed(l)
  BY <1>2, ConsumedSame DEF lane, worker
<1>7. \A l \in WaveLanes(wave) : (l = cl => Due(l)') /\ (l > cl => Consumed(l)' = 0)
  <2>1. \A l \in WaveLanes(wave) : (l = cl => Due(l)) /\ (l > cl => Consumed(l) = 0)
    BY <1>2 DEF Ordered, Pending, Receiving
  <2>2. ASSUME NEW l \in WaveLanes(wave), l = cl PROVE Due(l)'
    <3>1. Fine(Argv, Phase(wave, l))' /\ Phase(wave, l)' = Phase(wave, l)
      BY <1>2, <1>3, <2>1, <2>2 DEF Due, Fine, Phase
    <3>2. PICK x : x = Index(Argv, Phase(wave, l), Consumed(l)) /\ Len(out) = x + 0
      BY <1>2, <2>1, <2>2 DEF Due
    <3>3. Index(Argv, Phase(wave, l), Consumed(l))' = x
      BY <1>3, <1>6, <3>1, <3>2 DEF Index
    <3>4. Len(out') = x + 0
      BY <1>2, <3>2
    <3>5. QED
      BY <1>2, <3>1, <3>3, <3>4 DEF Due
  <2>3. QED
    BY <1>6, <2>1, <2>2
<1>8. 0 <= BatchUnits(cl)'
  <2>1. Len(buf[cl]) * Units >= 0
    BY <1>1, ConcurrentAssumption
  <2>2. QED
    BY <1>2, <2>1 DEF BatchUnits, lane
<1>9. WaveLanes(wave)' = WaveLanes(wave)
  BY <1>2 DEF WaveLanes, LastLane, LaneCount, Phase
<1>10. status = "running"
  BY <1>2, StillRunning
<1>11. Pending'
  BY <1>2, <1>7, <1>8, <1>9, <1>10 DEF Pending, Receiving, Joining
<1>12. Admission'
  BY <1>2, <1>3 DEF Ordered, Admission, Receiving, Index, LastLane, LaneCount, Phase
<1>13. Refined
  BY <1>2, SilentRefines DEF Ordered
<1>14. QED
  BY <1>3, <1>4, <1>5, <1>11, <1>12, <1>13 DEF Ordered

\* What precedes a batch: the records a lane has found, less those in it.
LEMMA Before ==
    \A x, a \in Nat : \E m \in Nat, g \in Int : m = x /\ g = (a - 1) - m /\ g + m = a - 1
<1>1. SUFFICES ASSUME NEW x \in Nat, NEW a \in Nat
               PROVE  \E m \in Nat, g \in Int : m = x /\ g = (a - 1) - m /\ g + m = a - 1
  OBVIOUS
<1>2. (a - 1) - x \in Int /\ ((a - 1) - x) + x = a - 1
  OBVIOUS
<1>3. QED
  BY <1>2

\* The whole batch is out, and its buffer is handed back.
LEMMA ConsumeOrdered ==
    ASSUME Handoff, Ordered, Consume
    PROVE  Ordered' /\ Refined
<1>0. cl \in WaveLanes(wave) /\ cl \in Lanes /\ WaveLanes(wave) \subseteq Lanes /\ state \in [Lanes -> States]
  BY CurrentLane
<1>1. /\ cpc = "write" /\ sent = BatchUnits(cl) /\ cpc' = "wake" /\ state' = [state EXCEPT ![cl] = "EMPTY"]
      /\ UNCHANGED <<input, admitted, out, fault, status, wave, cl, sent, header, lstat, buf, worker>>
  BY DEF Consume, host
<1>2. state[cl] = "READY" /\ wpc[cl] \in Parked
  BY <1>0, <1>1 DEF Handoff, Protocol, Control, Coordination, LaneProtocol, Fits, Parked, Producing,
                    Leaving, WorkerPcs
<1>3. Argv' = Argv /\ Argv \in Published!Inputs /\ input' \in NativeInputs
  BY <1>1, SameArgv, ArgvShape DEF Ordered
<1>4. Content'
  BY <1>1, <1>3 DEF Ordered, Content
<1>5. state'[cl] = "EMPTY" /\ \A l \in Lanes : l # cl => state'[l] = state[l]
  BY <1>0, <1>1
<1>6. Found' /\ Private'
  <2>1. \A l \in WaveLanes(wave) : wpc[l] = "start" => state[l] # "READY"
    BY <1>0, <1>1 DEF Handoff, Protocol, LaneProtocol, Fits, Producing
  <2>2. QED
    BY <1>0, <1>1, <1>5, <2>1, FoundKept DEF worker
<1>7. PICK p \in Phases : p = Phase(wave, cl) /\ Phase(wave, cl)' = p
  BY <1>0, <1>1, WavePhases DEF Phase
<1>8. PICK m \in Nat, g \in Int : m = Len(buf[cl]) /\ g = (rec[cl] - 1) - m /\ g + m = rec[cl] - 1
  <2>1. Len(buf[cl]) \in Nat /\ rec[cl] \in Nat
    BY <1>0 DEF Handoff, BatchRoom
  <2>2. QED
    BY <2>1, Before
<1>9. Consumed(cl) = g /\ g \in Nat
  <2>1. wpc[cl] # "start" /\ Filled(cl)
    BY <1>2 DEF Filled, Parked
  <2>2. Batched(cl, p)
    BY <1>0, <1>7 DEF Ordered, Found, Findings
  <2>3. m <= rec[cl] - 1
    BY <1>8, <2>1, <2>2 DEF Batched
  <2>4. QED
    BY <1>8, <2>1, <2>3 DEF Consumed
<1>10. Consumed(cl)' = g + m
  <2>1. wpc'[cl] \in Parked /\ ~Filled(cl)' /\ wpc'[cl] # "start"
    BY <1>1, <1>2, <1>5 DEF Filled, Parked, worker
  <2>2. QED
    BY <1>1, <1>8, <2>1 DEF Consumed, worker
<1>11. \A l \in WaveLanes(wave) : l # cl => Consumed(l)' = Consumed(l)
  BY <1>0, <1>1, <1>5, ConsumedSame DEF worker
<1>12. \A l \in WaveLanes(wave) : (l = cl => Due(l)) /\ (l > cl => Consumed(l) = 0)
  BY <1>1 DEF Ordered, Pending, Receiving
<1>13. Due(cl)'
  <2>1. Fine(Argv, p) /\ Len(out) = Index(Argv, p, g) + sent
    BY <1>0, <1>1, <1>7, <1>9, <1>12 DEF Due
  <2>2. sent = m * Units
    BY <1>1, <1>8 DEF BatchUnits
  <2>3. Index(Argv, p, g + m) = Index(Argv, p, g) + (m * Units) /\ Index(Argv, p, g + m) \in Nat
    BY <1>3, <1>9, Places
  <2>4. Len(out) = Index(Argv, p, g + m) + 0
    BY <2>1, <2>2, <2>3
  <2>5. Fine(Argv, Phase(wave, cl))'
    BY <1>3, <1>7, <2>1 DEF Fine
  <2>6. Index(Argv, Phase(wave, cl), Consumed(cl))' = Index(Argv, p, g + m)
    BY <1>3, <1>7, <1>10 DEF Index
  <2>7. QED
    BY <1>1, <2>4, <2>5, <2>6 DEF Due
<1>14. WaveLanes(wave)' = WaveLanes(wave)
  BY <1>1 DEF WaveLanes, LastLane, LaneCount, Phase
<1>15. status = "running"
  BY <1>1, StillRunning
<1>16. \A l \in WaveLanes(wave) : (l = cl => Due(l)') /\ (l > cl => Consumed(l)' = 0)
  <2>1. \A l \in WaveLanes(wave) : l > cl => l # cl
    BY CurrentLane
  <2>2. ASSUME NEW l \in WaveLanes(wave), l = cl PROVE Due(l)'
    BY <1>1, <1>13, <2>2 DEF Due
  <2>3. QED
    BY <1>11, <1>12, <2>1, <2>2
<1>17. Pending'
  BY <1>1, <1>14, <1>15, <1>16 DEF Pending, Receiving, Joining
<1>18. Admission'
  BY <1>1, <1>3 DEF Ordered, Admission, Receiving, Index, LastLane, LaneCount, Phase
<1>19. Refined
  BY <1>1, SilentRefines DEF Ordered
<1>20. QED
  BY <1>3, <1>4, <1>6, <1>17, <1>18, <1>19 DEF Ordered

\* A lane is cancelled.
LEMMA CancelLaneOrdered ==
    ASSUME Handoff, Ordered, Cancel
    PROVE  Ordered' /\ Refined
<1>0. cl \in WaveLanes(wave) /\ cl \in Lanes /\ WaveLanes(wave) \subseteq Lanes /\ state \in [Lanes -> States]
  BY CurrentLane
<1>1. /\ cpc = "cancel" /\ cpc' = "cancel_wake" /\ state' = [state EXCEPT ![cl] = "CANCEL"]
      /\ UNCHANGED <<input, admitted, out, fault, status, wave, cl, sent, header, lstat, buf, worker>>
  BY DEF Cancel, host
<1>2. \A l \in WaveLanes(wave) : state'[l] \in {state[l], "CANCEL"}
  BY <1>0, <1>1
<1>3. Found' /\ Private'
  <2>1. \A l \in WaveLanes(wave) : wpc[l] = "start" => state[l] # "READY"
    BY <1>0, <1>1 DEF Handoff, Protocol, LaneProtocol, Fits, Producing
  <2>2. QED
    BY <1>1, <1>2, <2>1, FoundKept DEF worker
<1>4. SameStage /\ cpc \notin {"clone"} \cup Receiving
  BY <1>1 DEF SameStage, Receiving
<1>5. Pending' /\ Content' /\ Admission'
  BY <1>1, <1>4, StagePending, StageAdmission
<1>6. QED
  BY <1>1, <1>3, <1>5, SilentRefines DEF Ordered

\* A lane whose worker has published its end has been consumed up to that end.
LEMMA LaneEnds ==
    ASSUME Handoff, Ordered, cpc = "receive", state[cl] \in {"DONE", "ERROR"},
           NEW p \in Phases, p = Phase(wave, cl)
    PROVE  /\ Fine(Argv, p) /\ Len(out) = Index(Argv, p, Argv.error[p] - 1)
           /\ state[cl] = "ERROR" \/ lstat[cl] # 0 => Published!Fails(Argv, p) /\ Complete(Argv, out)
           /\ state[cl] = "DONE" /\ lstat[cl] = 0 => /\ ~Published!Fails(Argv, p)
                                                     /\ Fine(Argv, p + 1)
                                                     /\ Len(out) = Index(Argv, p + 1, 0)
<1>0. cl \in WaveLanes(wave) /\ cl \in Lanes
  BY CurrentLane
<1>1. wpc[cl] \in Leaving \cup {"off"}
  BY <1>0 DEF Handoff, Protocol, Control, LaneProtocol, Fits, Parked, Producing, Leaving, WorkerPcs
<1>2. Concluded(cl, p) /\ Due(cl) /\ input \in NativeInputs
  BY <1>0 DEF Ordered, Found, Findings, Pending, Receiving
<1>3. /\ Argv \in Published!Inputs /\ Argv.error = input.error /\ Argv.n = input.n
      /\ input.error[p] \in Nat /\ 1 <= input.error[p] /\ input.error[p] <= input.n + 1
      /\ input.n \in Nat
  BY <1>2, ArgvShape
<1>4. (state[cl] = "DONE" => Ending(cl)) /\ (state[cl] = "ERROR" => Erring(cl))
  BY DEF Ending, Erring
<1>5. rec[cl] = input.error[p]
  BY <1>2, <1>4 DEF Concluded
<1>6. Consumed(cl) = input.error[p] - 1
  BY <1>1, <1>5 DEF Consumed, Filled, Leaving
<1>7. Index(Argv, p, input.error[p] - 1) \in Nat
  <2>1. input.error[p] - 1 \in Nat
    BY <1>3
  <2>2. QED
    BY <1>3, <2>1, Places
<1>8. Fine(Argv, p) /\ Len(out) = Index(Argv, p, input.error[p] - 1)
  <2>1. Fine(Argv, p) /\ Len(out) = Index(Argv, p, Consumed(cl)) + 0
    BY <1>2 DEF Due
  <2>2. QED
    BY <1>6, <1>7, <2>1
<1>9. ASSUME state[cl] = "ERROR" \/ lstat[cl] # 0 PROVE Published!Fails(Argv, p) /\ Complete(Argv, out)
  <2>1. Published!Fails(Argv, p)
    BY <1>2, <1>4, <1>9 DEF Concluded
  <2>2. Len(Published!Reference(Argv)) = Index(Argv, p, Argv.error[p] - 1)
    BY <1>3, <1>8, <2>1, ReferenceEnd DEF Fine
  <2>3. QED
    BY <1>3, <1>8, <2>1, <2>2 DEF Complete
<1>10. ASSUME state[cl] = "DONE", lstat[cl] = 0
       PROVE  ~Published!Fails(Argv, p) /\ Fine(Argv, p + 1) /\ Len(out) = Index(Argv, p + 1, 0)
  <2>1. ~Published!Fails(Argv, p)
    BY <1>2, <1>4, <1>10 DEF Concluded
  <2>2. ~(input.error[p] <= input.n)
    BY <1>2, <2>1, PhaseOutcome
  <2>3. input.error[p] - 1 = Argv.n
    BY <1>3, <2>2
  <2>4. Len(out) = Index(Argv, p + 1, 0)
    BY <1>3, <1>8, <2>3, Places
  <2>5. \A q \in Phases : q < p + 1 => q < p \/ q = p
    BY ConcurrentAssumption DEF Phases
  <2>6. Fine(Argv, p + 1)
    BY <1>8, <2>1, <2>5 DEF Fine
  <2>7. QED
    BY <2>1, <2>4, <2>6
<1>11. QED
  BY <1>3, <1>8, <1>9, <1>10

\* A phase that has ended well: the next lane is due, or the wave is over.
LEMMA DoneOrdered ==
    ASSUME Handoff, Ordered, ReceiveDone
    PROVE  Ordered' /\ Refined
<1>0. /\ cl \in WaveLanes(wave) /\ cl \in Lanes /\ WaveLanes(wave) \subseteq Lanes
      /\ cl \in Nat /\ LastLane(wave) \in Nat /\ WaveLanes(wave) = 1..LastLane(wave)
      /\ cl <= LastLane(wave)
  BY CurrentLane
<1>1. /\ cpc = "receive" /\ state[cl] = "DONE" /\ lstat[cl] = 0
      /\ \/ cl < LastLane(wave) /\ cl' = cl + 1 /\ cpc' = cpc
         \/ ~(cl < LastLane(wave)) /\ cl' = 1 /\ cpc' = "join"
      /\ UNCHANGED <<input, admitted, out, fault, status, wave, sent, header, lane, worker>>
  BY DEF ReceiveDone, host
<1>2. Argv' = Argv /\ Argv \in Published!Inputs /\ input' \in NativeInputs
  BY <1>1, SameArgv, ArgvShape DEF Ordered
<1>3. Content'
  BY <1>1, <1>2 DEF Ordered, Content
<1>4. Found' /\ Private'
  <2>1. \A l \in WaveLanes(wave) : wpc[l] = "start" => state[l] # "READY"
    BY <1>0, <1>1 DEF Handoff, Protocol, LaneProtocol, Fits, Producing
  <2>2. QED
    BY <1>1, <2>1, FoundKept DEF lane, worker
<1>5. PICK p \in Phases : p = Phase(wave, cl) /\ Phase(wave, cl + 1) = p + 1
  BY <1>0, WavePhases
<1>6. Fine(Argv, p + 1) /\ Len(out) = Index(Argv, p + 1, 0)
  BY <1>1, <1>5, LaneEnds
<1>7. \A l \in WaveLanes(wave) : Consumed(l)' = Consumed(l)
  BY <1>1, ConsumedSame DEF lane, worker
<1>8. \A l \in WaveLanes(wave) : l > cl => Consumed(l) = 0
  BY <1>1 DEF Ordered, Pending, Receiving
<1>9. /\ WaveLanes(wave)' = WaveLanes(wave) /\ LastLane(wave)' = LastLane(wave)
      /\ \A l : Phase(wave, l)' = Phase(wave, l)
  BY <1>1 DEF WaveLanes, LastLane, LaneCount, Phase
<1>10. status = "running" /\ header = 0 /\ Len(out) \in Nat
  BY <1>1, StillRunning DEF Handoff, Protocol, Cancellation, Ordered, Content
<1>11. Pending'
  <2>1. CASE cl < LastLane(wave) /\ cl' = cl + 1 /\ cpc' = cpc
    <3>1. PICK next \in WaveLanes(wave) : next = cl + 1 /\ next > cl
      BY <1>0, <2>1
    <3>2. Consumed(next)' = 0
      BY <1>7, <1>8, <3>1
    <3>3. ASSUME NEW l \in WaveLanes(wave), l = cl + 1 PROVE Due(l)'
      <4>1. Phase(wave, l)' = p + 1 /\ Consumed(l)' = 0 /\ cpc' # "write"
        BY <1>1, <1>5, <1>9, <2>1, <3>1, <3>2, <3>3
      <4>2. Fine(Argv, Phase(wave, l))'
        BY <1>2, <1>6, <4>1 DEF Fine
      <4>3. Index(Argv, Phase(wave, l), Consumed(l))' = Index(Argv, p + 1, 0)
        BY <1>2, <4>1 DEF Index
      <4>4. Len(out') = Index(Argv, p + 1, 0) + 0
        BY <1>1, <1>6, <1>10
      <4>5. QED
        BY <4>1, <4>2, <4>3, <4>4 DEF Due
    <3>4. \A l \in WaveLanes(wave) : l > cl + 1 => Consumed(l)' = 0
      <4>1. \A l \in WaveLanes(wave) : l > cl + 1 => l > cl
        BY <1>0
      <4>2. QED
        BY <1>7, <1>8, <4>1
    <3>5. QED
      BY <1>1, <1>9, <1>10, <2>1, <3>3, <3>4 DEF Pending, Receiving, Joining
  <2>2. CASE ~(cl < LastLane(wave)) /\ cl' = 1 /\ cpc' = "join"
    <3>1. cl = LastLane(wave)
      BY <1>0, <2>2
    <3>2. Begun(Argv, out, Phase(wave, LastLane(wave)) + 1)'
      BY <1>1, <1>2, <1>5, <1>6, <1>9, <3>1 DEF Begun, Fine, Index
    <3>3. QED
      BY <1>1, <1>10, <2>2, <3>2 DEF Pending, Receiving, Joining
  <2>3. QED
    BY <1>1, <2>1, <2>2
<1>12. Admission'
  BY <1>1, <1>2, <1>9 DEF Ordered, Admission, Receiving, Index
<1>13. Refined
  BY <1>1, SilentRefines DEF Ordered
<1>14. QED
  BY <1>2, <1>3, <1>4, <1>11, <1>12, <1>13 DEF Ordered

\* A phase that has failed: its output is complete, and the wave is cancelled.
LEMMA FailureOrdered ==
    ASSUME Handoff, Ordered, ReceiveFailure
    PROVE  Ordered' /\ Refined
<1>1. /\ cpc = "receive" /\ BeginCancel /\ fault' = fault
      /\ state[cl] \in {"ERROR", "CANCEL"} \/ (state[cl] = "DONE" /\ lstat[cl] # 0)
  BY DEF ReceiveFailure
<1>2. state[cl] # "CANCEL"
  BY <1>1, CurrentLane DEF Handoff, Protocol, Cancellation
<1>3. PICK p \in Phases : p = Phase(wave, cl)
  BY CurrentLane, WavePhases
<1>4. Complete(Argv, out)
  BY <1>1, <1>2, <1>3, LaneEnds
<1>5. QED
  BY <1>1, <1>4, CancelOrdered DEF Receiving

\* The last lane has been joined and another wave follows.
LEMMA NextWaveOrdered ==
    ASSUME Handoff, Ordered, NextWave
    PROVE  Ordered' /\ Refined
<1>1. /\ cpc = "after" /\ header = 0 /\ MoreWaves /\ wave' = wave + 1 /\ cpc' = "reset"
      /\ UNCHANGED <<input, admitted, out, fault, status, cl, sent, header, lane, worker>>
  BY DEF NextWave, host
<1>2. Argv' = Argv /\ input' \in NativeInputs
  BY <1>1, SameArgv DEF Ordered
<1>3. Content'
  BY <1>1, <1>2 DEF Ordered, Content
<1>4. Phase(wave + 1, 1) = Phase(wave, LastLane(wave)) + 1
  BY <1>1, WavePhases
<1>5. Begun(Argv, out, Phase(wave, LastLane(wave)) + 1) /\ status = "running"
  BY <1>1, StillRunning DEF Ordered, Pending, Joining
<1>6. Begun(Argv, out, Phase(wave, 1))'
  BY <1>1, <1>2, <1>4, <1>5 DEF Begun, Fine, Index, Phase
<1>7. Pending'
  BY <1>1, <1>5, <1>6 DEF Pending, Receiving, Joining
<1>8. Admission'
  BY <1>1, <1>6 DEF Ordered, Admission, Begun, Receiving
<1>9. LastLane(wave + 1) \in 1..LaneCount /\ LaneCount \in Nat
  <2>1. wave + 1 \in Nat /\ Phase(wave + 1, 1) <= NumPhases
    BY <1>1, CurrentLane DEF MoreWaves
  <2>2. QED
    BY <2>1, WaveShape
<1>10. \A l \in WaveLanes(wave)' : wpc[l] = "off" /\ state[l] # "READY"
  <2>1. WaveLanes(wave)' \subseteq Lanes
    BY <1>1, <1>9 DEF WaveLanes, Lanes, LaneCount, LastLane, Phase
  <2>2. QED
    BY <1>1, <2>1 DEF Handoff, Protocol, LiveThreads, Threads, LaneProtocol, Fits
<1>11. Found'
  <2> SUFFICES ASSUME NEW l \in WaveLanes(wave)', NEW p, p = Phase(wave, l)' PROVE Findings(l, p)'
    BY DEF Found, Phase
  <2>1. wpc'[l] = "off" /\ state'[l] # "READY" /\ cpc' = "reset"
    BY <1>1, <1>10 DEF lane, worker
  <2>2. QED
    BY <2>1 DEF Findings, Scanned, Working, Batched, Concluded, Filled, Ending, Erring, Parked
<1>12. Private'
  BY <1>1 DEF Ordered, Private, lane, worker
<1>13. Refined
  BY <1>1, SilentRefines DEF Ordered
<1>14. QED
  BY <1>2, <1>3, <1>7, <1>8, <1>11, <1>12, <1>13 DEF Ordered

\* The last wave has been joined.
LEMMA JoinedOrdered ==
    ASSUME Handoff, Ordered, LastJoined
    PROVE  Ordered' /\ Refined
<1>1. /\ cpc = "after" /\ (header # 0 \/ ~MoreWaves) /\ cpc' = "cleanup"
      /\ UNCHANGED <<input, admitted, out, fault, status, wave, cl, sent, header, lane, worker>>
  BY DEF LastJoined, CoordinatorGoto, host
<1>2. Argv' = Argv /\ input' \in NativeInputs
  BY <1>1, SameArgv DEF Ordered
<1>3. Content'
  BY <1>1, <1>2 DEF Ordered, Content
<1>4. Found' /\ Private'
  <2>1. \A l \in WaveLanes(wave) : wpc[l] = "start" => state[l] # "READY"
    BY <1>1, CurrentLane DEF Handoff, Protocol, LaneProtocol, Fits, Producing
  <2>2. QED
    BY <1>1, <2>1, FoundKept DEF lane, worker
<1>5. Pending'
  <2>1. header = 0 => Begun(Argv, out, NumPhases + 1)
    <3>1. header = 0 => Begun(Argv, out, Phase(wave, LastLane(wave)) + 1)
      BY <1>1 DEF Ordered, Pending, Joining
    <3>2. ~MoreWaves => Phase(wave, LastLane(wave)) = NumPhases
      BY WavePhases
    <3>3. QED
      BY <1>1, <3>1, <3>2
  <2>2. header = 0 => Begun(Argv, out, NumPhases + 1)'
    BY <1>1, <1>2, <2>1 DEF Begun, Fine, Index
  <2>3. header # 0 => fault' = "yes" \/ Complete(Argv, out)'
    BY <1>1, <1>2 DEF Ordered, Pending, Joining, Complete
  <2>4. status = "running"
    BY <1>1, StillRunning
  <2>5. QED
    BY <1>1, <2>2, <2>3, <2>4 DEF Pending, Receiving, Joining
<1>6. Admission'
  BY <1>1, <1>2 DEF Ordered, Admission, Receiving, Index, LastLane, LaneCount, Phase
<1>7. Refined
  BY <1>1, SilentRefines DEF Ordered
<1>8. QED
  BY <1>2, <1>3, <1>4, <1>5, <1>6, <1>7 DEF Ordered

\* The complete reference has been published.
LEMMA FinishRefines ==
    ASSUME input \in NativeInputs, Content, Len(out) = Len(Published!Reference(Argv)),
           status = "running", UNCHANGED <<input, out, fault>>,
           status' = IF \E p \in Phases : Published!Fails(Argv, p) THEN "failed" ELSE "ok"
    PROVE  Refined
<1>1. Argv \in Published!Inputs /\ Argv' = Argv
  BY ArgvShape, SameArgv
<1>2. out = Published!Reference(Argv)
  BY <1>1, ReferenceShape DEF Content
<1>3. Published!Finish
  BY <1>1, <1>2 DEF Published!Finish, Published!Phases, Phases
<1>4. QED
  BY <1>3 DEF Refined, Published!Next

\* No phase fails and everything is out: the reference ends here.
LEMMA AllOut ==
    ASSUME input \in NativeInputs, Begun(Argv, out, NumPhases + 1)
    PROVE  /\ Len(out) = Len(Published!Reference(Argv))
           /\ ~\E p \in Phases : Published!Fails(Argv, p)
<1>1. /\ NumPhases \in Phases /\ \A q \in Phases : q \in Nat /\ q < NumPhases + 1
      /\ \A q \in Phases : q < NumPhases => q < NumPhases + 1
  BY ConcurrentAssumption DEF Phases
<1>2. \A q \in Phases : ~Published!Fails(Argv, q)
  BY <1>1 DEF Begun, Fine
<1>3. /\ Argv \in Published!Inputs /\ Argv.error = input.error /\ Argv.n = input.n /\ input.n \in Nat
      /\ input.error[NumPhases] \in Nat /\ input.error[NumPhases] <= input.n + 1
  BY <1>1, ArgvShape
<1>4. ~(input.error[NumPhases] <= input.n)
  BY <1>1, <1>2, PhaseOutcome
<1>5. Argv.error[NumPhases] - 1 = Argv.n
  BY <1>3, <1>4
<1>6. Len(Published!Reference(Argv)) = Index(Argv, NumPhases, Argv.n)
  BY <1>1, <1>2, <1>3, <1>5, ReferenceEnd
<1>7. Index(Argv, NumPhases, Argv.n) = Index(Argv, NumPhases + 1, 0)
  BY <1>1, <1>3, Places
<1>8. QED
  BY <1>2, <1>6, <1>7 DEF Begun

\* exit_group with the status of the header.
LEMMA CleanupOrdered ==
    ASSUME Handoff, Ordered, Cleanup
    PROVE  Ordered' /\ Refined
<1>1. /\ cpc = "cleanup" /\ UNCHANGED <<input, admitted, out, wave, cl, sent, header, lane, rec, sticky, resume>>
  BY DEF Cleanup
<1>2. CASE ExitGroup("failed") /\ fault' = "yes"
  BY <1>1, <1>2, ExitOrdered DEF lane
<1>3. CASE ExitGroup(IF header = 0 THEN "ok" ELSE "failed") /\ fault' = fault
  <2>1. /\ cpc' = "dead" /\ status' = (IF header = 0 THEN "ok" ELSE "failed") /\ status = "running"
        /\ \A l \in Lanes : wpc'[l] = "off"
    BY <1>1, <1>3, StillRunning DEF ExitGroup
  <2>2. Argv' = Argv /\ input' \in NativeInputs
    BY <1>1, SameArgv DEF Ordered
  <2>3. Content'
    BY <1>1, <2>2 DEF Ordered, Content
  <2>4. WaveLanes(wave) \subseteq Lanes
    BY CurrentLane
  <2>5. Found' /\ Private'
    BY <1>1, <2>1, <2>4, FoundKept DEF lane
  <2>6. Pending'
    BY <2>1 DEF Pending, Receiving, Joining
  <2>7. Admission'
    BY <1>1, <2>1, <2>2 DEF Ordered, Admission, Receiving, Index, LastLane, LaneCount, Phase
  <2>8. Refined
    <3>1. CASE header = 0
      <4>1. /\ Len(out) = Len(Published!Reference(Argv))
            /\ ~\E p \in Phases : Published!Fails(Argv, p)
        BY <1>1, <3>1, AllOut DEF Ordered, Pending
      <4>2. QED
        BY <1>1, <1>3, <2>1, <3>1, <4>1, FinishRefines DEF Ordered
    <3>2. CASE header # 0
      <4>1. fault = "yes" \/ Complete(Argv, out)
        BY <1>1, <3>2 DEF Ordered, Pending
      <4>2. CASE fault = "yes"
        <5>1. Published!GiveUp
          BY <1>1, <1>3, <2>1, <2>2, <3>2, <4>2 DEF Published!GiveUp
        <5>2. QED
          BY <5>1 DEF Refined, Published!Next
      <4>3. CASE Complete(Argv, out)
        BY <1>1, <1>3, <2>1, <3>2, <4>3, FinishRefines DEF Ordered, Complete
      <4>4. QED
        BY <4>1, <4>2, <4>3
    <3>3. QED
      BY <3>1, <3>2
  <2>9. QED
    BY <2>2, <2>3, <2>5, <2>6, <2>7, <2>8 DEF Ordered
<1>4. QED
  BY <1>2, <1>3 DEF Cleanup

\* Units of the reference are appended where it has them.
LEMMA OutGrows ==
    ASSUME input \in NativeInputs, Content, NEW m \in Nat, NEW more, more \in Seq(Nat \X Nat \X Nat),
           Len(more) = m,
           \A k \in 1..m : /\ Len(out) + k \in 1..Len(Published!Reference(Argv))
                           /\ more[k] = Published!Reference(Argv)[Len(out) + k],
           input' = input, out' = out \o more
    PROVE  /\ Content' /\ Len(out') = Len(out) + m
           /\ m > 0 => Len(out') \in (Len(out) + 1)..Len(Published!Reference(Argv))
           /\ out' = SubSeq(Published!Reference(Argv), 1, Len(out'))
<1> DEFINE Ref == Published!Reference(Argv)
           S == Nat \X Nat \X Nat
<1>1. Argv' = Argv /\ Argv \in Published!Inputs
  BY SameArgv, ArgvShape
<1>2. out \in Seq(S) /\ Len(out) \in Nat /\ \A k \in 1..Len(out) : out[k] = Ref[k]
  BY DEF Content
<1>3. /\ out' \in Seq(S) /\ Len(out') = Len(out) + m
      /\ \A k \in 1..Len(out') : out'[k] = IF k <= Len(out) THEN out[k] ELSE more[k - Len(out)]
  <2>1. PICK T : T = S
    OBVIOUS
  <2>2. more \in Seq(T) /\ out \in Seq(T)
    BY <1>2, <2>1
  <2>3. /\ out \o more \in Seq(T) /\ Len(out \o more) = Len(out) + Len(more)
        /\ \A k \in 1..Len(out) + Len(more) :
              (out \o more)[k] = IF k <= Len(out) THEN out[k] ELSE more[k - Len(out)]
    BY <2>2, ConcatProperties
  <2>4. QED
    BY <2>1, <2>3
<1>4. \A k \in 1..Len(out') : out'[k] = Ref[k]
  <2> SUFFICES ASSUME NEW k \in 1..Len(out') PROVE out'[k] = Ref[k]
    OBVIOUS
  <2>1. CASE k <= Len(out)
    BY <1>2, <1>3, <2>1
  <2>2. CASE ~(k <= Len(out))
    <3>1. k - Len(out) \in 1..m /\ Len(out) + (k - Len(out)) = k
      BY <1>2, <1>3, <2>2
    <3>2. QED
      BY <1>3, <2>2, <3>1
  <2>3. QED
    BY <2>1, <2>2
<1>5. Len(Ref) \in Nat /\ Len(out) <= Len(Ref) /\ Ref = [k \in 1..Len(Ref) |-> Ref[k]]
  BY <1>1, ReferenceShape DEF Content
<1>6. Len(out') <= Len(Ref) /\ Len(out') \in Nat
  <2>1. CASE m = 0
    BY <1>2, <1>3, <1>5, <2>1
  <2>2. CASE m > 0
    <3>1. Len(out) + m \in 1..Len(Ref)
      BY <2>2
    <3>2. QED
      BY <1>2, <1>3, <1>5, <3>1
  <2>3. QED
    BY <2>1, <2>2
<1>7. out' = [k \in 1..Len(out') |-> out'[k]]
  <2>1. out' \in [1..Len(out') -> S]
    BY <1>3, LenProperties
  <2>2. QED
    BY <2>1
<1>8. out' = [k \in 1..Len(out') |-> Ref[k]]
  BY <1>4, <1>7
<1>9. SubSeq(Ref, 1, Len(out')) = [k \in 1..Len(out') |-> Ref[k]]
  BY <1>5, <1>6
<1>10. Content'
  BY <1>1, <1>3, <1>6, <1>8 DEF Content
<1>11. m > 0 => Len(out') \in (Len(out) + 1)..Len(Ref)
  BY <1>2, <1>3, <1>5, <1>6
<1>12. QED
  BY <1>3, <1>8, <1>9, <1>10, <1>11

\* A number below n * U taken apart.
LEMMA Apart ==
    ASSUME NEW n \in Nat, NEW U \in Nat \ {0}, NEW j \in 1..(n * U)
    PROVE  \E w \in Nat, v \in Nat :
             /\ w < n /\ v < U /\ j = ((w * U) + v) + 1
             /\ (j - 1) \div U = w /\ (j - 1) % U = v
<1>1. n * U \in Nat
  OBVIOUS
<1>2. PICK x \in Nat : x = j - 1 /\ x < n * U
  BY <1>1
<1>3. PICK w \in Int, v \in Int : w = x \div U /\ v = x % U
  BY <1>2
<1>4. x = (U * w) + v /\ 0 <= v /\ v < U
  BY <1>2, <1>3
<1>5. \A a, b \in Int : a >= b => a * U >= b * U
  OBVIOUS
<1>6. w >= 0
  <2>1. w <= -1 => w * U <= (-1) * U
    BY <1>3, <1>5
  <2>2. (-1) * U = -U /\ w * U = U * w /\ U * w \in Int
    BY <1>3
  <2>3. QED
    BY <1>2, <1>3, <1>4, <2>1, <2>2
<1>7. w < n
  <2>1. w >= n => w * U >= n * U
    BY <1>3, <1>5
  <2>2. w * U = U * w /\ U * w \in Int
    BY <1>3
  <2>3. QED
    BY <1>1, <1>2, <1>3, <1>4, <2>1, <2>2
<1>8. j = ((w * U) + v) + 1
  <2>1. w * U = U * w /\ U * w \in Int
    BY <1>3
  <2>2. QED
    BY <1>2, <1>3, <1>4, <2>1
<1>9. w \in Nat /\ v \in Nat /\ v < U
  BY <1>3, <1>4, <1>6
<1>10. (j - 1) \div U = w /\ (j - 1) % U = v
  BY <1>2, <1>3
<1>11. QED
  BY <1>7, <1>8, <1>9, <1>10

\* Unit j of the batch that is being written is unit j of what is due.
LEMMA BatchUnit ==
    ASSUME Handoff, Ordered, cpc = "write", NEW l \in WaveLanes(wave), l = cl, NEW j \in 1..BatchUnits(l),
           NEW p \in Phases, p = Phase(wave, l)
    PROVE  /\ Consumed(l) \in Nat
           /\ Index(Argv, p, Consumed(l)) + j \in 1..Len(Published!Reference(Argv))
           /\ Unit(l, j) = Published!Reference(Argv)[Index(Argv, p, Consumed(l)) + j]
           /\ Unit(l, j) \in Nat \X Nat \X Nat
<1>0. l \in Lanes /\ state \in [Lanes -> States]
  BY CurrentLane
<1>1. state[l] = "READY" /\ wpc[l] \in Parked
  BY <1>0 DEF Handoff, Protocol, Control, Coordination, LaneProtocol, Fits, Parked, Producing,
              Leaving, WorkerPcs
<1>2. PICK m \in Nat, g \in Int : m = Len(buf[l]) /\ g = (rec[l] - 1) - m /\ g + m = rec[l] - 1
  <2>1. Len(buf[l]) \in Nat /\ rec[l] \in Nat
    BY <1>0 DEF Handoff, BatchRoom
  <2>2. QED
    BY <2>1, Before
<1>3. wpc[l] # "start" /\ Filled(l) /\ Batched(l, p) /\ Due(l)
  BY <1>1 DEF Filled, Parked, Ordered, Found, Findings, Pending, Receiving
<1>4. /\ m <= rec[l] - 1 /\ rec[l] <= input.error[p]
      /\ \A k \in 1..m : buf[l][k] = g + k
  BY <1>2, <1>3 DEF Batched
<1>5. Consumed(l) = g /\ g \in Nat
  BY <1>2, <1>3, <1>4 DEF Consumed
<1>6. /\ Argv \in Published!Inputs /\ Argv.n = input.n /\ Argv.error = input.error
      /\ input.error[p] \in Nat /\ input.error[p] <= input.n + 1 /\ input.n \in Nat
      /\ Units \in Nat \ {0}
  BY ArgvShape, ConcurrentAssumption DEF Ordered
<1>7. j \in 1..(m * Units) /\ j \in Nat
  <2>1. m * Units \in Nat
    BY <1>6
  <2>2. QED
    BY <1>2, <2>1 DEF BatchUnits
<1>8. PICK w \in Nat, v \in Nat :
        /\ w < m /\ v < Units /\ j = ((w * Units) + v) + 1
        /\ (j - 1) \div Units = w /\ (j - 1) % Units = v
  BY <1>6, <1>7, Apart
<1>9. PICK r \in Nat : r = g + (w + 1) /\ r - 1 = g + w /\ r \in 1..Argv.n /\ r < Argv.error[p]
  <2>1. rec[l] \in Nat
    BY <1>0 DEF Handoff, BatchRoom
  <2>2. g + (w + 1) <= rec[l] - 1
    BY <1>2, <1>8, <2>1
  <2>3. QED
    BY <1>5, <1>6, <1>4, <2>1, <2>2
<1>10. PICK u \in 1..Units : u = v + 1
  BY <1>6, <1>8
<1>11. Unit(l, j) = <<p, r, u>>
  <2>1. w + 1 \in 1..m
    BY <1>8
  <2>2. buf[l][w + 1] = g + (w + 1)
    BY <1>4, <2>1
  <2>3. QED
    BY <1>8, <1>9, <1>10, <2>2 DEF Unit
<1>12. Index(Argv, p, r - 1) + u = Index(Argv, p, g) + j
  <2>1. Index(Argv, p, g + w) = Index(Argv, p, g) + (w * Units) /\ Index(Argv, p, g) \in Nat
    BY <1>5, <1>6, Places
  <2>2. PICK x \in Nat : x = Index(Argv, p, g)
    BY <2>1
  <2>3. PICK y \in Nat : y = w * Units
    BY <1>6
  <2>4. j = (y + v) + 1 /\ u = v + 1
    BY <1>8, <1>10, <2>3
  <2>5. (x + y) + u = x + j
    BY <2>4
  <2>6. Index(Argv, p, r - 1) = x + y
    BY <1>9, <2>1, <2>2, <2>3
  <2>7. QED
    BY <2>2, <2>5, <2>6
<1>13. /\ Index(Argv, p, r - 1) + u \in 1..Len(Published!Reference(Argv))
       /\ Published!Reference(Argv)[Index(Argv, p, r - 1) + u] = <<p, r, u>>
  <2>1. \A q \in Phases : q < p => ~Published!Fails(Argv, q)
    BY <1>3 DEF Due, Fine
  <2>2. QED
    BY <1>6, <1>9, <2>1, ReferenceUnit
<1>14. p \in Nat /\ u \in Nat
  BY <1>6, ConcurrentAssumption DEF Phases
<1>15. QED
  BY <1>5, <1>9, <1>11, <1>12, <1>13, <1>14

\* write: the next units of the batch reach standard output.
LEMMA WriteOrdered ==
    ASSUME Handoff, Ordered, Write
    PROVE  Ordered' /\ Refined
<1>0. cl \in WaveLanes(wave) /\ cl \in Lanes /\ WaveLanes(wave) \subseteq Lanes
  BY CurrentLane
<1>1. PICK n \in 1..(BatchUnits(cl) - sent) :
        /\ out' = out \o [k \in 1..n |-> Unit(cl, sent + k)]
        /\ sent' = sent + n
  BY DEF Write
<1>2. /\ cpc = "write" /\ cpc' = "write"
      /\ UNCHANGED <<input, admitted, fault, status, wave, cl, header, lane, worker>>
  BY DEF Write
<1>3. Argv' = Argv /\ Argv \in Published!Inputs /\ input' \in NativeInputs /\ input \in NativeInputs
  BY <1>2, SameArgv, ArgvShape DEF Ordered
<1>4. PICK p \in Phases : p = Phase(wave, cl)
  BY <1>0, WavePhases
<1>5. PICK b \in Nat : b = BatchUnits(cl)
  <2>1. Len(buf[cl]) \in Nat
    BY <1>0 DEF Handoff, BatchRoom
  <2>2. QED
    BY <2>1, ConcurrentAssumption DEF BatchUnits
<1>6. sent \in Nat /\ n \in Nat /\ n >= 1 /\ sent + n <= b
  BY <1>0, <1>1, <1>2, <1>5 DEF Ordered, Pending
<1>7. Due(cl) /\ \A l \in WaveLanes(wave) : (l = cl => Due(l)) /\ (l > cl => Consumed(l) = 0)
  BY <1>0, <1>2 DEF Ordered, Pending, Receiving
<1>8. PICK g : g = Consumed(cl)
  OBVIOUS
<1>9. \A j \in 1..b : /\ g \in Nat
                      /\ Index(Argv, p, g) + j \in 1..Len(Published!Reference(Argv))
                      /\ Unit(cl, j) = Published!Reference(Argv)[Index(Argv, p, g) + j]
                      /\ Unit(cl, j) \in Nat \X Nat \X Nat
  BY <1>0, <1>2, <1>4, <1>5, <1>8, BatchUnit
<1>10. g \in Nat /\ Index(Argv, p, g) \in Nat
  <2>1. 1 \in 1..b
    BY <1>5, <1>6
  <2>2. g \in Nat
    BY <1>9, <2>1
  <2>3. QED
    BY <1>3, <2>2, Places
<1>11. Len(out) = Index(Argv, p, g) + sent /\ Fine(Argv, p)
  BY <1>2, <1>4, <1>7, <1>8 DEF Due
<1>12. PICK more : more = [k \in 1..n |-> Unit(cl, sent + k)]
  OBVIOUS
<1>13. ASSUME NEW k \in 1..n
       PROVE  /\ Len(out) + k \in 1..Len(Published!Reference(Argv))
              /\ more[k] = Published!Reference(Argv)[Len(out) + k]
              /\ more[k] \in Nat \X Nat \X Nat
  <2>1. sent + k \in 1..b
    BY <1>5, <1>6
  <2>2. Index(Argv, p, g) + (sent + k) = Len(out) + k
    BY <1>6, <1>10, <1>11
  <2>3. more[k] = Unit(cl, sent + k)
    BY <1>12
  <2>4. QED
    BY <1>9, <2>1, <2>2, <2>3
<1>14. more \in Seq(Nat \X Nat \X Nat) /\ Len(more) = n
  <2>1. more = [k \in 1..n |-> more[k]] /\ DOMAIN more = 1..n
    BY <1>12
  <2>2. more \in [1..n -> Nat \X Nat \X Nat]
    BY <1>13, <2>1
  <2>3. QED
    BY <1>6, <2>2
<1>15. out' = out \o more
  BY <1>1, <1>12
<1>16. Content /\ input' = input
  BY <1>2 DEF Ordered
<1>17. /\ Content' /\ Len(out') = Len(out) + n
       /\ Len(out') \in (Len(out) + 1)..Len(Published!Reference(Argv))
       /\ out' = SubSeq(Published!Reference(Argv), 1, Len(out'))
  <2>1. \A k \in 1..n : /\ Len(out) + k \in 1..Len(Published!Reference(Argv))
                        /\ more[k] = Published!Reference(Argv)[Len(out) + k]
    BY <1>13
  <2>2. n \in Nat /\ n > 0
    BY <1>6
  <2>3. QED
    BY <1>3, <1>14, <1>15, <1>16, <2>1, <2>2, OutGrows
<1>18. Found' /\ Private'
  <2>1. \A l \in WaveLanes(wave) : wpc[l] = "start" => state[l] # "READY"
    BY <1>0, <1>2 DEF Handoff, Protocol, LaneProtocol, Fits, Producing
  <2>2. QED
    BY <1>2, <2>1, FoundKept DEF lane, worker
<1>19. \A l \in WaveLanes(wave) : Consumed(l)' = Consumed(l)
  BY <1>2, ConsumedSame DEF lane, worker
<1>20. ASSUME NEW l \in WaveLanes(wave), l = cl PROVE Due(l)'
  <2>1. Phase(wave, l)' = p /\ Consumed(l)' = g /\ cpc' = "write"
    BY <1>2, <1>4, <1>8, <1>19, <1>20 DEF Phase
  <2>2. Fine(Argv, Phase(wave, l))'
    BY <1>3, <1>11, <2>1 DEF Fine
  <2>3. Index(Argv, Phase(wave, l), Consumed(l))' = Index(Argv, p, g)
    BY <1>3, <2>1 DEF Index
  <2>4. Len(out') = Index(Argv, p, g) + sent'
    BY <1>1, <1>6, <1>10, <1>11, <1>17
  <2>5. QED
    BY <2>1, <2>2, <2>3, <2>4 DEF Due
<1>21. sent' \in Nat /\ sent' <= BatchUnits(cl)'
  BY <1>1, <1>2, <1>5, <1>6 DEF BatchUnits, lane
<1>22. WaveLanes(wave)' = WaveLanes(wave) /\ LastLane(wave)' = LastLane(wave)
  BY <1>2 DEF WaveLanes, LastLane, LaneCount, Phase
<1>23. status = "running"
  BY <1>2, StillRunning
<1>24. Pending'
  BY <1>2, <1>7, <1>19, <1>20, <1>21, <1>22, <1>23 DEF Pending, Receiving, Joining
<1>25. Admission'
  <2>1. admitted \in Nat /\ admitted >= LastLane(wave) /\ LastLane(wave) \in Nat
    BY <1>2, CurrentLane DEF Ordered, Admission, Receiving
  <2>2. ~(admitted' < LastLane(wave)')
    BY <1>2, <1>22, <2>1
  <2>3. QED
    BY <1>2, <1>22, <2>1, <2>2 DEF Admission, Receiving
<1>26. Refined
  <2>1. Published!Publish
    BY <1>2, <1>3, <1>17, <1>23 DEF Published!Publish
  <2>2. QED
    BY <2>1 DEF Refined, Published!Next
<1>27. QED
  BY <1>3, <1>17, <1>18, <1>24, <1>25, <1>26 DEF Ordered

\* Initially nothing is out and no lane has a thread.
LEMMA InitOrdered == Init => Ordered
<1> SUFFICES ASSUME Init PROVE Ordered
  OBVIOUS
<1>1. Handoff
  BY InitHandoff
<1>2. /\ input \in NativeInputs /\ out = << >> /\ status = "running" /\ cpc = "map" /\ wave = 1
      /\ admitted = 0 /\ header = 0
      /\ \A l \in Lanes : wpc[l] = "off" /\ state[l] = "EMPTY" /\ resume[l] = "next"
  BY DEF Init
<1>3. Argv \in Published!Inputs
  BY <1>2, ArgvShape
<1>4. Len(out) = 0 /\ out \in Seq(Nat \X Nat \X Nat)
  BY <1>2
<1>5. Content
  <2>1. Len(Published!Reference(Argv)) \in Nat
    BY <1>3, ReferenceShape
  <2>2. out = [k \in 1..Len(out) |-> Published!Reference(Argv)[k]]
    BY <1>2, <1>4
  <2>3. QED
    BY <1>4, <2>1, <2>2 DEF Content
<1>6. Private
  BY DEF Init, Private
<1>7. Found
  <2> SUFFICES ASSUME NEW l \in WaveLanes(wave), NEW p PROVE Findings(l, p)
    BY DEF Found
  <2>1. wpc[l] = "off" /\ state[l] = "EMPTY"
    BY <1>1, <1>2, CurrentLane
  <2>2. QED
    BY <2>1 DEF Findings, Scanned, Working, Batched, Concluded, Filled, Ending, Erring, Parked
<1>8. Phase(wave, 1) = 1 /\ Index(Argv, 1, 0) = 0 /\ Fine(Argv, 1)
  <2>1. (wave - 1) * MaxInFlight = 0
    BY <1>2, ConcurrentAssumption
  <2>2. Argv.n * Units \in Nat
    BY <1>3, InputShape, ConcurrentAssumption
  <2>3. \A q \in Phases : ~(q < 1)
    BY ConcurrentAssumption DEF Phases
  <2>4. QED
    BY <2>1, <2>2, <2>3, ConcurrentAssumption DEF Phase, Index, Fine, Published!PhaseUnits
<1>9. Pending
  BY <1>2, <1>4, <1>8 DEF Pending, Begun, Receiving, Joining
<1>10. Admission
  BY <1>2, <1>4, <1>8 DEF Admission, Receiving
<1>11. QED
  BY <1>2, <1>5, <1>6, <1>7, <1>9, <1>10 DEF Ordered

\* A step that changes nothing.
LEMMA IdleOrdered ==
    ASSUME Handoff, Ordered, UNCHANGED vars
    PROVE  Ordered' /\ Refined
<1>1. UNCHANGED <<input, out, fault, status, cpc, wave, cl, admitted, sent, header, protocol,
                  state, tid, lstat, buf, wpc, rec, sticky, resume>>
  BY DEF vars, host, coord, lane, worker
<1>2. SameStage /\ input' \in NativeInputs
  BY <1>1 DEF SameStage, Ordered
<1>3. \A l \in WaveLanes(wave) : Consumed(l)' = Consumed(l)
  BY <1>1, ConsumedSame
<1>4. Pending' /\ Content' /\ Admission'
  BY <1>1, <1>2, <1>3, StagePending, StageAdmission
<1>5. Found'
  <2> SUFFICES ASSUME NEW l \in WaveLanes(wave), NEW p, p = Phase(wave, l) PROVE Findings(l, p)'
    BY <1>1 DEF Found, Phase, WaveLanes, LastLane, LaneCount
  <2>1. Findings(l, p)
    BY DEF Ordered, Found
  <2>2. QED
    BY <1>1, <2>1, LaneUntouched
<1>6. Private'
  BY <1>1 DEF Ordered, Private
<1>7. QED
  BY <1>1, <1>2, <1>4, <1>5, <1>6, SilentRefines DEF Ordered

\* Every step of the scheduler is a step of ordered publication, or none.
LEMMA StepOrdered == Handoff /\ Ordered /\ [Next]_vars => Ordered' /\ [Published!Next]_Published!vars
<1> SUFFICES ASSUME Handoff, Ordered, [Next]_vars PROVE Ordered' /\ Refined
  BY DEF Refined
<1>1. CASE CoordinatorStep
  BY <1>1, MapOrdered, ResetOrdered, CloneOrdered, ReadyOrdered, DoneOrdered, FailureOrdered,
     MovesOrdered, WriteOrdered, ConsumeOrdered, CancelLaneOrdered, NextWaveOrdered, JoinedOrdered,
     CleanupOrdered
  DEF CoordinatorStep
<1>2. ASSUME NEW k \in Lanes, WorkerStep(k) PROVE Ordered' /\ Refined
  <2>1. Ordered' /\ UNCHANGED <<input, out, fault, status>>
    BY <1>2, WorkerOrdered
  <2>2. QED
    BY <2>1, SilentRefines DEF Ordered
<1>3. CASE HostStep
  BY <1>3, FaultOrdered, MovesOrdered DEF HostStep
<1>4. CASE Ended \/ UNCHANGED vars
  BY <1>4, IdleOrdered DEF Ended
<1>5. QED
  BY <1>1, <1>2, <1>3, <1>4 DEF Next

\* What is known of publication holds throughout every execution.
THEOREM PublicationInvariant == Spec => [](Handoff /\ Ordered)
<1>1. Handoff /\ Ordered /\ [Next]_vars => (Handoff /\ Ordered)'
  BY NextHandoff, StepOrdered
<1>2. QED
  BY InitHandoff, InitOrdered, <1>1, PTL DEF Spec

\* Whatever the schedule, the batches and the lanes, and whichever host call is
\* refused, standard output is a beginning of what the sequential mode writes,
\* and the exit status is that of the sequential mode unless a fault cut it short.
THEOREM PublicationIsOrdered == Spec => RefinesPublication
<1>1. Init => Published!Init
  BY ArgvShape DEF Init, Published!Init
<1>2. QED
  BY <1>1, PublicationInvariant, StepOrdered, PTL DEF Spec, RefinesPublication, Published!Spec

\* A wave whose admission is refused part-way publishes nothing: all the output
\* is of phases before the wave.
THEOREM PartialWavesAreSilent == Spec => []PartialWavePublishesNothing
<1>1. Handoff /\ Ordered => PartialWavePublishesNothing
  <2> SUFFICES ASSUME Handoff, Ordered, admitted < LastLane(wave), NEW k \in 1..Len(out)
               PROVE  out[k][1] < Phase(wave, 1)
    BY DEF PartialWavePublishesNothing
  <2> DEFINE N == Published!PhaseUnits(Argv)
             p == Phase(wave, 1)
  <2>1. p \in Phases /\ 1 \in WaveLanes(wave)
    <3>1. 1 \in WaveLanes(wave)
      BY CurrentLane
    <3>2. QED
      BY <3>1, WavePhases
  <2>2. /\ Argv \in Published!Inputs /\ input \in NativeInputs
    BY ArgvShape DEF Ordered
  <2>3. Len(out) = ((p - 1) * N) + (0 * Units)
    BY DEF Ordered, Admission, Index
  <2>4. out[k] = Published!Reference(Argv)[k] /\ k \in 1..Published!ReferenceLength(Argv)
    <3>1. Len(out) <= Published!ReferenceLength(Argv) /\ Published!ReferenceLength(Argv) \in Nat
          /\ Len(out) \in Nat
      BY <2>2, ReferenceShape DEF Ordered, Content
    <3>2. out = [j \in 1..Len(out) |-> Published!Reference(Argv)[j]]
      BY DEF Ordered, Content
    <3>3. QED
      BY <3>1, <3>2
  <2>5. out[k][1] = ((k - 1) \div N) + 1
    BY <2>4 DEF Published!Reference
  <2>6. PICK M \in Nat : M = N
    BY <2>2, InputShape, ConcurrentAssumption DEF Published!PhaseUnits
  <2>7. PICK c \in Nat : c = p - 1 /\ p \in Nat
    BY <2>1, ConcurrentAssumption DEF Phases
  <2>8. k \in 1..(c * M) /\ k \in Nat
    BY <2>3, <2>6, <2>7, ConcurrentAssumption
  <2>9. M # 0
    <3>1. M = 0 => c * M = 0
      BY <2>7
    <3>2. QED
      BY <2>7, <2>8, <3>1
  <2>10. PICK w \in Nat : w < c /\ (k - 1) \div M = w
    <3>1. M \in Nat \ {0} /\ c \in Nat
      BY <2>6, <2>7, <2>9
    <3>2. \E w \in Nat, v \in Nat :
             /\ w < c /\ v < M /\ k = ((w * M) + v) + 1
             /\ (k - 1) \div M = w /\ (k - 1) % M = v
      BY <2>8, <3>1, Apart
    <3>3. QED
      BY <3>2
  <2>11. w + 1 < p
    BY <2>7, <2>10
  <2>12. QED
    BY <2>5, <2>6, <2>10, <2>11
<1>2. QED
  BY <1>1, PublicationInvariant, PTL

=============================================================================

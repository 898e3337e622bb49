-------------------- MODULE InterpreterConcurrent_proofs --------------------
(***************************************************************************)
(* Backpressure and publication of the interpreter's waves, for any number  *)
(* of phases, records and pieces, any limit and any result batches, and     *)
(* that the waves implement OrderedPublication.                             *)
(*                                                                         *)
(* That phases outside the wave hold nothing rests on a wave ending only    *)
(* when every receiver was dropped and every thread joined; that a wave     *)
(* follows only a whole one rests on its outcome.  That the output is the   *)
(* reference's rests on Ordered: the channel of a phase continues exactly   *)
(* where publication stopped, behind the value being published if there is  *)
(* one (Queue), its worker's findings are true of the input (Produced), and *)
(* the coordinator is at a phase before which none fails (Pending).         *)
(***************************************************************************)
EXTENDS InterpreterConcurrent, TLAPS, WellFoundedInduction, SequenceTheorems

\* The part of TypeOK that what is held depends on.
Typed ==
    /\ input.n \in 0..MaxRecords /\ batch \in Nat \ {0}
    /\ wave \in 1..LastWave /\ cp \in Nat /\ admitted \in Nat
    /\ cpc \in {"gate", "spawn", "receive", "emit", "leave", "drop", "join", "dead"}
    /\ chan \in [Phases -> Seq(Message)]
    /\ receiver \in [Phases -> {"alive", "dropped"}]
    /\ wpc \in [Phases -> {"off", "check", "evaluate", "send", "blocked", "ended", "panicked"}]
    /\ rec \in [Phases -> 1..(MaxRecords + 1)]
    /\ failed \in [Phases -> {"no", "yes"}]

Whole == First(wave) + admitted = Last(wave) + 1

\* What the coordinator's position says about the wave.
Position ==
    /\ First(wave) <= Last(wave) /\ First(wave) + admitted <= Last(wave) + 1
    /\ cpc \in {"gate", "spawn"} =>
          cp = First(wave) + admitted /\ cp <= Last(wave) /\ outcome = "ok0"
    /\ cpc \in {"receive", "emit"} => cp \in WavePhases /\ Whole /\ outcome = "ok0"
    /\ cpc \in {"leave", "drop", "join"} /\ outcome = "ok0" => Whole
    /\ cpc \in {"drop", "join"} => First(wave) <= cp /\ cp <= First(wave) + admitted

Over(p) == wpc[p] \in {"ended", "panicked"}

\* Who can hold something: nobody after the wave, before it, or once dropped.
Waves ==
    \A p \in Phases :
        /\ p >= First(wave) + admitted => wpc[p] = "off" /\ chan[p] = << >>
        /\ p < First(wave) => Over(p) /\ receiver[p] = "dropped"
        /\ receiver[p] = "dropped" => chan[p] = << >>
        /\ cpc = "drop" /\ First(wave) <= p /\ p < cp => receiver[p] = "dropped"
        /\ cpc = "join" /\ p \in Admitted => receiver[p] = "dropped"
        /\ cpc = "join" /\ First(wave) <= p /\ p < cp => Over(p)

\* There is room for the message of a worker that is not waiting.
Room ==
    \A p \in Phases :
        /\ Len(chan[p]) <= batch
        /\ wpc[p] \in {"check", "evaluate", "send"} => Len(chan[p]) < batch

IInv == Typed /\ Position /\ Waves /\ Room

-----------------------------------------------------------------------------
(* Waves in numbers. *)

\* A wave begins after the one before, and the last one has a phase too.
LEMMA WaveBounds ==
    /\ LastWave \in Nat /\ 1 <= LastWave
    /\ \A w \in Nat : First(w + 1) = First(w) + MaxInFlight
    /\ \A w \in 1..LastWave : /\ First(w) \in Nat \ {0} /\ Last(w) \in Phases
                               /\ First(w) <= Last(w) /\ Last(w) < First(w) + MaxInFlight
    /\ \A w \in 1..LastWave : w < LastWave => Last(w) + 1 = First(w + 1)
<1>1. NumPhases \in Nat \ {0} /\ MaxInFlight \in Nat \ {0}
  BY InterpreterAssumption
<1>2. LastWave \in Nat /\ LastWave * MaxInFlight <= NumPhases + MaxInFlight - 1 /\ 1 <= LastWave
  BY <1>1 DEF LastWave
<1>3. \A w \in Nat : w * MaxInFlight \in Nat /\ (w + 1) * MaxInFlight = w * MaxInFlight + MaxInFlight
  BY <1>1
<1>4. \A v, w \in Nat : v <= w => v * MaxInFlight <= w * MaxInFlight
  BY <1>1
<1>5. ASSUME NEW w \in 1..LastWave
      PROVE  /\ (w - 1) * MaxInFlight \in Nat
             /\ w * MaxInFlight = (w - 1) * MaxInFlight + MaxInFlight
             /\ (w - 1) * MaxInFlight < NumPhases
             /\ w < LastWave => w * MaxInFlight < NumPhases
  <2>1. w \in Nat /\ w - 1 \in Nat /\ w = (w - 1) + 1 /\ w <= LastWave /\ w + 1 \in Nat
    BY <1>2
  <2>2. w * MaxInFlight = (w - 1) * MaxInFlight + MaxInFlight /\ (w - 1) * MaxInFlight \in Nat
    BY <1>3, <2>1
  <2>3. w * MaxInFlight <= LastWave * MaxInFlight
    BY <1>2, <1>4, <2>1
  <2>4. w < LastWave => (w + 1) * MaxInFlight <= LastWave * MaxInFlight
    BY <1>2, <1>4, <2>1
  <2>5. (w + 1) * MaxInFlight = w * MaxInFlight + MaxInFlight /\ w * MaxInFlight \in Nat
    BY <1>3, <2>1
  <2>6. LastWave * MaxInFlight \in Nat
    BY <1>2, <1>3
  <2>7. QED
    BY <1>1, <1>2, <2>2, <2>3, <2>4, <2>5, <2>6
<1>6. \A w \in Nat : First(w + 1) = First(w) + MaxInFlight
  BY <1>1, <1>3 DEF First
<1>7. \A w \in 1..LastWave : /\ First(w) \in Nat \ {0} /\ Last(w) \in Phases
                             /\ First(w) <= Last(w) /\ Last(w) < First(w) + MaxInFlight
  BY <1>1, <1>5 DEF First, Last, Phases
<1>8. \A w \in 1..LastWave : w < LastWave => Last(w) + 1 = First(w + 1)
  BY <1>1, <1>2, <1>5 DEF First, Last
<1>9. QED
  BY <1>2, <1>6, <1>7, <1>8

\* A phase of the wave, seen from both ends.
LEMMA InWave ==
    ASSUME Typed, Position
    PROVE  /\ First(wave) \in Nat \ {0} /\ Last(wave) \in Phases /\ NumPhases \in Nat
           /\ First(wave) + admitted \in Nat
           /\ \A p \in Phases : p \in Nat /\ 1 <= p /\ p <= NumPhases
           /\ \A n \in Nat : n \in Admitted <=> First(wave) <= n /\ n < First(wave) + admitted
           /\ \A n \in Nat : n \in Admitted => n \in Phases
<1>1. First(wave) \in Nat \ {0} /\ Last(wave) \in Phases
  BY WaveBounds DEF Typed
<1>2. NumPhases \in Nat /\ admitted \in Nat /\ First(wave) + admitted <= Last(wave) + 1
  BY InterpreterAssumption DEF Typed, Position
<1>3. QED
  BY <1>1, <1>2 DEF Admitted, Phases

\* Its ends stay where they are while the wave does.
LEMMA SameWave ==
    ASSUME wave' = wave
    PROVE  First(wave)' = First(wave) /\ Last(wave)' = Last(wave)
BY DEF First, Last

LEMMA InitHolds == Init => IInv
<1> SUFFICES ASSUME Init PROVE IInv
  OBVIOUS
<1>1. /\ First(1) = 1 /\ 1 \in 1..LastWave /\ First(1) <= Last(1)
      /\ MaxRecords \in Nat /\ NumPhases \in Nat \ {0}
  BY WaveBounds, InterpreterAssumption DEF First
<1>2. input.n \in 0..MaxRecords
  BY DEF Init, Published!Inputs
<1>3. batch \in Nat \ {0} /\ wave = 1 /\ cp = 1 /\ admitted = 0 /\ cpc = "gate"
  BY InterpreterAssumption DEF Init
<1>4. \A p \in Phases : /\ wpc[p] = "off" /\ chan[p] = << >> /\ receiver[p] = "alive"
                        /\ p >= 1
  BY DEF Init, Phases
<1>5. Typed
  BY <1>1, <1>2, <1>3 DEF Init, Typed
<1>6. Position
  <2>1. Last(1) \in Nat /\ 1 <= Last(1)
    BY <1>1, WaveBounds DEF Phases
  <2>2. First(wave) = 1 /\ Last(wave) = Last(1) /\ outcome = "ok0"
    BY <1>1, <1>3 DEF Init
  <2>3. QED
    BY <1>3, <2>1, <2>2 DEF Position
<1>7. Waves
  BY <1>1, <1>3, <1>4 DEF Waves, Phases
<1>8. Room
  BY <1>3, <1>4 DEF Room
<1>9. QED
  BY <1>5, <1>6, <1>7, <1>8 DEF IInv

-----------------------------------------------------------------------------
(* The coordinator. *)

\* Steps that leave the phases alone.
LEMMA GateKeeps ==
    ASSUME IInv, Gate
    PROVE  IInv'
<1>1. /\ cpc = "gate" /\ cpc' \in {"dead", "spawn"}
      /\ UNCHANGED <<program, wave, cp, outcome, admitted, links, worker>>
  BY DEF Gate
<1>2. QED
  BY <1>1, SameWave
  DEF IInv, Typed, Position, Waves, Room, program, links, worker, Whole, WavePhases, Admitted,
      Over

LEMMA SpawnKeeps ==
    ASSUME IInv, Spawn
    PROVE  IInv'
<1>0. /\ First(wave) \in Nat \ {0} /\ Last(wave) \in Nat /\ Last(wave) <= NumPhases
      /\ NumPhases \in Nat /\ cp \in Nat /\ admitted \in Nat
  BY InWave DEF IInv, Typed, Phases
<1>1. Typed /\ Position /\ Waves /\ Room
  BY DEF IInv
<1>2. /\ cpc = "spawn" /\ cp = First(wave) + admitted /\ cp <= Last(wave) /\ cp \in Phases
      /\ outcome = "ok0"
  BY <1>0, <1>1 DEF Spawn, Position, Phases
<1>3. /\ wpc' = [wpc EXCEPT ![cp] = "check"] /\ admitted' = admitted + 1
      /\ UNCHANGED <<input, batch, wave, outcome, chan, receiver, rec, failed>>
      /\ \/ cp < Last(wave) /\ cp' = cp + 1 /\ cpc' = "spawn"
         \/ ~(cp < Last(wave)) /\ cp' = First(wave) /\ cpc' = "receive"
  BY <1>2 DEF Spawn, program, links
<1>4. Typed'
  <2>1. wpc' \in [Phases -> {"off", "check", "evaluate", "send", "blocked", "ended",
                             "panicked"}]
    BY <1>1, <1>2, <1>3 DEF Typed
  <2>2. cp' \in Nat /\ admitted' \in Nat /\ cpc' \in {"spawn", "receive"}
    BY <1>0, <1>3
  <2>3. QED
    BY <1>1, <1>3, <2>1, <2>2 DEF Typed
<1>5. Position'
  BY <1>0, <1>1, <1>2, <1>3, SameWave DEF Position, Whole, WavePhases
<1>6. chan[cp] = << >> /\ wpc[cp] = "off"
  BY <1>1, <1>2, InWave, SameWave DEF Waves
<1>7. \A p \in Phases : p # cp => wpc'[p] = wpc[p]
  BY <1>1, <1>3 DEF Typed
<1>8. Waves'
  <2> SUFFICES ASSUME NEW p \in Phases
               PROVE  /\ p >= First(wave) + admitted' => wpc'[p] = "off" /\ chan[p] = << >>
                      /\ p < First(wave) => wpc'[p] \in {"ended", "panicked"}
                                             /\ receiver[p] = "dropped"
                      /\ receiver[p] = "dropped" => chan[p] = << >>
    BY <1>3, SameWave DEF Waves, Over
  <2>1. CASE p = cp
    <3>1. ~(cp >= First(wave) + admitted') /\ ~(cp < First(wave))
      BY <1>0, <1>2, <1>3
    <3>2. QED
      BY <1>6, <2>1, <3>1
  <2>2. CASE p # cp
    BY <1>1, <1>2, <1>3, <1>7, <2>2, InWave, SameWave DEF Typed, Waves, Over
  <2>3. QED
    BY <2>1, <2>2
<1>9. Room'
  <2>1. Len(chan[cp]) = 0 /\ batch > 0
    BY <1>1, <1>6 DEF Typed
  <2>2. QED
    BY <1>1, <1>2, <1>3, <1>7, <2>1 DEF Room
<1>10. QED
  BY <1>4, <1>5, <1>8, <1>9 DEF IInv

\* The value received is published or not: the phases are left as they are.
LEMMA EmitKeeps ==
    ASSUME IInv, Emit \/ EmitFails
    PROVE  IInv'
<1>1. Typed /\ Position /\ Waves /\ Room
  BY DEF IInv
<1>2. /\ cpc = "emit" /\ cpc' \in {"receive", "leave"}
      /\ outcome' = IF cpc' = "receive" THEN outcome ELSE "err"
      /\ UNCHANGED <<input, batch, wave, cp, admitted, chan, receiver, wpc, rec, failed>>
  BY DEF Emit, EmitFails, program, worker
<1>3. QED
  BY <1>1, <1>2, SameWave
  DEF IInv, Typed, Position, Waves, Room, Whole, WavePhases, Admitted, Over

\* SpawnFails, ReceiveDisconnected and Leave: so are they by a failure.
LEMMA FailureKeeps ==
    ASSUME IInv, SpawnFails \/ ReceiveDisconnected \/ Leave \/ DropDone \/ JoinWorker
    PROVE  IInv'
<1>0. /\ First(wave) \in Nat \ {0} /\ Last(wave) \in Nat /\ Last(wave) <= NumPhases
      /\ NumPhases \in Nat /\ cp \in Nat /\ admitted \in Nat
  BY InWave DEF IInv, Typed, Phases
<1>1. Typed /\ Position /\ Waves /\ Room
  BY DEF IInv
<1>2. UNCHANGED <<input, batch, wave, admitted, links, worker>>
  BY DEF SpawnFails, ReceiveDisconnected, Leave, DropDone, JoinWorker, program
<1>3. UNCHANGED <<chan, receiver, wpc, rec, failed>>
  BY <1>2 DEF links, worker
<1>4. CASE (SpawnFails \/ ReceiveDisconnected)
  <2>1. cpc' = "leave" /\ cp' = cp /\ outcome' = "err"
    BY <1>4 DEF SpawnFails, ReceiveDisconnected
  <2>2. QED
    BY <1>1, <1>2, <1>3, <2>1, SameWave
    DEF IInv, Typed, Position, Waves, Room, Whole, WavePhases, Admitted, Over
<1>5. CASE Leave
  <2>1. cpc = "leave" /\ cpc' = "drop" /\ cp' = First(wave) /\ outcome' = outcome
    BY <1>5 DEF Leave
  <2>2. QED
    BY <1>0, <1>1, <1>2, <1>3, <2>1, InWave, SameWave
    DEF IInv, Typed, Position, Waves, Room, Whole, WavePhases, Admitted, Over
<1>6. CASE DropDone
  <2>1. cpc = "drop" /\ cp \notin Admitted /\ cpc' = "join" /\ cp' = First(wave)
        /\ outcome' = outcome
    BY <1>6 DEF DropDone
  <2>2. \A p \in Admitted : receiver[p] = "dropped"
    BY <1>0, <1>1, <2>1, InWave DEF Waves, Position, Admitted
  <2>3. Typed' /\ Position' /\ Room'
    BY <1>0, <1>1, <1>2, <1>3, <2>1, InWave, SameWave
    DEF Typed, Position, Room, Whole, WavePhases
  <2>4. Waves'
    BY <1>1, <1>2, <1>3, <2>1, <2>2, InWave, SameWave DEF Waves, Admitted, Over
  <2>5. QED
    BY <2>3, <2>4 DEF IInv
<1>7. CASE JoinWorker
  <2>1. /\ cpc = "join" /\ cpc' = "join" /\ cp \in Admitted /\ Over(cp) /\ cp' = cp + 1
        /\ outcome' = "ok0" => outcome = "ok0"
    BY <1>7 DEF JoinWorker, Over
  <2>2. First(wave) <= cp /\ cp < First(wave) + admitted
    BY <1>0, <1>1, <2>1, InWave
  <2>3. First(wave)' = First(wave) /\ Last(wave)' = Last(wave) /\ Admitted' = Admitted
    BY <1>2, SameWave DEF Admitted
  <2>4. Typed' /\ Room'
    BY <1>0, <1>1, <1>2, <1>3, <2>1 DEF Typed, Room
  <2>5. Position'
    BY <1>0, <1>1, <1>2, <2>1, <2>2, <2>3 DEF Position, Whole, WavePhases
  <2>6. Waves'
    <3>1. \A p \in Phases : p \in Nat
      BY InterpreterAssumption DEF Phases
    <3>2. \A p \in Phases : First(wave) <= p /\ p < cp' => Over(p)
      BY <1>0, <1>1, <2>1, <3>1 DEF Waves
    <3>3. \A p \in Phases : Over(p)' <=> Over(p)
      BY <1>3 DEF Over
    <3>4. QED
      BY <1>1, <1>2, <1>3, <2>1, <2>3, <3>2, <3>3 DEF Waves
  <2>7. QED
    BY <2>4, <2>5, <2>6 DEF IInv
<1>8. QED
  BY <1>4, <1>5, <1>6, <1>7

\* recv takes a message away; a sender that waited goes on.
LEMMA TakeKeeps ==
    ASSUME IInv, cpc = "receive", Take(cp),
           UNCHANGED <<input, batch, wave, admitted, receiver, rec, failed>>,
           cpc' \in {"receive", "emit", "leave"}, cp' \in Nat,
           cpc' \in {"receive", "emit"} => cp' \in WavePhases /\ outcome' = "ok0",
           outcome' \in {"ok0", "ok1", "err"}
    PROVE  IInv'
<1>1. Typed /\ Position /\ Waves /\ Room /\ cp \in Phases
  BY InWave DEF IInv, Position, WavePhases, Phases, Typed
<1>2. /\ chan[cp] \in Seq(Message) /\ chan[cp] # << >>
      /\ chan' = [chan EXCEPT ![cp] = Tail(chan[cp])]
      /\ Tail(chan[cp]) \in Seq(Message) /\ Len(Tail(chan[cp])) = Len(chan[cp]) - 1
      /\ Len(chan[cp]) \in Nat /\ Len(chan[cp]) > 0
  BY <1>1 DEF Take, Typed
<1>3. PICK next \in {wpc[cp], "check", "ended"} :
        /\ wpc' = [wpc EXCEPT ![cp] = next]
        /\ wpc[cp] # "blocked" => next = wpc[cp]
  <2>1. PICK next : /\ next = IF wpc[cp] # "blocked" THEN wpc[cp]
                              ELSE IF chan[cp][Len(chan[cp])].kind = "value" THEN "check"
                              ELSE "ended"
                    /\ wpc' = [wpc EXCEPT ![cp] = next]
    BY DEF Take
  <2>2. next \in {wpc[cp], "check", "ended"} /\ (wpc[cp] # "blocked" => next = wpc[cp])
    BY <2>1
  <2>3. QED
    BY <2>1, <2>2
<1>4. First(wave)' = First(wave) /\ Last(wave)' = Last(wave) /\ Admitted' = Admitted
  BY SameWave DEF Admitted
<1>5. Typed'
  <2>1. chan' \in [Phases -> Seq(Message)]
    BY <1>1, <1>2 DEF Typed
  <2>2. wpc' \in [Phases -> {"off", "check", "evaluate", "send", "blocked", "ended",
                             "panicked"}]
    BY <1>1, <1>3 DEF Typed
  <2>3. QED
    BY <1>1, <2>1, <2>2 DEF Typed
<1>6. Position'
  BY <1>1, <1>4 DEF Position, Whole, WavePhases
<1>7. \A p \in Phases : p # cp => wpc'[p] = wpc[p] /\ chan'[p] = chan[p]
  BY <1>1, <1>2, <1>3 DEF Typed
<1>8. Waves'
  <2>1. First(wave) <= cp /\ cp < First(wave) + admitted /\ receiver[cp] # "dropped"
    <3>1. /\ First(wave) \in Nat /\ Last(wave) \in Nat /\ cp \in Nat /\ admitted \in Nat
      BY <1>1, InWave DEF Typed, Phases
    <3>2. QED
      BY <1>1, <1>2, <3>1 DEF Position, Whole, WavePhases, Waves
  <2>2. \A p \in Phases : p # cp => (Over(p) => Over(p)')
    BY <1>7 DEF Over
  <2>3. \A p \in Phases : p = cp => p < First(wave) + admitted /\ ~(p < First(wave))
    <3>1. /\ First(wave) \in Nat /\ cp \in Nat /\ admitted \in Nat
      BY <1>1, InWave DEF Typed
    <3>2. QED
      BY <2>1, <3>1
  <2>4. \A p \in Phases : p = cp => ~(p >= First(wave) + admitted)
    <3>1. /\ First(wave) \in Nat /\ cp \in Nat /\ admitted \in Nat
      BY <1>1, InWave DEF Typed
    <3>2. QED
      BY <2>1, <3>1
  <2>5. QED
    BY <1>1, <1>4, <1>7, <2>1, <2>2, <2>3, <2>4 DEF Waves
<1>9. Room'
  <2>1. Len(chan'[cp]) = Len(chan[cp]) - 1 /\ Len(chan[cp]) <= batch /\ batch \in Nat
    BY <1>1, <1>2 DEF Typed, Room
  <2>2. \A p \in Phases : p # cp => /\ Len(chan'[p]) <= batch
                                    /\ wpc'[p] \in {"check", "evaluate", "send"} =>
                                          Len(chan'[p]) < batch
    BY <1>1, <1>7 DEF Room
  <2>3. Len(chan'[cp]) <= batch /\ Len(chan'[cp]) < batch
    BY <1>2, <2>1
  <2>4. QED
    BY <2>2, <2>3 DEF Room
<1>10. QED
  BY <1>5, <1>6, <1>8, <1>9 DEF IInv

LEMMA ReceiveKeeps ==
    ASSUME IInv, ReceiveValue \/ ReceiveError \/ ReceiveDone
    PROVE  IInv'
<1>1. /\ cpc = "receive" /\ Take(cp)
      /\ UNCHANGED <<input, batch, wave, admitted, receiver, rec, failed>>
  BY DEF ReceiveValue, ReceiveError, ReceiveDone, Receiving, program
<1>2. cp \in WavePhases /\ outcome = "ok0" /\ cp \in Nat
  BY <1>1 DEF IInv, Position, Typed
<1>3. /\ cpc' \in {"receive", "emit", "leave"} /\ outcome' \in {"ok0", "ok1", "err"}
      /\ cp' = cp \/ (cp < Last(wave) /\ cp' = cp + 1)
      /\ cpc' \in {"receive", "emit"} => outcome' = "ok0"
  BY <1>1, <1>2 DEF ReceiveValue, ReceiveError, ReceiveDone
<1>4. First(wave) \in Nat /\ Last(wave) \in Nat
  BY InWave, InterpreterAssumption DEF IInv, Phases
<1>5. cp' \in Nat /\ cp' \in First(wave)..Last(wave)
  BY <1>2, <1>3, <1>4 DEF WavePhases
<1>6. cp' \in WavePhases
  BY <1>5 DEF WavePhases
<1>7. QED
  BY <1>1, <1>3, <1>5, <1>6, TakeKeeps

LEMMA DropReceiverKeeps ==
    ASSUME IInv, DropReceiver
    PROVE  IInv'
<1>1. Typed /\ Position /\ Waves /\ Room
  BY DEF IInv
<1>2. /\ cpc = "drop" /\ cp \in Admitted /\ cp' = cp + 1
      /\ receiver' = [receiver EXCEPT ![cp] = "dropped"]
      /\ chan' = [chan EXCEPT ![cp] = << >>]
      /\ UNCHANGED <<input, batch, cpc, wave, outcome, admitted, rec, failed>>
  BY DEF DropReceiver, program
<1>3. PICK next : /\ next = IF wpc[cp] = "blocked" THEN "ended" ELSE wpc[cp]
                  /\ wpc' = [wpc EXCEPT ![cp] = next]
  BY DEF DropReceiver
<1>4. /\ First(wave) \in Nat \ {0} /\ Last(wave) \in Nat /\ cp \in Nat /\ admitted \in Nat
      /\ cp \in Phases /\ First(wave) <= cp /\ cp < First(wave) + admitted
  BY <1>1, <1>2, InWave DEF Typed, Phases
<1>5. First(wave)' = First(wave) /\ Last(wave)' = Last(wave)
  BY <1>2, SameWave
<1>6. /\ receiver'[cp] = "dropped" /\ chan'[cp] = << >> /\ wpc'[cp] = next
      /\ \A p \in Phases : p # cp => /\ receiver'[p] = receiver[p] /\ chan'[p] = chan[p]
                                     /\ wpc'[p] = wpc[p]
  BY <1>1, <1>2, <1>3, <1>4 DEF Typed
<1>7. \A p \in Phases : p \in Nat
  BY InterpreterAssumption DEF Phases
<1>8. Typed'
  <2>1. << >> \in Seq(Message)
    OBVIOUS
  <2>2. chan' \in [Phases -> Seq(Message)] /\ receiver' \in [Phases -> {"alive", "dropped"}]
    BY <1>1, <1>2, <2>1 DEF Typed
  <2>3. wpc' \in [Phases -> {"off", "check", "evaluate", "send", "blocked", "ended",
                             "panicked"}]
    BY <1>1, <1>3 DEF Typed
  <2>4. QED
    BY <1>1, <1>2, <1>4, <2>2, <2>3 DEF Typed
<1>9. Position'
  BY <1>1, <1>2, <1>4, <1>5 DEF Position, Whole, WavePhases
<1>10. Waves'
  <2> SUFFICES ASSUME NEW p \in Phases
               PROVE  /\ p >= First(wave) + admitted => wpc'[p] = "off" /\ chan'[p] = << >>
                      /\ p < First(wave) => Over(p)' /\ receiver'[p] = "dropped"
                      /\ receiver'[p] = "dropped" => chan'[p] = << >>
                      /\ First(wave) <= p /\ p < cp + 1 => receiver'[p] = "dropped"
    BY <1>2, <1>5 DEF Waves
  <2>1. CASE p = cp
    BY <1>4, <1>6, <2>1
  <2>2. CASE p # cp
    <3>1. First(wave) <= p /\ p < cp + 1 => p < cp
      BY <1>4, <1>7, <2>2
    <3>2. QED
      BY <1>1, <1>2, <1>6, <2>2, <3>1 DEF Waves, Over
  <2>3. QED
    BY <2>1, <2>2
<1>11. Room'
  <2>1. Len(chan'[cp]) = 0 /\ batch \in Nat \ {0}
    BY <1>1, <1>6 DEF Typed
  <2>2. \A p \in Phases : /\ Len(chan'[p]) <= batch
                          /\ wpc'[p] \in {"check", "evaluate", "send"} => Len(chan'[p]) < batch
    BY <1>1, <1>6, <2>1 DEF Room
  <2>3. QED
    BY <1>2, <2>2 DEF Room
<1>12. QED
  BY <1>8, <1>9, <1>10, <1>11 DEF IInv

\* The threads of the wave have all ended: the next one begins with its first phase.
LEMMA WaveDoneKeeps ==
    ASSUME IInv, WaveDone
    PROVE  IInv'
<1>1. Typed /\ Position /\ Waves /\ Room
  BY DEF IInv
<1>2. /\ cpc = "join" /\ cp \notin Admitted
      /\ UNCHANGED <<input, batch, outcome, chan, receiver, wpc, rec, failed>>
  BY DEF WaveDone, program, links, worker
<1>3. /\ First(wave) \in Nat \ {0} /\ Last(wave) \in Nat /\ cp \in Nat /\ admitted \in Nat
      /\ \A p \in Phases : p \in Nat
  BY <1>1, InWave, InterpreterAssumption DEF Typed, Phases
<1>4. cp = First(wave) + admitted
  <2>1. First(wave) <= cp /\ cp <= First(wave) + admitted
    BY <1>1, <1>2 DEF Position
  <2>2. ~(First(wave) <= cp /\ cp < First(wave) + admitted)
    BY <1>1, <1>2, <1>3, InWave
  <2>3. QED
    BY <1>3, <2>1, <2>2
<1>5. CASE ~(outcome = "ok0" /\ wave < LastWave)
  <2>1. cpc' = "dead" /\ UNCHANGED <<wave, cp, admitted>>
    BY <1>5 DEF WaveDone
  <2>2. First(wave)' = First(wave) /\ Last(wave)' = Last(wave)
    BY <2>1, SameWave
  <2>3. Typed' /\ Room'
    BY <1>1, <1>2, <2>1 DEF Typed, Room
  <2>4. Position'
    BY <1>1, <1>2, <2>1, <2>2 DEF Position, Whole, WavePhases
  <2>5. Waves'
    BY <1>1, <1>2, <2>1, <2>2 DEF Waves, Over
  <2>6. QED
    BY <2>3, <2>4, <2>5 DEF IInv
<1>6. CASE outcome = "ok0" /\ wave < LastWave
  <2>1. /\ wave' = wave + 1 /\ cp' = First(wave + 1) /\ cpc' = "spawn" /\ admitted' = 0
    BY <1>6 DEF WaveDone
  <2>2. /\ wave + 1 \in 1..LastWave /\ wave \in 1..LastWave
        /\ Last(wave) + 1 = First(wave + 1)
    BY <1>1, <1>6, WaveBounds DEF Typed
  <2>3. /\ First(wave + 1) \in Nat /\ Last(wave + 1) \in Phases
        /\ First(wave + 1) <= Last(wave + 1) /\ Last(wave + 1) \in Nat
    BY <1>3, <2>2, WaveBounds
  <2>4. First(wave)' = First(wave + 1) /\ Last(wave)' = Last(wave + 1)
    BY <2>1 DEF First, Last
  <2>5. First(wave) + admitted = First(wave + 1)
    BY <1>1, <1>2, <1>6, <2>2 DEF Position, Whole
  <2>6. Typed' /\ Room'
    BY <1>1, <1>2, <2>1, <2>2, <2>3 DEF Typed, Room
  <2>7. Position'
    BY <1>2, <1>6, <2>1, <2>3, <2>4 DEF Position
  <2>8. Waves'
    <3> SUFFICES ASSUME NEW p \in Phases
                 PROVE  /\ p >= First(wave + 1) + 0 => wpc[p] = "off" /\ chan[p] = << >>
                        /\ p < First(wave + 1) => Over(p) /\ receiver[p] = "dropped"
                        /\ receiver[p] = "dropped" => chan[p] = << >>
      BY <1>2, <2>1, <2>4 DEF Waves, Over
    <3>1. p >= First(wave + 1) + 0 => p >= First(wave) + admitted
      BY <1>3, <2>3, <2>5
    <3>2. p < First(wave + 1) => p < First(wave) \/ (First(wave) <= p /\ p < cp /\ p \in Admitted)
      BY <1>1, <1>3, <1>4, <2>5, InWave
    <3>3. QED
      BY <1>1, <1>2, <3>1, <3>2 DEF Waves
  <2>9. QED
    BY <2>6, <2>7, <2>8 DEF IInv
<1>7. QED
  BY <1>5, <1>6

-----------------------------------------------------------------------------
(* The workers. *)

\* A worker that is not over belongs to the wave, and one that steps is neither
\* off nor over: its step can only disturb its own room.
LEMMA WorkerKeeps ==
    ASSUME IInv, NEW p \in Phases, wpc[p] \in {"check", "evaluate", "send"},
           NEW next \in {"check", "evaluate", "send", "blocked", "ended", "panicked"},
           wpc' = [wpc EXCEPT ![p] = next],
           NEW msgs \in Seq(Message), chan' = [chan EXCEPT ![p] = msgs],
           receiver[p] = "dropped" => msgs = << >>,
           Len(msgs) <= batch,
           next \in {"check", "evaluate", "send"} => Len(msgs) < batch,
           rec' \in [Phases -> 1..(MaxRecords + 1)], failed' \in [Phases -> {"no", "yes"}],
           UNCHANGED <<input, batch, cpc, wave, cp, outcome, admitted, receiver>>
    PROVE  IInv'
<1>1. Typed /\ Position /\ Waves /\ Room
  BY DEF IInv
<1>2. /\ First(wave) \in Nat /\ admitted \in Nat /\ p \in Nat
      /\ ~(p >= First(wave) + admitted) /\ ~(p < First(wave)) /\ ~Over(p)
  BY <1>1, InWave DEF Typed, Waves, Over
<1>3. First(wave)' = First(wave) /\ Last(wave)' = Last(wave) /\ Admitted' = Admitted
  BY SameWave DEF Admitted
<1>4. /\ wpc'[p] = next /\ chan'[p] = msgs
      /\ \A q \in Phases : q # p => wpc'[q] = wpc[q] /\ chan'[q] = chan[q]
  BY <1>1 DEF Typed
<1>5. Typed'
  <2>1. chan' \in [Phases -> Seq(Message)]
    BY <1>1 DEF Typed
  <2>2. wpc' \in [Phases -> {"off", "check", "evaluate", "send", "blocked", "ended",
                             "panicked"}]
    BY <1>1 DEF Typed
  <2>3. QED
    BY <1>1, <2>1, <2>2 DEF Typed
<1>6. Position'
  BY <1>1, <1>3 DEF Position, Whole, WavePhases
<1>7. Waves'
  <2> SUFFICES ASSUME NEW q \in Phases
               PROVE  /\ q >= First(wave) + admitted => wpc'[q] = "off" /\ chan'[q] = << >>
                      /\ q < First(wave) => Over(q)' /\ receiver[q] = "dropped"
                      /\ receiver[q] = "dropped" => chan'[q] = << >>
                      /\ cpc = "drop" /\ First(wave) <= q /\ q < cp => receiver[q] = "dropped"
                      /\ cpc = "join" /\ q \in Admitted => receiver[q] = "dropped"
                      /\ cpc = "join" /\ First(wave) <= q /\ q < cp => Over(q)'
    BY <1>3 DEF Waves
  <2>1. CASE q = p
    BY <1>1, <1>2, <1>4, <2>1 DEF Waves
  <2>2. CASE q # p
    BY <1>1, <1>4, <2>2 DEF Waves, Over
  <2>3. QED
    BY <2>1, <2>2
<1>8. Room'
  BY <1>1, <1>4 DEF Room
<1>9. QED
  BY <1>5, <1>6, <1>7, <1>8 DEF IInv

\* Steps that send nothing.
LEMMA QuietKeeps ==
    ASSUME IInv, NEW p \in Phases, Check(p) \/ Evaluate(p) \/ WorkerPanics(p)
    PROVE  IInv'
<1>1. Typed /\ Waves /\ Room
  BY DEF IInv
<1>2. /\ wpc[p] \in {"check", "evaluate", "send"}
      /\ UNCHANGED <<input, batch, cpc, wave, cp, outcome, admitted, chan, receiver, rec>>
  BY DEF Check, Evaluate, WorkerPanics, program, coord, links
<1>3. PICK next \in {"check", "evaluate", "send", "blocked", "ended", "panicked"} :
        wpc' = [wpc EXCEPT ![p] = next]
  BY DEF Check, Evaluate, WorkerPanics
<1>4. failed' \in [Phases -> {"no", "yes"}]
  BY <1>1 DEF Check, Evaluate, WorkerPanics, Typed
<1>5. chan[p] \in Seq(Message) /\ chan' = [chan EXCEPT ![p] = chan[p]]
  BY <1>1, <1>2 DEF Typed
<1>6. Len(chan[p]) < batch /\ Len(chan[p]) <= batch /\ (receiver[p] = "dropped" => chan[p] = << >>)
  BY <1>1, <1>2, <1>5 DEF Room, Waves, Typed
<1>7. rec' \in [Phases -> 1..(MaxRecords + 1)]
  BY <1>1, <1>2 DEF Typed
<1>8. QED
  BY <1>2, <1>3, <1>4, <1>5, <1>6, <1>7, WorkerKeeps

\* A send finds room: it waits when its message is the last one that fits.
LEMMA SendKeeps ==
    ASSUME IInv, NEW p \in Phases, Send(p)
    PROVE  IInv'
<1>1. Typed /\ Waves /\ Room
  BY DEF IInv
<1>2. /\ wpc[p] = "send" /\ failed' = failed
      /\ UNCHANGED <<input, batch, cpc, wave, cp, outcome, admitted, receiver>>
  BY DEF Send, program, coord
<1>3. /\ input.n \in Nat /\ input.n <= MaxRecords /\ rec[p] \in 1..(MaxRecords + 1)
      /\ failed[p] \in {"no", "yes"} /\ MaxRecords \in Nat
      /\ chan[p] \in Seq(Message) /\ Len(chan[p]) \in Nat /\ batch \in Nat
  BY <1>1, InterpreterAssumption DEF Typed
<1>4. /\ Result(p) \in Message
      /\ Result(p).kind = "value" => rec[p] <= input.n
  BY <1>3 DEF Result, Message, Done, Error, Value
<1>5. rec' \in [Phases -> 1..(MaxRecords + 1)]
  <2>1. PICK next : /\ next = IF Result(p).kind = "value" THEN rec[p] + 1 ELSE rec[p]
                    /\ rec' = [rec EXCEPT ![p] = next]
    BY DEF Send
  <2>2. next \in 1..(MaxRecords + 1)
    BY <1>3, <1>4, <2>1
  <2>3. QED
    BY <1>1, <2>1, <2>2 DEF Typed
<1>6. failed' \in [Phases -> {"no", "yes"}]
  BY <1>1, <1>2 DEF Typed
<1>7. Len(chan[p]) < batch
  BY <1>1, <1>2 DEF Room
<1>8. CASE receiver[p] = "dropped"
  <2>1. wpc' = [wpc EXCEPT ![p] = "ended"] /\ chan' = [chan EXCEPT ![p] = chan[p]]
    BY <1>1, <1>8 DEF Send, Typed
  <2>2. chan[p] = << >> /\ Len(chan[p]) <= batch
    BY <1>1, <1>3, <1>7, <1>8 DEF Waves
  <2>3. QED
    BY <1>2, <1>3, <1>5, <1>6, <2>1, <2>2, WorkerKeeps
<1>9. CASE receiver[p] # "dropped"
  <2> DEFINE msgs == Append(chan[p], Result(p))
  <2>1. PICK next : /\ next = IF SendBlocks(p) THEN "blocked"
                              ELSE IF Result(p).kind = "value" THEN "check"
                              ELSE "ended"
                    /\ wpc' = [wpc EXCEPT ![p] = next]
    BY <1>9 DEF Send
  <2>2. chan' = [chan EXCEPT ![p] = msgs]
    BY <1>9 DEF Send
  <2>3. msgs \in Seq(Message) /\ Len(msgs) = Len(chan[p]) + 1
    BY <1>3, <1>4
  <2>4. next \in {"check", "blocked", "ended"} /\ (next = "check" => ~SendBlocks(p))
    BY <2>1
  <2>5. Len(msgs) <= batch /\ (next = "check" => Len(msgs) < batch)
    BY <1>3, <1>7, <2>3, <2>4 DEF SendBlocks
  <2>6. next \in {"check", "evaluate", "send"} => next = "check"
    BY <2>4
  <2>7. next \in {"check", "evaluate", "send", "blocked", "ended", "panicked"}
    BY <2>4
  <2> HIDE DEF msgs
  <2>8. QED
    BY <1>2, <1>5, <1>6, <1>9, <2>1, <2>2, <2>3, <2>5, <2>6, <2>7, WorkerKeeps
<1>10. QED
  BY <1>8, <1>9

LEMMA StutterKeeps ==
    ASSUME IInv, UNCHANGED vars
    PROVE  IInv'
<1>1. UNCHANGED <<input, batch, cpc, wave, cp, outcome, admitted, chan, receiver, wpc, rec, failed>>
  BY DEF vars, program, coord, links, worker
<1>2. QED
  BY <1>1, SameWave
  DEF IInv, Typed, Position, Waves, Room, Whole, WavePhases, Admitted, Over

LEMMA StepHolds == IInv /\ [Next]_vars => IInv'
<1> SUFFICES ASSUME IInv, [Next]_vars PROVE IInv'
  OBVIOUS
<1>1. CASE Coordinator
  BY <1>1, GateKeeps, SpawnKeeps, FailureKeeps, ReceiveKeeps, EmitKeeps, DropReceiverKeeps,
     WaveDoneKeeps
  DEF Coordinator
<1>2. ASSUME NEW p \in Phases, Worker(p) PROVE IInv'
  BY <1>2, QuietKeeps, SendKeeps DEF Worker
<1>3. CASE Ended \/ UNCHANGED vars
  BY <1>3, StutterKeeps DEF Ended
<1>4. QED
  BY <1>1, <1>2, <1>3 DEF Next

\* The invariant everything below rests on.
THEOREM Invariant == Spec => []IInv
<1>1. QED
  BY InitHolds, StepHolds, PTL DEF Spec

-----------------------------------------------------------------------------
(* What the waves promise. *)

\* sync_channel(result_batch - 1), one blocked send, the value in publication and
\* the wave's end bound what is in memory: result_batch results for each admitted
\* phase, one more for the phase being published, none for any other.
THEOREM Backpressure == Spec => []ResultsBounded
<1>1. IInv => ResultsBounded
  <2> SUFFICES ASSUME IInv PROVE ResultsBounded
    OBVIOUS
  <2> DEFINE Sending(p) == IF wpc[p] = "send" /\ rec[p] <= input.n THEN 1 ELSE 0
             Emitting(p) == IF cpc = "emit" /\ p = cp THEN 1 ELSE 0
  <2>1. Typed /\ Position /\ Waves /\ Room
    BY DEF IInv
  <2>2. \A p \in Phases : Len(chan[p]) \in Nat /\ batch \in Nat
    BY <2>1 DEF Typed
  <2>3. \A p \in Phases : Held(p) = Len(chan[p]) + Sending(p) + Emitting(p)
    BY DEF Held
  <2>4. \A p \in Phases : Held(p) <= IF p = cp THEN batch + 1 ELSE batch
    <3> SUFFICES ASSUME NEW p \in Phases
                 PROVE  Held(p) <= IF p = cp THEN batch + 1 ELSE batch
      OBVIOUS
    <3>1. Len(chan[p]) <= batch /\ (wpc[p] = "send" => Len(chan[p]) < batch)
      BY <2>1 DEF Room
    <3>2. Len(chan[p]) + Sending(p) <= batch /\ Sending(p) \in Nat
      <4>1. PICK l \in Nat : l = Len(chan[p])
        BY <2>2
      <4>2. l <= batch /\ (Sending(p) = 1 => l < batch) /\ Sending(p) \in {0, 1}
        BY <3>1, <4>1
      <4> HIDE DEF Sending
      <4>3. QED
        BY <2>2, <4>1, <4>2
    <3>3. Emitting(p) <= 1 /\ Emitting(p) \in Nat /\ (p # cp => Emitting(p) = 0)
      OBVIOUS
    <3> HIDE DEF Sending, Emitting
    <3>4. Held(p) = Len(chan[p]) + Sending(p) + Emitting(p)
      BY <2>3
    <3>5. PICK l \in Nat, n \in Nat, e \in Nat :
            l = Len(chan[p]) /\ n = Sending(p) /\ e = Emitting(p)
      BY <2>2, <3>2, <3>3
    <3>6. l + n + e <= IF p = cp THEN batch + 1 ELSE batch
      BY <2>2, <3>2, <3>3, <3>5
    <3>7. QED
      BY <3>4, <3>5, <3>6
  <2>5. /\ First(wave) \in Nat /\ admitted \in Nat /\ \A p \in Phases : p \in Nat
        /\ Last(wave) \in Nat /\ \A p \in Admitted : p \in Phases
    BY <2>1, InWave DEF Typed, Admitted
  <2>6. \A p \in Phases \ Admitted : p < First(wave) \/ p >= First(wave) + admitted
    BY <2>1, <2>5, InWave
  <2>7. \A p \in Phases \ Admitted : chan[p] = << >> /\ wpc[p] # "send"
    BY <2>1, <2>6 DEF Waves, Over
  <2>8. cpc = "emit" => cp \in Admitted
    BY <2>1, <2>5 DEF Position, Whole, WavePhases, Admitted
  <2>9. \A p \in Phases \ Admitted : Held(p) = 0
    <3> SUFFICES ASSUME NEW p \in Phases \ Admitted PROVE Held(p) = 0
      OBVIOUS
    <3>1. Len(chan[p]) = 0 /\ Sending(p) = 0 /\ Emitting(p) = 0
      BY <2>7, <2>8
    <3> HIDE DEF Sending, Emitting
    <3>2. QED
      BY <2>3, <3>1
  <2>10. QED
    BY <2>4, <2>5, <2>9 DEF ResultsBounded
<1>2. QED
  BY Invariant, <1>1, PTL

\* emit is called for whole waves only: a step that writes finds every phase of
\* the wave admitted, and nothing failed in it.
THEOREM WholeWavesOnly == Spec => PublishesOnlyWholeWaves
<1>1. IInv /\ [Next]_vars => [out' # out => Admitted = WavePhases /\ outcome = "ok0"]_vars
  <2> SUFFICES ASSUME IInv, Next, out' # out
               PROVE  Admitted = WavePhases /\ outcome = "ok0"
    BY DEF vars, host
  <2>1. Emit \/ EmitFails
    BY DEF Next, Coordinator, Worker, Ended, vars, host, Gate, Spawn, SpawnFails, ReceiveValue,
           ReceiveError, ReceiveDone, ReceiveDisconnected, Leave, DropReceiver, DropDone, JoinWorker, WaveDone,
           Check, Evaluate, WorkerPanics, Send
  <2>2. cpc = "emit"
    BY <2>1 DEF Emit, EmitFails
  <2>3. Whole /\ outcome = "ok0" /\ Typed /\ Position
    BY <2>2 DEF IInv, Position
  <2>4. First(wave) \in Nat /\ Last(wave) \in Nat /\ admitted \in Nat
    BY <2>3, InWave, InterpreterAssumption DEF Typed, Phases
  <2>5. First(wave) + admitted - 1 = Last(wave)
    BY <2>3, <2>4 DEF Whole
  <2>6. QED
    BY <2>3, <2>5 DEF Admitted, WavePhases
<1>2. QED
  BY Invariant, <1>1, PTL DEF Spec, PublishesOnlyWholeWaves

-----------------------------------------------------------------------------
(* The reference output in numbers. *)

\* A number is taken apart by \div and % the way it was put together.
LEMMA Quotient ==
    ASSUME NEW d \in Nat \ {0}, NEW q \in Nat, NEW x \in Nat, x < d
    PROVE  (q * d + x) \div d = q /\ (q * d + x) % d = x
<1> DEFINE m == q * d + x
           e == m \div d
<1>1. m \in Nat /\ q * d \in Nat
  OBVIOUS
<1>2. e \in Int /\ m % d \in Int /\ m = (e * d) + (m % d) /\ 0 <= m % d /\ m % d < d
  BY <1>1
<1>3. \A a, b \in Int : a < b => a * d + d <= b * d
  OBVIOUS
<1>4. e * d \in Int /\ q * d \in Int
  BY <1>2
<1>5. ~(e < q) /\ ~(q < e)
  BY <1>1, <1>2, <1>3, <1>4
<1>6. e = q
  BY <1>2, <1>5
<1>7. m % d = x
  BY <1>1, <1>2, <1>4, <1>6
<1>8. QED
  BY <1>6, <1>7

\* The same twice over: v, w and p are the digits of k in base U, then n.
Splits(n, U, p, w, v) ==
    \A N, k : N = n * U /\ k = (p * N) + ((w * U) + v) =>
        /\ k \in Nat /\ (w * U) + v < N
        /\ k \div N = p /\ (k % N) \div U = w /\ k % U = v

LEMMA Digits ==
    ASSUME NEW n \in Nat \ {0}, NEW U \in Nat \ {0}, NEW p \in Nat, NEW w \in Nat, NEW v \in Nat,
           w < n, v < U
    PROVE  Splits(n, U, p, w, v)
<1> SUFFICES ASSUME NEW N, N = n * U, NEW k, k = (p * N) + ((w * U) + v)
             PROVE  /\ k \in Nat /\ (w * U) + v < N
                    /\ k \div N = p /\ (k % N) \div U = w /\ k % U = v
  BY DEF Splits
<1>1. PICK a \in Nat : a = w * U
  OBVIOUS
<1>2. N \in Nat \ {0} /\ a + U <= N
  <2>1. \A b, c \in Nat : b <= c => b * U <= c * U
    OBVIOUS
  <2>2. (w + 1) * U <= n * U
    BY <2>1
  <2>3. (w + 1) * U = a + U /\ n * U \in Nat \ {0}
    BY <1>1
  <2>4. QED
    BY <2>2, <2>3
<1>3. PICK x \in Nat : x = a + v /\ x < N
  BY <1>2
<1>4. PICK c \in Nat : c = p * N
  BY <1>2
<1>5. k = c + x
  BY <1>1, <1>3, <1>4
<1>6. k \div N = p /\ k % N = x
  <2>1. (p * N + x) \div N = p /\ (p * N + x) % N = x
    BY <1>2, <1>3, Quotient
  <2>2. k = p * N + x
    BY <1>4, <1>5
  <2>3. QED
    BY <2>1, <2>2
<1>7. x \div U = w
  <2>1. (w * U + v) \div U = w
    BY Quotient
  <2>2. QED
    BY <1>1, <1>3, <2>1
<1>8. k % U = v
  <2>1. PICK d \in Nat : d = p * n
    OBVIOUS
  <2>2. c = d * U
    BY <1>4, <2>1
  <2>3. d * U + w * U = (d + w) * U
    BY <2>1
  <2>4. PICK b \in Nat : b = d + w
    BY <2>1
  <2>5. (b * U + v) % U = v
    BY <2>4, Quotient
  <2>6. b * U = c + a
    BY <1>1, <2>2, <2>3, <2>4
  <2>7. b * U + v = k
    BY <1>1, <1>3, <1>4, <1>5, <2>6
  <2>8. QED
    BY <2>5, <2>7
<1>9. k \in Nat /\ (w * U) + v < N
  BY <1>1, <1>3, <1>4, <1>5
<1>10. QED
  BY <1>6, <1>7, <1>8, <1>9

\* A set of numbers has a least one.
LEMMA Least ==
    ASSUME NEW S \in SUBSET Nat, S # {}
    PROVE  \E m \in S : \A k \in S : m <= k
<1>1. PICK m \in S : \A k \in S : <<k, m>> \notin OpToRel(<, Nat)
  BY WFMin, NatLessThanWellFounded
<1>2. ASSUME NEW k \in S PROVE m <= k
  <2>1. ~(k < m)
    BY <1>1, <1>2 DEF OpToRel
  <2>2. QED
    BY <2>1
<1>3. QED
  BY <1>2

\* What an input says of a phase.
LEMMA InputShape ==
    ASSUME NEW i \in Published!Inputs
    PROVE  /\ i.n \in Nat /\ i.n <= MaxRecords
           /\ \A p \in Phases : i.error[p] \in Nat /\ 1 <= i.error[p] /\ i.error[p] <= i.n + 1
           /\ \A f \in i.falsy : /\ f = <<f[1], f[2]>> /\ f[1] \in Phases
                                 /\ f[2] \in Nat /\ 1 <= f[2] /\ f[2] < i.error[f[1]]
<1>1. PICK n \in 0..MaxRecords :
        /\ i \in [n : {n}, error : [Phases -> 1..(n + 1)], falsy : SUBSET (Phases \X (1..n))]
        /\ \A f \in i.falsy : f[2] < i.error[f[1]]
  BY DEF Published!Inputs, Published!Phases, Phases
<1>2. i.n = n /\ i.error \in [Phases -> 1..(n + 1)] /\ i.falsy \subseteq Phases \X (1..n)
  BY <1>1
<1>3. QED
  BY <1>1, <1>2, InterpreterAssumption

\* The first phase that fails is where the reference ends.
LEMMA FirstFailure ==
    ASSUME NEW i, NEW p \in Phases, Published!Fails(i, p),
           \A q \in Phases : q < p => ~Published!Fails(i, q)
    PROVE  Published!LastPhase(i) = p
<1>1. \A q \in Phases : q \in Nat /\ 1..(q - 1) \subseteq Phases
  BY InterpreterAssumption DEF Phases
<1> DEFINE Is(q) == Published!Fails(i, q) /\ \A r \in 1..(q - 1) : ~Published!Fails(i, r)
<1>2. Is(p)
  <2>1. \A r \in 1..(p - 1) : r \in Phases /\ r < p
    BY <1>1 DEF Phases
  <2>2. QED
    BY <2>1
<1>3. \A q \in Phases : Is(q) => q = p
  <2> SUFFICES ASSUME NEW q \in Phases, Is(q) PROVE q = p
    OBVIOUS
  <2>1. ~(q < p)
    OBVIOUS
  <2>2. ~(p < q)
    <3>1. p < q => p \in 1..(q - 1)
      BY <1>1 DEF Phases
    <3>2. QED
      BY <3>1
  <2>3. QED
    BY <1>1, <2>1, <2>2
<1>4. Published!LastPhase(i) = CHOOSE q \in Phases : Is(q)
  BY DEF Published!LastPhase, Published!Phases, Phases
<1>5. QED
  BY <1>2, <1>3, <1>4

\* No phase before it fails, and it is not beyond the last one.
LEMMA LastPhaseReached ==
    ASSUME NEW i, NEW p \in Phases, \A q \in Phases : q < p => ~Published!Fails(i, q)
    PROVE  /\ Published!LastPhase(i) \in Phases /\ p <= Published!LastPhase(i)
           /\ p < Published!LastPhase(i) => ~Published!Fails(i, p)
           /\ (\A q \in Phases : ~Published!Fails(i, q)) => Published!LastPhase(i) = NumPhases
<1> DEFINE F == {q \in Phases : Published!Fails(i, q)}
<1>1. F \subseteq Nat /\ NumPhases \in Phases /\ \A q \in Phases : q \in Nat /\ q <= NumPhases
  BY InterpreterAssumption DEF Phases
<1>2. CASE F = {}
  <2>1. Published!LastPhase(i) = NumPhases
    BY <1>2 DEF Published!LastPhase, Published!Phases, Phases
  <2>2. QED
    BY <1>1, <1>2, <2>1
<1>3. CASE F # {}
  <2>1. PICK m \in F : \A k \in F : m <= k
    BY <1>1, <1>3, Least
  <2>2. m \in Phases /\ Published!Fails(i, m) /\ \A q \in Phases : q < m => ~Published!Fails(i, q)
    BY <1>1, <2>1
  <2>3. Published!LastPhase(i) = m
    BY <2>2, FirstFailure
  <2>4. ~(m < p) /\ p \in Nat /\ m \in Nat
    BY <1>1, <2>2
  <2>5. QED
    BY <2>2, <2>3, <2>4
<1>4. QED
  BY <1>2, <1>3

\* The reference is a sequence.
LEMMA ReferenceShape ==
    ASSUME NEW i \in Published!Inputs
    PROVE  /\ Published!ReferenceLength(i) \in Nat
           /\ Len(Published!Reference(i)) = Published!ReferenceLength(i)
           /\ Published!Reference(i) =
                 [k \in 1..Published!ReferenceLength(i) |-> Published!Reference(i)[k]]
<1>1. Published!LastPhase(i) \in Phases
  <2>1. 1 \in Phases /\ \A q \in Phases : ~(q < 1)
    BY InterpreterAssumption DEF Phases
  <2>2. QED
    BY <2>1, LastPhaseReached
<1>2. /\ Published!LastPhase(i) - 1 \in Nat /\ i.error[Published!LastPhase(i)] - 1 \in Nat
      /\ i.n \in Nat /\ Units \in Nat
  BY <1>1, InputShape, InterpreterAssumption DEF Phases
<1>3. Published!ReferenceLength(i) \in Nat
  <2>1. Published!PhaseUnits(i) \in Nat
    BY <1>2 DEF Published!PhaseUnits
  <2>2. (Published!LastPhase(i) - 1) * Published!PhaseUnits(i) \in Nat
        /\ (i.error[Published!LastPhase(i)] - 1) * Units \in Nat
    BY <1>2, <2>1
  <2>3. QED
    BY <2>2 DEF Published!ReferenceLength
<1>4. QED
  BY <1>3 DEF Published!Reference

\* Where the units of phase p stand in the reference, r records of it being out.
Index(i, p, r) == (p - 1) * Published!PhaseUnits(i) + r * Units

\* Unit u of record r of phase p, when no phase before p fails.
LEMMA ReferenceUnit ==
    ASSUME NEW i \in Published!Inputs, NEW p \in Phases,
           \A q \in Phases : q < p => ~Published!Fails(i, q),
           NEW r \in 1..i.n, r < i.error[p], NEW u \in 1..Units
    PROVE  /\ Index(i, p, r - 1) + u \in 1..Len(Published!Reference(i))
           /\ Published!Reference(i)[Index(i, p, r - 1) + u] = <<p, r, u>>
<1> DEFINE N == Published!PhaseUnits(i)
           k == Index(i, p, r - 1) + u
           L == Published!LastPhase(i)
<1>1. /\ Units \in Nat \ {0} /\ i.n \in Nat \ {0} /\ r \in Nat \ {0} /\ u \in Nat \ {0}
      /\ p \in Nat \ {0} /\ NumPhases \in Nat /\ p - 1 \in Nat /\ r - 1 \in Nat /\ u - 1 \in Nat
      /\ r <= i.n /\ u <= Units
  BY InterpreterAssumption, InputShape DEF Phases
<1>2. /\ L \in Phases /\ p <= L /\ (p < L => ~Published!Fails(i, p))
  BY LastPhaseReached
<1>3. i.error[L] \in Nat /\ 1 <= i.error[L] /\ L \in Nat /\ L >= 1 /\ L - 1 \in Nat
      /\ i.error[p] \in Nat /\ i.error[L] - 1 \in Nat
  BY <1>2, InputShape, InterpreterAssumption DEF Phases
<1>4. N = i.n * Units /\ N \in Nat /\ (r - 1) * Units \in Nat /\ (p - 1) * N \in Nat
  BY <1>1 DEF Published!PhaseUnits
<1>5. \A a, b, c \in Nat : a <= b => a * c <= b * c
  OBVIOUS
<1>6. (r - 1) * Units + Units = r * Units /\ r * Units <= i.n * Units
  BY <1>1, <1>5
<1>7. PICK v \in Nat, w \in Nat, c \in Nat :
        v = u - 1 /\ w = r - 1 /\ c = p - 1 /\ v < Units /\ w < i.n
  <2>1. u - 1 < Units /\ r - 1 < i.n
    BY <1>1
  <2>2. QED
    BY <1>1, <2>1
<1>8. k - 1 = (c * N) + ((w * Units) + v) /\ k \in Nat /\ k >= 1
  BY <1>1, <1>4, <1>7 DEF Index
<1>9. PICK j : j = k - 1
  OBVIOUS
<1>10. j \div N = c /\ (j % N) \div Units = w /\ j % Units = v
  <2> HIDE DEF N, k
  <2>1. j = (c * N) + ((w * Units) + v)
    BY <1>8, <1>9
  <2>2. N = i.n * Units
    BY <1>4
  <2>3. Units \in Nat \ {0} /\ i.n \in Nat \ {0}
    BY <1>1
  <2>4. w < i.n /\ v < Units
    BY <1>7
  <2>5. Splits(i.n, Units, c, w, v)
    BY <2>3, <2>4, Digits
  <2>6. QED
    BY <2>1, <2>2, <2>5 DEF Splits
<1>11. /\ ((k - 1) \div N) + 1 = p /\ (((k - 1) % N) \div Units) + 1 = r
       /\ ((k - 1) % Units) + 1 = u
  <2> HIDE DEF N, k
  <2>1. c + 1 = p /\ w + 1 = r /\ v + 1 = u
    BY <1>1, <1>7
  <2>2. QED
    BY <1>9, <1>10, <2>1
<1>12. k <= Published!ReferenceLength(i)
  <2>1. Published!ReferenceLength(i) = (L - 1) * N + (i.error[L] - 1) * Units
    BY DEF Published!ReferenceLength
  <2>2. (L - 1) * N \in Nat /\ (i.error[L] - 1) * Units \in Nat /\ k = (p - 1) * N + (r - 1) * Units + u
    BY <1>1, <1>3, <1>4 DEF Index
  <2>3. CASE p = L
    <3>1. r * Units <= (i.error[L] - 1) * Units
      BY <1>1, <1>3, <1>5, <2>3
    <3>2. QED
      BY <1>1, <1>4, <1>6, <2>1, <2>2, <2>3, <3>1
  <2>4. CASE p < L
    <3>1. p * N <= (L - 1) * N
      BY <1>1, <1>3, <1>4, <1>5, <2>4
    <3>2. p * N = (p - 1) * N + N
      BY <1>1, <1>4
    <3>3. QED
      BY <1>1, <1>4, <1>6, <2>1, <2>2, <3>1, <3>2
  <2>5. QED
    BY <1>1, <1>2, <1>3, <2>3, <2>4
<1>13. Published!ReferenceLength(i) \in Nat
  <2>1. (L - 1) * N \in Nat /\ (i.error[L] - 1) * Units \in Nat
    BY <1>1, <1>3, <1>4
  <2>2. QED
    BY <2>1 DEF Published!ReferenceLength
<1>14. k \in 1..Published!ReferenceLength(i)
  BY <1>8, <1>12, <1>13
<1>15. Published!Reference(i)[k] = <<((k - 1) \div N) + 1, (((k - 1) % N) \div Units) + 1,
                                    ((k - 1) % Units) + 1>>
  BY <1>14 DEF Published!Reference
<1>16. Len(Published!Reference(i)) = Published!ReferenceLength(i)
  BY <1>13 DEF Published!Reference
<1>17. QED
  BY <1>11, <1>14, <1>15, <1>16

\* Its length, for a first failing phase and for none.
LEMMA ReferenceEnd ==
    ASSUME NEW i \in Published!Inputs, NEW p \in Phases,
           \A q \in Phases : q < p => ~Published!Fails(i, q),
           Published!Fails(i, p) \/ p = NumPhases
    PROVE  Len(Published!Reference(i)) = Index(i, p, i.error[p] - 1)
<1>1. Published!LastPhase(i) = p
  BY FirstFailure, LastPhaseReached, InterpreterAssumption DEF Phases
<1>2. /\ p - 1 \in Nat /\ i.error[p] - 1 \in Nat /\ Units \in Nat /\ i.n \in Nat
  BY InputShape, InterpreterAssumption DEF Phases
<1>3. (p - 1) * Published!PhaseUnits(i) \in Nat /\ (i.error[p] - 1) * Units \in Nat
  BY <1>2 DEF Published!PhaseUnits
<1>4. Published!ReferenceLength(i) \in Nat
  BY <1>1, <1>3 DEF Published!ReferenceLength
<1>5. QED
  BY <1>1, <1>4 DEF Published!Reference, Published!ReferenceLength, Index

-----------------------------------------------------------------------------
(* What has been published, and what the channels hold. *)

FineUpTo(p) == \A q \in Phases : q < p => ~Published!Fails(input, q)
At(p, r) == Len(out) = Index(input, p, r)

\* Standard output is the beginning of the reference.
Content ==
    /\ out \in Seq(Nat \X Nat \X Nat)
    /\ Len(out) <= Len(Published!Reference(input))
    /\ out = [k \in 1..Len(out) |-> Published!Reference(input)[k]]

\* What a worker has found out about its phase.
Produced ==
    \A p \in Phases :
        /\ rec[p] <= input.error[p]
        /\ wpc[p] = "evaluate" => rec[p] <= input.n
        /\ wpc[p] = "off" => rec[p] = 1
        /\ failed[p] = "yes" => \E r \in 1..input.n : <<p, r>> \in input.falsy
        /\ failed[p] = "no" => \A r \in 1..input.n : <<p, r>> \in input.falsy =>
                                   r >= rec[p] /\ (wpc[p] = "send" => r > rec[p])
        /\ wpc[p] = "panicked" => fault = "yes"

\* The channel of p continues after its first g results, up to the cursor of its
\* worker or to the message that ends it.
Queue(p, g) ==
    /\ \A k \in 1..Len(chan[p]) :
          chan[p][k] = IF g + k < rec[p] THEN Value(g + k) ELSE Result(p)
    /\ \/ g + Len(chan[p]) = rec[p] - 1 /\ wpc[p] # "ended"
       \/ /\ g + Len(chan[p]) = rec[p] /\ chan[p] # << >>
          /\ wpc[p] \in {"blocked", "ended"} /\ Result(p).kind # "value"

Complete ==
    /\ Len(out) = Len(Published!Reference(input))
    /\ \E p \in Phases : Published!Fails(input, p)

\* The value the coordinator holds is the next one of p.
Due(p, r) == index = r /\ r \in 1..input.n /\ r < input.error[p]

\* How far publication is at each place of the coordinator.
Pending ==
    /\ cpc = "dead" <=> status # "running"
    /\ cpc \notin {"gate", "dead"} => input.n > 0
    /\ cpc \in {"gate", "dead"} => \A p \in Phases : ~Live(p)
    /\ cpc \in {"gate", "spawn", "receive", "emit"} =>
          cancel = "no" /\ \A p \in Phases : p >= First(wave) => receiver[p] = "alive"
    /\ \A p \in Phases : p > Last(wave) => receiver[p] = "alive"
    /\ cpc \in {"gate", "spawn"} =>
          /\ \A p \in Nat : p = First(wave) => FineUpTo(p) /\ At(p, 0)
          /\ \A p \in Phases : p >= First(wave) => Queue(p, 0)
    /\ cpc = "receive" =>
          \A p \in Phases : p = cp => FineUpTo(p) /\ \E g \in Nat : At(p, g) /\ Queue(p, g)
    /\ cpc = "emit" =>
          \A p \in Phases : p = cp =>
             FineUpTo(p) /\ \E g \in Nat : At(p, g) /\ Queue(p, g + 1) /\ Due(p, g + 1)
    /\ cpc \in {"receive", "emit"} => \A p \in Phases : p > cp => Queue(p, 0)
    /\ cpc \in {"leave", "drop", "join"} /\ outcome = "ok0" =>
          \A p \in Nat : p = Last(wave) + 1 => FineUpTo(p) /\ At(p, 0)
    /\ cpc \in {"leave", "drop", "join"} /\ outcome # "ok0" => fault = "yes" \/ Complete

Ordered == (input \in Published!Inputs) /\ Content /\ Produced /\ Pending

-----------------------------------------------------------------------------
(* Output. *)

\* An input does not change, and neither does what is said of it.
LEMMA SameInput ==
    ASSUME input' = input, NEW p
    PROVE  /\ FineUpTo(p)' <=> FineUpTo(p)
           /\ out' = out => (At(p, 0)' <=> At(p, 0)) /\ (Complete' <=> Complete)
           /\ out' = out => \A g : At(p, g)' <=> At(p, g)
BY DEF FineUpTo, At, Complete, Index

\* What is out stays out.
LEMMA ContentKept ==
    ASSUME Content, UNCHANGED <<input, out>>
    PROVE  Content'
BY DEF Content

\* Units of the record that is due are appended where the reference has them.
LEMMA OutGrows ==
    ASSUME input \in Published!Inputs, Content, NEW p \in Phases, FineUpTo(p),
           NEW r \in 1..input.n, r < input.error[p], At(p, r - 1),
           NEW m \in 0..Units, NEW more, more = [k \in 1..m |-> <<p, r, k>>],
           input' = input, out' = out \o more
    PROVE  /\ Content' /\ Len(out') = Len(out) + m
           /\ m > 0 => Len(out') \in (Len(out) + 1)..Len(Published!Reference(input))
           /\ out' = SubSeq(Published!Reference(input), 1, Len(out'))
<1> DEFINE Ref == Published!Reference(input)
           S == Nat \X Nat \X Nat
<1>1. /\ p \in Nat /\ r \in Nat /\ m \in Nat /\ Units \in Nat
      /\ \A k \in 1..m : k \in 1..Units /\ k \in Nat
  BY InterpreterAssumption, InputShape DEF Phases
<1>2. more \in Seq(S) /\ Len(more) = m /\ \A k \in 1..m : more[k] = <<p, r, k>>
  BY <1>1
<1>3. out \in Seq(S) /\ Len(out) \in Nat /\ \A k \in 1..Len(out) : out[k] = Ref[k]
  BY DEF Content
<1>4. /\ out' \in Seq(S) /\ Len(out') = Len(out) + m
      /\ \A k \in 1..Len(out') : out'[k] = IF k <= Len(out) THEN out[k] ELSE more[k - Len(out)]
  BY <1>1, <1>2, <1>3
<1>5. \A k \in 1..m : Len(out) + k \in 1..Len(Ref) /\ Ref[Len(out) + k] = <<p, r, k>>
  BY <1>1, ReferenceUnit DEF At, FineUpTo
<1>6. \A k \in 1..Len(out') : out'[k] = Ref[k]
  <2> SUFFICES ASSUME NEW k \in 1..Len(out') PROVE out'[k] = Ref[k]
    OBVIOUS
  <2>1. CASE k <= Len(out)
    BY <1>3, <1>4, <2>1
  <2>2. CASE ~(k <= Len(out))
    <3>1. k - Len(out) \in 1..m /\ Len(out) + (k - Len(out)) = k
      BY <1>1, <1>3, <1>4, <2>2
    <3>2. QED
      BY <1>2, <1>4, <1>5, <2>2, <3>1
  <2>3. QED
    BY <2>1, <2>2
<1>7. Published!ReferenceLength(input) \in Nat /\ Len(Ref) \in Nat /\ Len(out) <= Len(Ref)
      /\ Ref = [k \in 1..Len(Ref) |-> Ref[k]]
  BY ReferenceShape DEF Content
<1>8. Len(out') <= Len(Ref) /\ Len(out') \in Nat
  <2>1. CASE m = 0
    BY <1>3, <1>4, <1>7, <2>1
  <2>2. CASE m > 0
    BY <1>1, <1>4, <1>5, <2>2
  <2>3. QED
    BY <1>1, <2>1, <2>2
<1>9. out' = [k \in 1..Len(out') |-> out'[k]]
  <2>1. out' \in [1..Len(out') -> S]
    BY <1>4, LenProperties
  <2>2. QED
    BY <2>1
<1>10. out' = [k \in 1..Len(out') |-> Ref[k]]
  BY <1>6, <1>9
<1>11. SubSeq(Ref, 1, Len(out')) = [k \in 1..Len(out') |-> Ref[k]]
  BY <1>7, <1>8
<1>12. Content'
  BY <1>4, <1>8, <1>10 DEF Content
<1>13. m > 0 => Len(out') \in (Len(out) + 1)..Len(Ref)
  BY <1>1, <1>3, <1>4, <1>7, <1>8
<1>14. out' = SubSeq(Ref, 1, Len(out'))
  BY <1>10, <1>11
<1>15. QED
  BY <1>4, <1>12, <1>13, <1>14

\* The places of consecutive records and phases.
LEMMA Places ==
    ASSUME input \in Published!Inputs, NEW p \in Nat \ {0}, NEW g \in Nat
    PROVE  /\ Index(input, p, g) \in Nat
           /\ Index(input, p, g + 1) = Index(input, p, g) + Units
           /\ Index(input, p, input.n) = Index(input, p + 1, 0)
<1>1. /\ Units \in Nat \ {0} /\ input.n \in Nat /\ p - 1 \in Nat
  BY InterpreterAssumption, InputShape
<1>2. Published!PhaseUnits(input) = input.n * Units /\ input.n * Units \in Nat
  BY <1>1 DEF Published!PhaseUnits
<1>3. (p - 1) * (input.n * Units) \in Nat /\ g * Units \in Nat
      /\ (g + 1) * Units = g * Units + Units
      /\ p * (input.n * Units) = (p - 1) * (input.n * Units) + input.n * Units
  BY <1>1, <1>2
<1>4. QED
  BY <1>1, <1>2, <1>3 DEF Index

\* Initially nothing is out and every channel is empty.
LEMMA InitOrdered == Init => Ordered
<1> SUFFICES ASSUME Init PROVE Ordered
  OBVIOUS
<1>1. /\ input \in Published!Inputs /\ out = << >> /\ status = "running" /\ cpc = "gate"
      /\ wave = 1 /\ cancel = "no"
      /\ \A p \in Phases : /\ chan[p] = << >> /\ receiver[p] = "alive" /\ wpc[p] = "off"
                           /\ rec[p] = 1 /\ failed[p] = "no" /\ p \in Nat /\ p >= 1
  BY InterpreterAssumption DEF Init, Phases
<1>2. First(wave) = 1
  BY <1>1, InterpreterAssumption DEF First
<1>3. Content
  <2>1. Len(Published!Reference(input)) \in Nat
    BY <1>1, ReferenceShape
  <2>2. out \in Seq(Nat \X Nat \X Nat) /\ Len(out) = 0
    BY <1>1
  <2>3. QED
    BY <1>1, <2>1, <2>2 DEF Content
<1>4. Produced
  <2>1. \A p \in Phases : 1 <= input.error[p]
    BY <1>1, InputShape
  <2>2. \A r \in 1..input.n : r >= 1
    BY <1>1, InputShape
  <2>3. QED
    BY <1>1, <2>1, <2>2 DEF Produced
<1>5. FineUpTo(1) /\ At(1, 0)
  <2>1. input.n * Units \in Nat
    BY <1>1, InputShape, InterpreterAssumption
  <2>2. Index(input, 1, 0) = 0
    BY <2>1, InterpreterAssumption DEF Index, Published!PhaseUnits
  <2>3. \A q \in Phases : ~(q < 1)
    BY <1>1
  <2>4. Len(out) = 0
    BY <1>1
  <2>5. QED
    BY <2>2, <2>3, <2>4 DEF FineUpTo, At
<1>6. \A p \in Phases : Queue(p, 0)
  <2> SUFFICES ASSUME NEW p \in Phases PROVE Queue(p, 0)
    OBVIOUS
  <2>1. Len(chan[p]) = 0 /\ rec[p] = 1 /\ wpc[p] # "ended"
    BY <1>1
  <2>2. QED
    BY <2>1 DEF Queue
<1>7. Pending
  <2>1. \A p \in Nat : p = First(wave) => FineUpTo(p) /\ At(p, 0)
    BY <1>2, <1>5
  <2>2. \A p \in Phases : ~Live(p)
    BY <1>1 DEF Live
  <2>3. QED
    BY <1>1, <1>6, <2>1, <2>2 DEF Pending
<1>8. QED
  BY <1>1, <1>3, <1>4, <1>7 DEF Ordered

-----------------------------------------------------------------------------
(* Channels. *)

\* A channel nobody touches, and findings nobody adds to.
LEMMA QueueKept ==
    ASSUME input' = input, NEW p \in Phases, NEW g,
           chan'[p] = chan[p], rec'[p] = rec[p], wpc'[p] = wpc[p], failed'[p] = failed[p]
    PROVE  Queue(p, g)' <=> Queue(p, g)
BY DEF Queue, Result, Value, Done, Error

\* The same of what the workers have found out.
LEMMA ProducedKept ==
    ASSUME Produced, UNCHANGED <<input, rec, wpc, failed>>, fault = "yes" => fault' = "yes"
    PROVE  Produced'
BY DEF Produced

\* The kinds of results.
LEMMA Kinds ==
    ASSUME NEW p \in Phases
    PROVE  /\ \A r : Value(r).kind = "value" /\ Value(r).record = r
           /\ Result(p).kind = "value" <=> ~(rec[p] > input.n) /\ rec[p] # input.error[p]
           /\ Result(p).kind = "value" => Result(p) = Value(rec[p])
           /\ Result(p).kind = "done" <=> rec[p] > input.n
           /\ Result(p).kind = "done" => Result(p).failed = failed[p]
           /\ Result(p).kind = "error" <=> ~(rec[p] > input.n) /\ rec[p] = input.error[p]
BY DEF Result, Value, Done, Error

\* What the coordinator finds at the head of the channel.
LEMMA HeadOfQueue ==
    ASSUME IInv, input \in Published!Inputs, Produced, NEW p \in Phases, NEW g \in Nat,
           Queue(p, g), chan[p] # << >>
    PROVE  /\ Head(chan[p]).kind = "value" =>
                 /\ g + 1 < rec[p] /\ Head(chan[p]) = Value(g + 1)
                 /\ g + 1 \in 1..input.n /\ g + 1 < input.error[p]
           /\ Head(chan[p]).kind # "value" =>
                 Head(chan[p]) = Result(p) /\ rec[p] = g + 1 /\ Len(chan[p]) = 1
<1>1. /\ chan[p] \in Seq(Message) /\ Len(chan[p]) \in Nat /\ Len(chan[p]) >= 1
      /\ Head(chan[p]) = chan[p][1] /\ 1 \in 1..Len(chan[p])
  BY DEF IInv, Typed
<1>1a. rec[p] \in Nat /\ Len(chan[p]) \in Nat /\ Len(chan[p]) >= 1
  BY <1>1, InterpreterAssumption DEF IInv, Typed
<1>2. Head(chan[p]) = IF g + 1 < rec[p] THEN Value(g + 1) ELSE Result(p)
  BY <1>1 DEF Queue
<1>3. rec[p] <= input.error[p] /\ input.error[p] <= input.n + 1 /\ input.error[p] \in Nat
      /\ input.n \in Nat
  BY InputShape DEF Produced
<1>4a. /\ Value(g + 1).kind = "value"
       /\ g + 1 < rec[p] => g + 1 \in 1..input.n /\ g + 1 < input.error[p]
  BY <1>1a, <1>3, Kinds
<1>4. CASE g + Len(chan[p]) = rec[p] - 1 /\ wpc[p] # "ended"
  <2>1. g + 1 < rec[p]
    BY <1>1a, <1>4
  <2>2. QED
    BY <1>2, <1>4a, <2>1
<1>5. CASE g + Len(chan[p]) = rec[p] /\ Result(p).kind # "value"
  <2>1. CASE g + 1 < rec[p]
    BY <1>2, <1>4a, <2>1
  <2>2. CASE ~(g + 1 < rec[p])
    <3>1. Head(chan[p]) = Result(p)
      BY <1>2, <2>2
    <3>2. rec[p] = g + 1 /\ Len(chan[p]) = 1
      <4>1. PICK l \in Nat, c \in Nat : l = Len(chan[p]) /\ c = rec[p]
        BY <1>1a
      <4>2. g + l = c /\ ~(g + 1 < c) /\ l >= 1
        BY <1>1a, <1>5, <2>2, <4>1
      <4>3. l = 1 /\ c = g + 1
        BY <4>2
      <4>4. QED
        BY <4>1, <4>3
    <3>3. QED
      BY <1>5, <3>1, <3>2
  <2>3. QED
    BY <2>1, <2>2
<1>6. QED
  BY <1>4, <1>5 DEF Queue

\* A value taken from a channel is accounted for.
LEMMA ValueTaken ==
    ASSUME IInv, input \in Published!Inputs, Produced, NEW g \in Nat, NEW p \in Phases,
           Queue(p, g), Take(p), Head(chan[p]).kind = "value",
           UNCHANGED <<input, rec, failed>>
    PROVE  Queue(p, g + 1)'
<1>1. /\ chan[p] \in Seq(Message) /\ chan[p] # << >> /\ rec[p] \in Nat
      /\ chan'[p] = Tail(chan[p])
      /\ wpc'[p] = IF wpc[p] # "blocked" THEN wpc[p]
                    ELSE IF chan[p][Len(chan[p])].kind = "value" THEN "check"
                    ELSE "ended"
  BY InterpreterAssumption DEF IInv, Typed, Take
<1>2. /\ Len(chan[p]) \in Nat /\ Len(chan[p]) >= 1 /\ Len(chan'[p]) = Len(chan[p]) - 1
      /\ \A k \in 1..Len(chan'[p]) : k + 1 \in 1..Len(chan[p]) /\ chan'[p][k] = chan[p][k + 1]
      /\ Len(chan[p]) \in 1..Len(chan[p])
  BY <1>1
<1>3. g + 1 < rec[p]
  BY <1>1, HeadOfQueue
<1>4. rec'[p] = rec[p] /\ Result(p)' = Result(p)
  <2>1. input' = input /\ rec' = rec /\ failed' = failed
    OBVIOUS
  <2>2. QED
    BY <2>1 DEF Result, Done, Error, Value
<1>5. \A k \in 1..Len(chan'[p]) :
        chan'[p][k] = IF (g + 1) + k < rec'[p] THEN Value((g + 1) + k) ELSE Result(p)'
  <2> SUFFICES ASSUME NEW k \in 1..Len(chan'[p])
               PROVE  chan'[p][k] = IF (g + 1) + k < rec[p] THEN Value((g + 1) + k)
                                     ELSE Result(p)
    BY <1>4
  <2>1. chan'[p][k] = IF g + (k + 1) < rec[p] THEN Value(g + (k + 1)) ELSE Result(p)
    BY <1>2 DEF Queue
  <2>2. g + (k + 1) = (g + 1) + k
    BY <1>2
  <2>3. QED
    BY <2>1, <2>2
<1>6. CASE g + Len(chan[p]) = rec[p] - 1 /\ wpc[p] # "ended"
  <2>1. chan[p][Len(chan[p])] = Value(g + Len(chan[p]))
    BY <1>1, <1>2, <1>6 DEF Queue
  <2>2. wpc'[p] # "ended"
    BY <1>1, <1>6, <2>1, Kinds
  <2>3. (g + 1) + Len(chan'[p]) = rec'[p] - 1
    <3>1. /\ rec[p] \in Nat /\ Len(chan[p]) \in Nat /\ Len(chan'[p]) = Len(chan[p]) - 1
          /\ g + Len(chan[p]) = rec[p] - 1 /\ rec'[p] = rec[p]
      BY <1>1, <1>2, <1>4, <1>6
    <3>2. PICK l \in Nat, c \in Nat : l = Len(chan[p]) /\ c = rec[p]
      BY <3>1
    <3>3. g + l = c - 1
      BY <3>1, <3>2
    <3>4. (g + 1) + (l - 1) = c - 1
      BY <3>3
    <3>5. QED
      BY <3>1, <3>2, <3>4
  <2>4. QED
    BY <1>5, <2>2, <2>3 DEF Queue, Value
<1>7. CASE /\ g + Len(chan[p]) = rec[p] /\ wpc[p] \in {"blocked", "ended"}
           /\ Result(p).kind # "value"
  <2>1. (g + 1) + Len(chan'[p]) = rec'[p] /\ Len(chan'[p]) > 0
    BY <1>1, <1>2, <1>3, <1>4, <1>7
  <2>2. chan[p][Len(chan[p])] = Result(p)
    BY <1>1, <1>2, <1>7 DEF Queue
  <2>3. wpc'[p] \in {"blocked", "ended"} /\ Result(p)'.kind # "value"
    BY <1>1, <1>4, <1>7, <2>2
  <2>4. chan'[p] # << >>
    BY <2>1
  <2>5. QED
    BY <1>5, <2>1, <2>3, <2>4 DEF Queue, Value
<1>8. QED
  BY <1>6, <1>7 DEF Queue

\* The end of a phase: it does not fail, or it is where the reference ends.
LEMMA PhaseEnds ==
    ASSUME IInv, input \in Published!Inputs, input.n > 0, Produced, NEW p \in Phases,
           FineUpTo(p), NEW g \in Nat, rec[p] = g + 1, At(p, g),
           Result(p).kind # "value"
    PROVE  /\ Result(p).kind = "done" =>
                 /\ Result(p).failed = "yes" => Complete
                 /\ Result(p).failed # "yes" => FineUpTo(p + 1) /\ At(p + 1, 0)
           /\ Result(p).kind # "done" => Complete
<1>1. /\ rec[p] <= input.error[p] /\ input.error[p] <= input.n + 1 /\ input.error[p] \in Nat
      /\ input.n \in Nat /\ p \in Nat \ {0} /\ failed[p] \in {"no", "yes"}
  <2>1. rec[p] <= input.error[p]
    BY DEF Produced
  <2>2. input.error[p] <= input.n + 1 /\ input.error[p] \in Nat /\ input.n \in Nat
    BY InputShape
  <2>3. failed[p] \in {"no", "yes"}
    BY DEF IInv, Typed
  <2>4. p \in Nat \ {0}
    BY InterpreterAssumption DEF Phases
  <2>5. QED
    BY <2>1, <2>2, <2>3, <2>4
<1>2. rec[p] = input.error[p] /\ g = input.error[p] - 1
  BY <1>1, Kinds
<1>3. ASSUME Published!Fails(input, p) PROVE Complete
  <2>1. Len(Published!Reference(input)) = Index(input, p, input.error[p] - 1)
    BY <1>3, ReferenceEnd DEF FineUpTo
  <2>2. QED
    BY <1>2, <1>3, <2>1 DEF Complete, At
<1>4. CASE Result(p).kind = "done"
  <2>1. input.error[p] = input.n + 1 /\ g = input.n /\ Result(p).failed = failed[p]
    BY <1>1, <1>2, <1>4, Kinds
  <2>2. CASE failed[p] = "yes"
    <3>1. PICK r \in 1..input.n : <<p, r>> \in input.falsy
      BY <2>2 DEF Produced
    <3>2. <<p, r>>[1] = p
      OBVIOUS
    <3>3. Published!Fails(input, p)
      BY <3>1, <3>2 DEF Published!Fails
    <3>4. QED
      BY <1>3, <1>4, <2>1, <2>2, <3>3
  <2>3. CASE failed[p] = "no"
    <3>1. ~Published!Fails(input, p)
      <4>1. ASSUME NEW f \in input.falsy, f[1] = p PROVE FALSE
        <5>1. f = <<p, f[2]>> /\ f[2] \in Nat /\ 1 <= f[2] /\ f[2] < input.error[p]
          BY <4>1, InputShape
        <5>2. f[2] \in 1..input.n /\ <<p, f[2]>> \in input.falsy
          BY <1>1, <2>1, <4>1, <5>1
        <5>3. f[2] >= rec[p]
          BY <2>3, <5>2 DEF Produced
        <5>4. QED
          BY <1>1, <1>2, <5>1, <5>3
      <4>2. QED
        BY <1>1, <2>1, <4>1 DEF Published!Fails
    <3>2. FineUpTo(p + 1)
      <4>1. \A q \in Phases : q \in Nat /\ (q < p + 1 => q < p \/ q = p)
        BY <1>1, InterpreterAssumption DEF Phases
      <4>2. QED
        BY <3>1, <4>1 DEF FineUpTo
    <3>3. At(p + 1, 0)
      BY <1>1, <2>1, Places DEF At
    <3>4. QED
      BY <1>4, <2>1, <2>3, <3>2, <3>3
  <2>4. QED
    BY <1>1, <2>2, <2>3
<1>5. CASE Result(p).kind # "done"
  <2>1. input.error[p] <= input.n
    BY <1>1, <1>2, <1>5, Kinds
  <2>2. QED
    BY <1>3, <1>5, <2>1 DEF Published!Fails
<1>6. QED
  BY <1>4, <1>5

-----------------------------------------------------------------------------
(* Workers. *)

\* A worker steps by itself, and what it finds out is true of the input.
LEMMA WorkerProduces ==
    ASSUME IInv, input \in Published!Inputs, Produced, NEW p \in Phases, Worker(p)
    PROVE  /\ Produced' /\ UNCHANGED <<input, out, status, coord, receiver, index>>
           /\ \A q \in Phases \ {p} : /\ chan'[q] = chan[q] /\ rec'[q] = rec[q]
                                      /\ wpc'[q] = wpc[q] /\ failed'[q] = failed[q]
<1>1. /\ rec[p] \in Nat /\ 1 <= rec[p] /\ failed[p] \in {"no", "yes"}
      /\ chan \in [Phases -> Seq(Message)] /\ rec \in [Phases -> 1..(MaxRecords + 1)]
      /\ wpc \in [Phases -> {"off", "check", "evaluate", "send", "blocked", "ended", "panicked"}]
      /\ failed \in [Phases -> {"no", "yes"}]
  BY InterpreterAssumption DEF IInv, Typed
<1>2. /\ rec[p] <= input.error[p] /\ input.error[p] <= input.n + 1 /\ input.error[p] \in Nat
      /\ input.n \in Nat
  BY InputShape DEF Produced
<1>3. UNCHANGED <<input, out, status, coord, receiver, index>>
  BY DEF Worker, Check, Evaluate, WorkerPanics, Send, program, host, links
<1>4. \A q \in Phases \ {p} : /\ chan'[q] = chan[q] /\ rec'[q] = rec[q]
                              /\ wpc'[q] = wpc[q] /\ failed'[q] = failed[q]
  BY <1>1 DEF Worker, Check, Evaluate, WorkerPanics, Send, links
<1>5. fault = "yes" => fault' = "yes"
  BY DEF Worker, Check, Evaluate, WorkerPanics, Send, host
<1>6. /\ rec'[p] <= input.error[p]
      /\ wpc'[p] = "evaluate" => rec'[p] <= input.n
      /\ wpc'[p] # "off"
      /\ failed'[p] = "yes" => \E r \in 1..input.n : <<p, r>> \in input.falsy
      /\ failed'[p] = "no" => \A r \in 1..input.n : <<p, r>> \in input.falsy =>
                                 r >= rec'[p] /\ (wpc'[p] = "send" => r > rec'[p])
      /\ wpc'[p] = "panicked" => fault' = "yes"
  <2>0. /\ failed[p] = "yes" => \E r \in 1..input.n : <<p, r>> \in input.falsy
        /\ failed[p] = "no" => \A r \in 1..input.n : <<p, r>> \in input.falsy =>
                                 r >= rec[p] /\ (wpc[p] = "send" => r > rec[p])
        /\ wpc[p] = "evaluate" => rec[p] <= input.n
    BY DEF Produced
  <2>1. CASE Check(p)
    <3>1. rec'[p] = rec[p] /\ failed'[p] = failed[p] /\ fault' = fault
      BY <2>1 DEF Check, host
    <3>2. PICK next : /\ next = IF cancel = "yes" THEN "ended"
                                ELSE IF rec[p] <= input.n THEN "evaluate" ELSE "send"
                      /\ wpc'[p] = next
      BY <1>1, <2>1 DEF Check
    <3>3. \A r \in 1..input.n : r >= rec[p] /\ wpc'[p] = "send" => r > rec[p]
      BY <1>1, <1>2, <3>2
    <3>4. QED
      BY <1>2, <2>0, <3>1, <3>2, <3>3
  <2>2. CASE Evaluate(p)
    <3>1. rec'[p] = rec[p] /\ fault' = fault /\ rec[p] \in 1..input.n
      BY <1>1, <1>2, <2>0, <2>2 DEF Evaluate, host
    <3>2. wpc'[p] \in {"ended", "send"}
          /\ failed'[p] = IF <<p, rec[p]>> \in input.falsy THEN "yes" ELSE failed[p]
      BY <1>1, <2>2 DEF Evaluate
    <3>3. CASE <<p, rec[p]>> \in input.falsy
      BY <1>2, <3>1, <3>2, <3>3
    <3>4. CASE <<p, rec[p]>> \notin input.falsy
      <4>1. failed'[p] = failed[p]
        BY <3>2, <3>4
      <4>2. ASSUME NEW r \in 1..input.n, <<p, r>> \in input.falsy, r >= rec[p] PROVE r > rec[p]
        <5>1. r # rec[p]
          BY <3>4, <4>2
        <5>2. QED
          BY <1>1, <1>2, <4>2, <5>1
      <4>3. QED
        BY <1>2, <2>0, <3>1, <3>2, <4>1, <4>2
    <3>5. QED
      BY <3>3, <3>4
  <2>3. CASE WorkerPanics(p)
    <3>1. rec'[p] = rec[p] /\ failed'[p] = failed[p] /\ fault' = "yes" /\ wpc'[p] = "panicked"
      BY <1>1, <2>3 DEF WorkerPanics
    <3>2. QED
      BY <1>2, <2>0, <3>1
  <2>4. CASE Send(p)
    <3>1. /\ rec'[p] = IF Result(p).kind = "value" THEN rec[p] + 1 ELSE rec[p]
          /\ failed'[p] = failed[p] /\ wpc[p] = "send"
      BY <1>1, <2>4 DEF Send
    <3>2. wpc'[p] \in {"ended", "blocked", "check"}
      BY <1>1, <2>4 DEF Send
    <3>3. rec'[p] <= input.error[p]
      BY <1>1, <1>2, <3>1, Kinds
    <3>4. \A r \in 1..input.n : r > rec[p] => r >= rec'[p]
      BY <1>1, <1>2, <3>1
    <3>5. QED
      BY <2>0, <3>1, <3>2, <3>3, <3>4
  <2>5. QED
    BY <2>1, <2>2, <2>3, <2>4 DEF Worker
<1>7. Produced'
  <2> SUFFICES ASSUME NEW q \in Phases
               PROVE  /\ rec'[q] <= input.error[q]
                      /\ wpc'[q] = "evaluate" => rec'[q] <= input.n
                      /\ wpc'[q] = "off" => rec'[q] = 1
                      /\ failed'[q] = "yes" => \E r \in 1..input.n : <<q, r>> \in input.falsy
                      /\ failed'[q] = "no" => \A r \in 1..input.n : <<q, r>> \in input.falsy =>
                                   r >= rec'[q] /\ (wpc'[q] = "send" => r > rec'[q])
                      /\ wpc'[q] = "panicked" => fault' = "yes"
    BY <1>3 DEF Produced
  <2>1. CASE q = p
    BY <1>6, <2>1
  <2>2. CASE q # p
    BY <1>4, <1>5, <2>2 DEF Produced
  <2>3. QED
    BY <2>1, <2>2
<1>8. QED
  BY <1>3, <1>4, <1>7

\* A worker that is not cancelled, and whose receiver is alive, extends its queue.
LEMMA WorkerQueues ==
    ASSUME IInv, NEW p \in Phases, Worker(p), cancel = "no", receiver[p] = "alive",
           NEW g \in Nat, Queue(p, g)
    PROVE  Queue(p, g)'
<1>1. /\ rec[p] \in Nat /\ chan \in [Phases -> Seq(Message)] /\ chan[p] \in Seq(Message)
      /\ rec \in [Phases -> 1..(MaxRecords + 1)] /\ Len(chan[p]) \in Nat
      /\ wpc \in [Phases -> {"off", "check", "evaluate", "send", "blocked", "ended", "panicked"}]
  BY InterpreterAssumption DEF IInv, Typed
<1>2. wpc[p] \in {"check", "evaluate", "send"}
  BY DEF Worker, Check, Evaluate, WorkerPanics, Send
<1>3. /\ g + Len(chan[p]) = rec[p] - 1
      /\ \A k \in 1..Len(chan[p]) : g + k < rec[p] /\ chan[p][k] = Value(g + k)
  BY <1>1, <1>2 DEF Queue
<1>4. CASE Check(p) \/ Evaluate(p) \/ WorkerPanics(p)
  <2>1. chan' = chan /\ rec' = rec
    BY <1>4 DEF Check, Evaluate, WorkerPanics, links
  <2>2. wpc'[p] # "ended"
    BY <1>1, <1>4 DEF Check, Evaluate, WorkerPanics
  <2>3. QED
    BY <1>3, <2>1, <2>2 DEF Queue, Value
<1>5. CASE Send(p)
  <2>0. Result(p) \in Message
    BY InterpreterAssumption DEF IInv, Typed, Result, Message, Done, Error, Value
  <2>1. /\ chan'[p] = Append(chan[p], Result(p)) /\ input' = input /\ failed' = failed
        /\ rec'[p] = IF Result(p).kind = "value" THEN rec[p] + 1 ELSE rec[p]
    BY <1>1, <1>5 DEF Send, program
  <2>2. PICK next : /\ next = IF SendBlocks(p) THEN "blocked"
                              ELSE IF Result(p).kind = "value" THEN "check"
                              ELSE "ended"
                    /\ wpc'[p] = next
    BY <1>1, <1>5 DEF Send
  <2>3. /\ Len(chan'[p]) = Len(chan[p]) + 1 /\ chan'[p][Len(chan[p]) + 1] = Result(p)
        /\ \A k \in 1..Len(chan[p]) : chan'[p][k] = chan[p][k]
        /\ chan'[p] # << >>
    <3>1. chan[p] \in Seq(Message)
      BY <1>1
    <3>2. QED
      BY <2>0, <2>1, <3>1, AppendProperties
  <2>4. g + Len(chan'[p]) = rec[p]
    <3>1. /\ rec[p] \in Nat /\ Len(chan[p]) \in Nat /\ Len(chan'[p]) = Len(chan[p]) + 1
          /\ g + Len(chan[p]) = rec[p] - 1
      BY <1>1, <1>3, <2>3
    <3>2. QED
      BY <3>1
  <2>5. \A k \in 1..Len(chan'[p]) : k \in 1..Len(chan[p]) \/ k = Len(chan[p]) + 1
    BY <1>1, <2>3
  <2>6. CASE Result(p).kind = "value"
    <3>1. rec'[p] = rec[p] + 1 /\ Result(p) = Value(rec[p]) /\ wpc'[p] # "ended"
      BY <2>1, <2>2, <2>6, Kinds
    <3>2. ASSUME NEW k \in 1..Len(chan'[p])
          PROVE  chan'[p][k] = Value(g + k) /\ g + k < rec'[p]
      <4>1. CASE k \in 1..Len(chan[p])
        <5>1. chan'[p][k] = Value(g + k) /\ g + k < rec[p] /\ k \in Nat
          BY <1>3, <2>3, <4>1
        <5>2. rec[p] \in Nat
          BY <1>1
        <5>3. g + k < rec'[p]
          BY <3>1, <5>1, <5>2
        <5>4. QED
          BY <5>1, <5>3
      <4>2. CASE k = Len(chan[p]) + 1
        <5>0. rec[p] \in Nat /\ Len(chan[p]) \in Nat /\ g + Len(chan[p]) = rec[p] - 1
          BY <1>1, <1>3
        <5>1. g + k = rec[p] /\ g + k < rec'[p]
          <6>1. PICK a \in Nat, b \in Nat : a = Len(chan[p]) /\ b = rec[p] /\ g + a = b - 1
            BY <5>0
          <6>2. g + (a + 1) = b /\ b < b + 1
            BY <6>1
          <6>3. k = a + 1 /\ rec'[p] = b + 1
            BY <3>1, <4>2, <6>1
          <6>4. QED
            BY <6>1, <6>2, <6>3
        <5>2. QED
          BY <2>3, <3>1, <4>2, <5>1
      <4>3. QED
        BY <2>5, <4>1, <4>2
    <3>3. g + Len(chan'[p]) = rec'[p] - 1
      BY <1>1, <2>4, <3>1
    <3>4. QED
      BY <3>1, <3>2, <3>3 DEF Queue, Value
  <2>7. CASE Result(p).kind # "value"
    <3>1. rec'[p] = rec[p] /\ wpc'[p] \in {"blocked", "ended"}
      BY <2>1, <2>2, <2>7
    <3>2. Result(p)' = Result(p)
      BY <2>1, <3>1 DEF Result, Done, Error, Value
    <3>3. ASSUME NEW k \in 1..Len(chan'[p])
          PROVE  chan'[p][k] = IF g + k < rec'[p] THEN Value(g + k) ELSE Result(p)'
      <4>1. CASE k \in 1..Len(chan[p])
        BY <1>3, <2>3, <3>1, <4>1
      <4>2. CASE k = Len(chan[p]) + 1
        <5>1. ~(g + k < rec'[p])
          BY <1>1, <1>3, <3>1, <4>2
        <5>2. QED
          BY <2>3, <3>2, <4>2, <5>1
      <4>3. QED
        BY <2>5, <4>1, <4>2
    <3>4. g + Len(chan'[p]) = rec'[p]
      BY <2>4, <3>1
    <3>5. QED
      BY <2>3, <2>7, <3>1, <3>2, <3>3, <3>4 DEF Queue, Value
  <2>8. QED
    BY <2>6, <2>7
<1>6. QED
  BY <1>4, <1>5 DEF Worker

\* What the abstract specification makes of a step.
Refined == [Published!Next]_(Published!vars)

\* The end of the reference, reached.
LEMMA WholeOut ==
    ASSUME input \in Published!Inputs, Content, Len(out) = Len(Published!Reference(input))
    PROVE  out = Published!Reference(input)
BY ReferenceShape DEF Content

\* A step without output that is not the last one: at most a fault.
LEMMA SilentRefines ==
    ASSUME UNCHANGED <<input, out, status>>, fault' = fault \/ (fault' = "yes" /\ status = "running")
    PROVE  Refined
BY DEF Refined, Published!Next, Published!Fault, Published!vars

\* Workers publish nothing: the most the specification sees is a panic.
LEMMA WorkerOrdered ==
    ASSUME IInv, Ordered, NEW p \in Phases, Worker(p)
    PROVE  Ordered' /\ Refined
<1>1. input \in Published!Inputs /\ Content /\ Produced /\ Pending
  BY DEF Ordered
<1>2. /\ Produced' /\ UNCHANGED <<input, out, status, cpc, wave, cp, outcome, cancel, receiver,
                               index>>
      /\ \A q \in Phases \ {p} : /\ chan'[q] = chan[q] /\ rec'[q] = rec[q]
                                 /\ wpc'[q] = wpc[q] /\ failed'[q] = failed[q]
  BY <1>1, WorkerProduces DEF coord
<1>3. Content'
  BY <1>1, <1>2, ContentKept
<1>4. Live(p) /\ fault' \in {fault, "yes"}
  BY DEF Worker, Check, Evaluate, WorkerPanics, Send, Live, host
<1>5. cpc \notin {"gate", "dead"} /\ status = "running"
  BY <1>1, <1>4 DEF Pending
<1>6. ASSUME NEW q \in Phases, NEW g \in Nat, Queue(q, g), cancel = "no", receiver[q] = "alive"
      PROVE  Queue(q, g)'
  <2>1. CASE q = p
    BY <1>6, <2>1, WorkerQueues
  <2>2. CASE q # p
    BY <1>2, <1>6, <2>2, QueueKept
  <2>3. QED
    BY <2>1, <2>2
<1>7. First(wave)' = First(wave) /\ Last(wave)' = Last(wave)
  BY <1>2, SameWave
<1>8. Pending'
  <2>1. /\ \A q \in Nat : (FineUpTo(q)' <=> FineUpTo(q)) /\ (At(q, 0)' <=> At(q, 0))
        /\ \A q \in Nat, g \in Nat : At(q, g)' <=> At(q, g)
        /\ Complete' <=> Complete
    BY <1>2, SameInput
  <2>2. Phases \subseteq Nat
    BY InterpreterAssumption DEF Phases
  <2>3. cpc = "spawn" => \A q \in Phases : q >= First(wave) => Queue(q, 0)'
    BY <1>1, <1>6 DEF Pending
  <2>4. ASSUME cpc \in {"receive", "emit"}
        PROVE  /\ cancel = "no"
               /\ \A q \in Phases : q = cp \/ q > cp => receiver[q] = "alive"
    <3>1. cp \in Nat /\ First(wave) <= cp /\ First(wave) \in Nat
      BY <2>4, InWave DEF IInv, Position, Typed, WavePhases
    <3>2. \A q \in Phases : q = cp \/ q > cp => q >= First(wave)
      BY <2>2, <3>1
    <3>3. QED
      BY <1>1, <2>4, <3>2 DEF Pending
  <2>5. /\ cpc \in {"receive", "emit"} => \A q \in Phases : q > cp => Queue(q, 0)'
        /\ cpc = "receive" => \A q \in Phases : q = cp =>
              FineUpTo(q)' /\ \E g \in Nat : At(q, g)' /\ Queue(q, g)'
        /\ cpc = "emit" => \A q \in Phases : q = cp =>
              FineUpTo(q)' /\ \E g \in Nat : At(q, g)' /\ Queue(q, g + 1)' /\ Due(q, g + 1)'
    <3>1. ASSUME NEW q \in Phases, q > cp, cpc \in {"receive", "emit"}
          PROVE  Queue(q, 0)'
      BY <1>1, <1>6, <2>4, <3>1 DEF Pending
    <3>2. ASSUME NEW q \in Phases, q = cp, cpc = "receive"
          PROVE  FineUpTo(q)' /\ \E g \in Nat : At(q, g)' /\ Queue(q, g)'
      <4>1. PICK g \in Nat : At(q, g) /\ Queue(q, g) /\ FineUpTo(q)
        BY <1>1, <3>2 DEF Pending
      <4>2. Queue(q, g)'
        BY <1>6, <2>4, <3>2, <4>1
      <4>3. QED
        BY <2>1, <2>2, <4>1, <4>2
    <3>3. ASSUME NEW q \in Phases, q = cp, cpc = "emit"
          PROVE  FineUpTo(q)' /\ \E g \in Nat : At(q, g)' /\ Queue(q, g + 1)' /\ Due(q, g + 1)'
      <4>1. PICK g \in Nat : At(q, g) /\ Queue(q, g + 1) /\ Due(q, g + 1) /\ FineUpTo(q)
        BY <1>1, <3>3 DEF Pending
      <4>2. g + 1 \in Nat
        OBVIOUS
      <4>3. Queue(q, g + 1)'
        BY <1>6, <2>4, <3>3, <4>1, <4>2
      <4>4. Due(q, g + 1)'
        BY <1>2, <4>1 DEF Due
      <4>5. QED
        BY <2>1, <2>2, <4>1, <4>3, <4>4
    <3>4. QED
      BY <3>1, <3>2, <3>3
  <2>6. cpc \in {"leave", "drop", "join"} /\ outcome # "ok0" => fault' = "yes" \/ Complete'
    BY <1>1, <1>4, <2>1 DEF Pending
  <2>7. QED
    BY <1>1, <1>2, <1>5, <1>7, <2>1, <2>3, <2>5, <2>6 DEF Pending
<1>9. QED
  BY <1>1, <1>2, <1>3, <1>4, <1>5, <1>8, SilentRefines DEF Ordered

\* The complete reference has been published.
LEMMA FinishRefines ==
    ASSUME input \in Published!Inputs, Content, Len(out) = Len(Published!Reference(input)),
           status = "running", UNCHANGED <<input, out, fault>>,
           status' = IF \E p \in Phases : Published!Fails(input, p) THEN "failed" ELSE "ok"
    PROVE  Refined
<1>1. out = Published!Reference(input)
  BY WholeOut
<1>2. Published!Finish
  BY <1>1 DEF Published!Finish, Published!Phases, Phases
<1>3. QED
  BY <1>2 DEF Refined, Published!Next

\* An input without records fails before a wave: the reference is empty.
LEMMA GateOrdered ==
    ASSUME IInv, Ordered, Gate
    PROVE  Ordered' /\ Refined
<1>1. input \in Published!Inputs /\ Content /\ Produced /\ Pending
  BY DEF Ordered
<1>2. /\ cpc = "gate" /\ UNCHANGED <<input, out, fault, wave, outcome, cancel, chan, receiver>>
      /\ UNCHANGED <<wpc, rec, failed>>
  BY DEF Gate, program, links, worker
<1>3. Content' /\ Produced'
  BY <1>1, <1>2, ContentKept, ProducedKept
<1>4. /\ First(wave)' = First(wave) /\ Last(wave)' = Last(wave) /\ input.n \in Nat
      /\ First(wave) \in Nat \ {0} /\ First(wave) <= Last(wave) /\ Last(wave) \in Phases
  BY <1>1, <1>2, SameWave, InputShape, WaveBounds DEF IInv, Typed
<1>5. \A q \in Phases : /\ ~Live(q) /\ ~Live(q)'
                        /\ Queue(q, 0)' <=> Queue(q, 0)
  BY <1>1, <1>2, QueueKept DEF Pending, Live
<1>6. \A q \in Nat : (FineUpTo(q)' <=> FineUpTo(q)) /\ (At(q, 0)' <=> At(q, 0))
  BY <1>2, SameInput
<1>7. status = "running"
  BY <1>1, <1>2 DEF Pending
<1>8. CASE input.n = 0
  <2>1. cpc' = "dead" /\ status' = "failed"
    BY <1>8 DEF Gate
  <2>2. Pending'
    BY <1>1, <1>2, <1>4, <1>5, <2>1 DEF Pending
  <2>3. Refined
    <3>1. PICK p \in Nat \ {0} : p = First(wave)
      BY <1>4
    <3>2. p \in Phases /\ FineUpTo(p) /\ At(p, 0)
      BY <1>1, <1>2, <1>4, <3>1, InterpreterAssumption DEF Pending, Phases
    <3>3. Published!Fails(input, p) /\ input.error[p] - 1 = 0
      <4>1. input.error[p] \in Nat /\ 1 <= input.error[p] /\ input.error[p] <= 0 + 1
        BY <1>1, <1>8, <3>2, InputShape
      <4>2. QED
        BY <1>8, <4>1 DEF Published!Fails
    <3>4. Len(Published!Reference(input)) = Index(input, p, 0)
      <4>1. Len(Published!Reference(input)) = Index(input, p, input.error[p] - 1)
        BY <1>1, <3>2, <3>3, ReferenceEnd DEF FineUpTo
      <4>2. QED
        BY <3>3, <4>1
    <3>5. QED
      BY <1>1, <1>2, <1>7, <2>1, <3>2, <3>3, <3>4, FinishRefines DEF At
  <2>4. QED
    BY <1>1, <1>2, <1>3, <2>2, <2>3 DEF Ordered
<1>9. CASE input.n # 0
  <2>1. cpc' = "spawn" /\ status' = status /\ input.n > 0
    BY <1>4, <1>9 DEF Gate
  <2>2. Pending'
    BY <1>1, <1>2, <1>4, <1>5, <1>6, <1>7, <2>1 DEF Pending
  <2>3. QED
    BY <1>1, <1>2, <1>3, <1>7, <2>1, <2>2, SilentRefines DEF Ordered
<1>10. QED
  BY <1>8, <1>9

\* A worker begins with an empty channel and its first record.
LEMMA SpawnOrdered ==
    ASSUME IInv, Ordered, Spawn
    PROVE  Ordered' /\ Refined
<1>1. input \in Published!Inputs /\ Content /\ Produced /\ Pending /\ Typed /\ Position
  BY DEF Ordered, IInv
<1>2. /\ cpc = "spawn" /\ wpc' = [wpc EXCEPT ![cp] = "check"]
      /\ UNCHANGED <<input, out, fault, status, wave, outcome, cancel, chan, receiver, rec, failed>>
      /\ cpc' = "spawn" \/ (cpc' = "receive" /\ cp' = First(wave))
  BY DEF Spawn, program, host, links
<1>3. /\ First(wave)' = First(wave) /\ Last(wave)' = Last(wave)
      /\ First(wave) \in Nat \ {0} /\ \A q \in Phases : q \in Nat
  <2>1. First(wave) \in Nat \ {0}
    BY <1>1, WaveBounds DEF Typed
  <2>2. QED
    BY <1>2, <2>1, SameWave, InterpreterAssumption DEF Phases
<1>4. wpc[cp] = "off" /\ cp \in Phases
  <2>1. /\ First(wave) \in Nat \ {0} /\ Last(wave) \in Nat /\ Last(wave) <= NumPhases
        /\ NumPhases \in Nat /\ cp \in Nat /\ admitted \in Nat
    BY <1>1, InWave DEF Typed, Phases
  <2>2. cp = First(wave) + admitted /\ cp <= Last(wave)
    BY <1>1, <1>2 DEF Position
  <2>3. cp \in Phases /\ cp >= First(wave) + admitted
    BY <2>1, <2>2 DEF Phases
  <2>4. QED
    BY <2>3 DEF IInv, Waves
<1>5. PICK c \in Phases : c = cp
  BY <1>4
<1>6. /\ wpc'[c] = "check" /\ wpc[c] = "off"
      /\ \A q \in Phases : q # c => wpc'[q] = wpc[q]
  BY <1>1, <1>2, <1>4, <1>5 DEF Typed
<1>7. ASSUME NEW q \in Phases, Queue(q, 0)
      PROVE  Queue(q, 0)'
  <2>1. CASE q = c
    <3>1. Result(q)' = Result(q)
      BY <1>2 DEF Result, Done, Error, Value
    <3>2. /\ 0 + Len(chan[q]) = rec[q] - 1 /\ wpc'[q] # "ended"
          /\ \A k \in 1..Len(chan[q]) :
                chan[q][k] = IF 0 + k < rec[q] THEN Value(0 + k) ELSE Result(q)
      BY <1>6, <1>7, <2>1 DEF Queue
    <3>3. QED
      BY <1>2, <3>1, <3>2 DEF Queue, Value
  <2>2. CASE q # c
    BY <1>2, <1>6, <1>7, <2>2, QueueKept
  <2>3. QED
    BY <2>1, <2>2
<1>8. Produced'
  <2> SUFFICES ASSUME NEW q \in Phases
               PROVE  /\ rec[q] <= input.error[q]
                      /\ wpc'[q] = "evaluate" => rec[q] <= input.n
                      /\ wpc'[q] = "off" => rec[q] = 1
                      /\ failed[q] = "yes" => \E r \in 1..input.n : <<q, r>> \in input.falsy
                      /\ failed[q] = "no" => \A r \in 1..input.n : <<q, r>> \in input.falsy =>
                                   r >= rec[q] /\ (wpc'[q] = "send" => r > rec[q])
                      /\ wpc'[q] = "panicked" => fault = "yes"
    BY <1>2 DEF Produced
  <2>1. CASE q = c
    BY <1>1, <1>6, <2>1 DEF Produced
  <2>2. CASE q # c
    BY <1>1, <1>6, <2>2 DEF Produced
  <2>3. QED
    BY <2>1, <2>2
<1>9. Content'
  BY <1>1, <1>2, ContentKept
<1>10. /\ \A q \in Nat : (FineUpTo(q)' <=> FineUpTo(q)) /\ (At(q, 0)' <=> At(q, 0))
  BY <1>2, SameInput
<1>11. /\ \A q \in Phases : q >= First(wave) => Queue(q, 0)'
       /\ \A q \in Nat : q = First(wave) => FineUpTo(q)' /\ At(q, 0)'
  BY <1>1, <1>2, <1>7, <1>10 DEF Pending
<1>12. Pending'
  <2>1. CASE cpc' = "spawn"
    BY <1>1, <1>2, <1>3, <1>11, <2>1 DEF Pending
  <2>2. CASE cpc' = "receive" /\ cp' = First(wave)
    <3>1. \A q \in Phases : q = First(wave) => FineUpTo(q)' /\ \E g \in Nat : At(q, g)' /\ Queue(q, g)'
      <4>1. \A q \in Phases : q = First(wave) => q >= First(wave)
        BY <1>3
      <4>2. QED
        BY <1>3, <1>11, <4>1
    <3>2. \A q \in Phases : q > First(wave) => Queue(q, 0)'
      <4>1. \A q \in Phases : q > First(wave) => q >= First(wave)
        BY <1>3
      <4>2. QED
        BY <1>11, <4>1
    <3>3. QED
      BY <1>1, <1>2, <1>3, <2>2, <3>1, <3>2 DEF Pending
  <2>3. QED
    BY <1>2, <2>1, <2>2
<1>13. QED
  BY <1>1, <1>2, <1>8, <1>9, <1>12, SilentRefines DEF Ordered

\* Steps of the end of a wave that leave the phases as they are.
LEMMA EndOrdered ==
    ASSUME IInv, Ordered, cpc \notin {"gate", "dead"},
           UNCHANGED <<input, out, status, wave, chan, receiver, wpc, rec, failed>>,
           fault' \in {fault, "yes"}, cpc' \in {"leave", "drop", "join"},
           outcome' = "ok0" => outcome = "ok0" /\ cpc \in {"leave", "drop", "join"},
           outcome' # "ok0" => fault' = "yes" \/ Complete
    PROVE  Ordered' /\ Refined
<1>1. input \in Published!Inputs /\ Content /\ Produced /\ Pending
  BY DEF Ordered
<1>2. Content' /\ Produced'
  BY <1>1, ContentKept, ProducedKept
<1>3. First(wave)' = First(wave) /\ Last(wave)' = Last(wave)
  BY SameWave
<1>4. /\ \A q \in Nat : (FineUpTo(q)' <=> FineUpTo(q)) /\ (At(q, 0)' <=> At(q, 0))
      /\ Complete' <=> Complete
  BY SameInput
<1>5. status = "running"
  BY <1>1 DEF Pending
<1>6. Pending'
  BY <1>1, <1>3, <1>4, <1>5 DEF Pending
<1>7. QED
  BY <1>1, <1>2, <1>5, <1>6, SilentRefines DEF Ordered

\* Whatever ends a wave early has a fault or a complete output behind it.
LEMMA FailureOrdered ==
    ASSUME IInv, Ordered, SpawnFails \/ ReceiveDisconnected \/ Leave \/ DropDone \/ JoinWorker
    PROVE  Ordered' /\ Refined
<1>1. /\ UNCHANGED <<input, out, status, wave, chan, receiver, wpc, rec, failed>>
      /\ fault' \in {fault, "yes"} /\ cpc' \in {"leave", "drop", "join"}
      /\ cpc \notin {"gate", "dead"}
  BY DEF SpawnFails, ReceiveDisconnected, Leave, DropDone, JoinWorker, program, host, links, worker
<1>2. outcome' = "ok0" => outcome = "ok0" /\ cpc \in {"leave", "drop", "join"}
  BY DEF SpawnFails, ReceiveDisconnected, Leave, DropDone, JoinWorker
<1>3. Produced /\ Pending /\ Typed /\ Position
  BY DEF Ordered, IInv
<1>4. ASSUME outcome' # "ok0" PROVE fault' = "yes" \/ Complete
  <2>1. CASE SpawnFails
    BY <2>1 DEF SpawnFails
  <2>2. CASE ReceiveDisconnected
    <3>1. cpc = "receive" /\ chan[cp] = << >> /\ wpc[cp] \in {"ended", "panicked"}
      BY <2>2 DEF ReceiveDisconnected
    <3>2. cp \in Phases
      BY <1>3, <3>1, InWave DEF Position, WavePhases, Phases, Typed
    <3>3. PICK g \in Nat : Queue(cp, g)
      BY <1>3, <3>1, <3>2 DEF Pending
    <3>4. wpc[cp] = "panicked"
      BY <3>1, <3>3 DEF Queue
    <3>5. QED
      BY <1>1, <1>3, <3>2, <3>4 DEF Produced
  <2>3. CASE (Leave \/ DropDone)
    <3>1. outcome' = outcome /\ cpc \in {"leave", "drop"}
      BY <2>3 DEF Leave, DropDone
    <3>2. QED
      BY <1>1, <1>3, <1>4, <3>1 DEF Pending
  <2>4. CASE JoinWorker
    <3>1. /\ cpc = "join" /\ cp \in Admitted
          /\ outcome' = IF wpc[cp] = "panicked" /\ outcome = "ok0" THEN "err" ELSE outcome
      BY <2>4 DEF JoinWorker
    <3>2. cp \in Phases
      BY <1>3, <3>1, InWave DEF Typed
    <3>3. CASE outcome = "ok0"
      BY <1>1, <1>3, <1>4, <3>1, <3>2, <3>3 DEF Produced
    <3>4. CASE outcome # "ok0"
      BY <1>1, <1>3, <3>1, <3>4 DEF Pending
    <3>5. QED
      BY <3>3, <3>4
  <2>5. QED
    BY <2>1, <2>2, <2>3, <2>4
<1>5. QED
  BY <1>1, <1>2, <1>4, EndOrdered

\* Receivers are dropped when nothing of the wave is published any more.
LEMMA DropReceiverOrdered ==
    ASSUME IInv, Ordered, DropReceiver
    PROVE  Ordered' /\ Refined
<1>1. input \in Published!Inputs /\ Content /\ Produced /\ Pending /\ Typed /\ Position
  BY DEF Ordered, IInv
<1>2. /\ cpc = "drop" /\ cpc' = "drop" /\ cp \in Admitted
      /\ UNCHANGED <<input, out, fault, status, wave, outcome, rec, failed>>
      /\ receiver' = [receiver EXCEPT ![cp] = "dropped"]
  BY DEF DropReceiver, program, host
<1>3. cp \in Phases /\ ~(cp > Last(wave))
  <2>1. /\ First(wave) \in Nat \ {0} /\ Last(wave) \in Nat /\ cp \in Nat /\ admitted \in Nat
        /\ cp \in Phases /\ First(wave) <= cp /\ cp < First(wave) + admitted
    BY <1>1, <1>2, InWave DEF Typed, Phases
  <2>2. First(wave) + admitted <= Last(wave) + 1
    BY <1>1 DEF Position
  <2>3. QED
    BY <2>1, <2>2
<1>4. PICK next : /\ next = IF wpc[cp] = "blocked" THEN "ended" ELSE wpc[cp]
                  /\ wpc' = [wpc EXCEPT ![cp] = next]
  BY DEF DropReceiver
<1>5. \A q \in Phases : /\ wpc'[q] \in {wpc[q], "ended"}
                        /\ q # cp => receiver'[q] = receiver[q]
  BY <1>1, <1>2, <1>3, <1>4 DEF Typed
<1>6. Produced'
  <2> SUFFICES ASSUME NEW q \in Phases
               PROVE  /\ rec[q] <= input.error[q]
                      /\ wpc'[q] = "evaluate" => rec[q] <= input.n
                      /\ wpc'[q] = "off" => rec[q] = 1
                      /\ failed[q] = "yes" => \E r \in 1..input.n : <<q, r>> \in input.falsy
                      /\ failed[q] = "no" => \A r \in 1..input.n : <<q, r>> \in input.falsy =>
                                   r >= rec[q] /\ (wpc'[q] = "send" => r > rec[q])
                      /\ wpc'[q] = "panicked" => fault = "yes"
    BY <1>2 DEF Produced
  <2>1. QED
    BY <1>1, <1>5 DEF Produced
<1>7. Content' /\ First(wave)' = First(wave) /\ Last(wave)' = Last(wave)
  BY <1>1, <1>2, ContentKept, SameWave
<1>8. /\ \A q \in Nat : (FineUpTo(q)' <=> FineUpTo(q)) /\ (At(q, 0)' <=> At(q, 0))
      /\ Complete' <=> Complete
  BY <1>2, SameInput
<1>9. \A q \in Phases : q > Last(wave) => receiver'[q] = "alive"
  BY <1>1, <1>3, <1>5 DEF Pending
<1>10. Pending'
  BY <1>1, <1>2, <1>7, <1>8, <1>9 DEF Pending
<1>11. QED
  BY <1>1, <1>2, <1>6, <1>7, <1>10, SilentRefines DEF Ordered

\* The waves cover the phases.
LEMMA LastWaveEnds == Last(LastWave) = NumPhases
<1>1. NumPhases \in Nat \ {0} /\ MaxInFlight \in Nat \ {0}
  BY InterpreterAssumption
<1>2. PICK q \in Int : q = (NumPhases + MaxInFlight - 1) \div MaxInFlight
  BY <1>1
<1>3. q * MaxInFlight > (NumPhases + MaxInFlight - 1) - MaxInFlight /\ q * MaxInFlight \in Int
  BY <1>1, <1>2
<1>4. ~(q * MaxInFlight < NumPhases)
  BY <1>1, <1>3
<1>5. QED
  BY <1>2, <1>4 DEF Last, LastWave

\* Taking a message disturbs one channel and no finding of a worker.
LEMMA TakeOrdered ==
    ASSUME IInv, Produced, cp \in Phases, Take(cp), UNCHANGED <<input, rec, failed>>,
           fault = "yes" => fault' = "yes"
    PROVE  /\ Produced'
           /\ \A q \in Phases : q # cp => (Queue(q, 0)' <=> Queue(q, 0))
<1>1. /\ wpc \in [Phases -> {"off", "check", "evaluate", "send", "blocked", "ended", "panicked"}]
      /\ chan \in [Phases -> Seq(Message)]
  BY DEF IInv, Typed
<1>2. PICK next : /\ next = IF wpc[cp] # "blocked" THEN wpc[cp]
                            ELSE IF chan[cp][Len(chan[cp])].kind = "value" THEN "check"
                            ELSE "ended"
                  /\ wpc' = [wpc EXCEPT ![cp] = next]
  BY DEF Take
<1>3. next \in {wpc[cp], "check", "ended"}
  BY <1>2
<1>4. \A q \in Phases : /\ wpc'[q] \in {wpc[q], "check", "ended"}
                        /\ q # cp => wpc'[q] = wpc[q] /\ chan'[q] = chan[q]
  BY <1>1, <1>2, <1>3 DEF Take
<1>5. Produced'
  <2> SUFFICES ASSUME NEW q \in Phases
               PROVE  /\ rec[q] <= input.error[q]
                      /\ wpc'[q] = "evaluate" => rec[q] <= input.n
                      /\ wpc'[q] = "off" => rec[q] = 1
                      /\ failed[q] = "yes" => \E r \in 1..input.n : <<q, r>> \in input.falsy
                      /\ failed[q] = "no" => \A r \in 1..input.n : <<q, r>> \in input.falsy =>
                                   r >= rec[q] /\ (wpc'[q] = "send" => r > rec[q])
                      /\ wpc'[q] = "panicked" => fault' = "yes"
    BY DEF Produced
  <2>1. QED
    BY <1>4 DEF Produced
<1>6. QED
  BY <1>4, <1>5, QueueKept

\* Where the coordinator is while it publishes a phase.
LEMMA Receives ==
    ASSUME IInv, Ordered, cpc \in {"receive", "emit"}
    PROVE  /\ cp \in Phases /\ cp \in Nat /\ cp <= Last(wave) /\ Last(wave) \in Phases
           /\ Last(wave) \in Nat /\ outcome = "ok0" /\ status = "running"
           /\ FineUpTo(cp)
           /\ cpc = "receive" => \E g \in Nat : At(cp, g) /\ Queue(cp, g)
           /\ cpc = "emit" => \E g \in Nat : At(cp, g) /\ Queue(cp, g + 1) /\ Due(cp, g + 1)
<1>1. Typed /\ Position /\ Pending
  BY DEF IInv, Ordered
<1>2. cp \in Phases /\ cp \in Nat /\ cp <= Last(wave) /\ Last(wave) \in Phases /\ Last(wave) \in Nat
  <2>1. /\ First(wave) \in Nat \ {0} /\ Last(wave) \in Phases /\ Last(wave) \in Nat
        /\ Last(wave) <= NumPhases /\ NumPhases \in Nat
    BY <1>1, InWave DEF Phases
  <2>2. cp \in First(wave)..Last(wave)
    BY <1>1 DEF Position, WavePhases
  <2>3. QED
    BY <2>1, <2>2 DEF Phases
<1>3. QED
  BY <1>1, <1>2 DEF Position, Pending

\* The value received is the one that is due.
LEMMA ReceiveValueOrdered ==
    ASSUME IInv, Ordered, ReceiveValue
    PROVE  Ordered' /\ Refined
<1>1. input \in Published!Inputs /\ Content /\ Produced /\ Pending
  BY DEF Ordered
<1>2. /\ cpc = "receive" /\ chan[cp] # << >> /\ Head(chan[cp]).kind = "value" /\ Take(cp)
      /\ UNCHANGED <<input, out, fault, status, wave, cp, outcome, cancel, receiver, rec, failed>>
      /\ cpc' = "emit" /\ index' = Head(chan[cp]).record
  BY DEF ReceiveValue, Receiving, program, host
<1>3. PICK c \in Phases, g \in Nat : c = cp /\ At(c, g) /\ Queue(c, g) /\ FineUpTo(c)
  BY <1>2, Receives
<1>4. status = "running" /\ \A q \in Phases : q \in Nat
  BY <1>2, Receives, InterpreterAssumption DEF Phases
<1>5. Due(c, g + 1)'
  <2>1. Head(chan[c]) = Value(g + 1) /\ g + 1 \in 1..input.n /\ g + 1 < input.error[c]
    BY <1>1, <1>2, <1>3, HeadOfQueue
  <2>2. index' = g + 1 /\ input' = input
    BY <1>2, <1>3, <2>1, Kinds
  <2>3. QED
    BY <2>1, <2>2 DEF Due
<1>6. Produced' /\ Queue(c, g + 1)' /\ \A q \in Phases : q # c => (Queue(q, 0)' <=> Queue(q, 0))
  BY <1>1, <1>2, <1>3, TakeOrdered, ValueTaken
<1>7. /\ Content' /\ First(wave)' = First(wave) /\ Last(wave)' = Last(wave)
      /\ FineUpTo(c)' /\ At(c, g)'
  BY <1>1, <1>2, <1>3, ContentKept, SameWave, SameInput
<1>8. Pending'
  <2>1. \A q \in Phases : q = cp => /\ FineUpTo(q)'
                                     /\ \E k \in Nat : /\ At(q, k)' /\ Queue(q, k + 1)'
                                                       /\ Due(q, k + 1)'
    BY <1>3, <1>5, <1>6, <1>7
  <2>2. \A q \in Phases : q > cp => Queue(q, 0)'
    <3>1. \A q \in Phases : q > cp => q # c
      BY <1>3, <1>4
    <3>2. QED
      BY <1>1, <1>2, <1>6, <3>1 DEF Pending
  <2>3. QED
    BY <1>1, <1>2, <1>7, <2>1, <2>2 DEF Pending
<1>9. QED
  BY <1>1, <1>2, <1>6, <1>7, <1>8, SilentRefines DEF Ordered

\* What is written of the value that is due continues the reference.
LEMMA EmitExtends ==
    ASSUME IInv, Ordered, cpc = "emit", NEW m \in 0..Units,
           out' = out \o [k \in 1..m |-> <<cp, index, k>>], input' = input
    PROVE  /\ Content' /\ Len(out') = Len(out) + m
           /\ m > 0 => Len(out') \in (Len(out) + 1)..Len(Published!Reference(input))
           /\ out' = SubSeq(Published!Reference(input), 1, Len(out'))
<1>1. input \in Published!Inputs /\ Content
  BY DEF Ordered
<1>2. PICK c \in Phases, g \in Nat : c = cp /\ At(c, g) /\ Due(c, g + 1) /\ FineUpTo(c)
  BY Receives
<1>3. PICK r \in 1..input.n : r = g + 1 /\ r - 1 = g /\ r = index /\ r < input.error[c]
  BY <1>2 DEF Due
<1>4. PICK more : more = [k \in 1..m |-> <<c, r, k>>]
  OBVIOUS
<1>5. out' = out \o more
  BY <1>2, <1>3, <1>4
<1>6. At(c, r - 1)
  BY <1>2, <1>3
<1>7. QED
  BY <1>1, <1>2, <1>3, <1>4, <1>5, <1>6, OutGrows

\* The value in publication is published; the queue continues behind it.
LEMMA EmitOrdered ==
    ASSUME IInv, Ordered, Emit
    PROVE  Ordered' /\ Refined
<1>1. input \in Published!Inputs /\ Content /\ Produced /\ Pending
  BY DEF Ordered
<1>2. /\ cpc = "emit" /\ cpc' = "receive"
      /\ UNCHANGED <<input, fault, status, wave, cp, outcome, cancel, chan, receiver, wpc, rec,
                     failed>>
      /\ out' = out \o [k \in 1..Units |-> <<cp, index, k>>]
  BY DEF Emit, program, worker
<1>3. PICK c \in Phases, g \in Nat : c = cp /\ At(c, g) /\ Queue(c, g + 1) /\ FineUpTo(c)
  BY <1>2, Receives
<1>4. status = "running" /\ \A q \in Phases : q \in Nat /\ q \in Nat \ {0}
  BY <1>2, Receives, InterpreterAssumption DEF Phases
<1>5. /\ Content' /\ Len(out') = Len(out) + Units
      /\ Len(out') \in (Len(out) + 1)..Len(Published!Reference(input))
      /\ out' = SubSeq(Published!Reference(input), 1, Len(out'))
  <2>1. Units \in 0..Units /\ Units > 0
    BY InterpreterAssumption
  <2>2. QED
    BY <1>2, <2>1, EmitExtends
<1>6. Produced' /\ \A q \in Phases, k \in Nat : Queue(q, k)' <=> Queue(q, k)
  BY <1>1, <1>2, ProducedKept, QueueKept
<1>7. At(c, g + 1)'
  <2>1. Index(input, c, g + 1) = Index(input, c, g) + Units
    BY <1>1, <1>4, Places
  <2>2. Len(out') = Index(input, c, g + 1) /\ input' = input
    BY <1>2, <1>3, <1>5, <2>1 DEF At
  <2>3. QED
    BY <2>2 DEF At, Index
<1>8. First(wave)' = First(wave) /\ Last(wave)' = Last(wave) /\ FineUpTo(c)'
  BY <1>2, <1>3, SameWave, SameInput
<1>9. Pending'
  <2>1. g + 1 \in Nat
    OBVIOUS
  <2>2. \A q \in Phases : q = cp => FineUpTo(q)' /\ \E k \in Nat : At(q, k)' /\ Queue(q, k)'
    BY <1>3, <1>6, <1>7, <1>8, <2>1
  <2>3. \A q \in Phases : q > cp => Queue(q, 0)'
    BY <1>1, <1>2, <1>6 DEF Pending
  <2>4. QED
    BY <1>1, <1>2, <1>8, <2>2, <2>3 DEF Pending
<1>10. Refined
  <2>1. Published!Publish
    BY <1>2, <1>4, <1>5 DEF Published!Publish
  <2>2. QED
    BY <2>1 DEF Refined, Published!Next
<1>11. QED
  BY <1>1, <1>2, <1>5, <1>6, <1>9, <1>10 DEF Ordered

\* A write that fails leaves a part of the value that is due.
LEMMA EmitFailsOrdered ==
    ASSUME IInv, Ordered, EmitFails
    PROVE  Ordered' /\ Refined
<1>1. input \in Published!Inputs /\ Content /\ Produced /\ Pending
  BY DEF Ordered
<1>2. /\ cpc = "emit" /\ fault' = "yes" /\ outcome' = "err" /\ cpc' = "leave"
      /\ UNCHANGED <<input, status, wave, cp, chan, receiver, wpc, rec, failed>>
  BY DEF EmitFails, program, worker
<1>3. PICK n \in 0..(Units - 1) : out' = out \o [k \in 1..n |-> <<cp, index, k>>]
  BY DEF EmitFails
<1>4. PICK m \in 0..Units : m = n /\ m \in Nat
  BY InterpreterAssumption
<1>5. status = "running"
  BY <1>2, Receives
<1>6. /\ Content' /\ Len(out') = Len(out) + m
      /\ m > 0 => Len(out') \in (Len(out) + 1)..Len(Published!Reference(input))
      /\ out' = SubSeq(Published!Reference(input), 1, Len(out'))
  BY <1>2, <1>3, <1>4, EmitExtends
<1>7. Produced' /\ First(wave)' = First(wave) /\ Last(wave)' = Last(wave)
  BY <1>1, <1>2, ProducedKept, SameWave
<1>8. Pending'
  BY <1>1, <1>2, <1>7 DEF Pending
<1>9. Refined
  <2>1. CASE m > 0
    <3>1. Published!Publish
      BY <1>2, <1>5, <1>6, <2>1 DEF Published!Publish
    <3>2. QED
      BY <3>1 DEF Refined, Published!Next
  <2>2. CASE m = 0
    <3>1. Len(out') = Len(out) /\ input' = input
      <4>1. Len(out) \in Nat
        BY <1>1 DEF Content
      <4>2. QED
        BY <1>2, <1>6, <2>2, <4>1
    <3>2. out' = out
      BY <1>1, <1>6, <3>1 DEF Content
    <3>3. QED
      BY <1>2, <1>5, <3>2, SilentRefines
  <2>3. QED
    BY <1>4, <2>1, <2>2
<1>10. QED
  BY <1>1, <1>2, <1>6, <1>7, <1>8, <1>9 DEF Ordered

\* The message that ends a phase, Done or an error.
LEMMA EndReceived ==
    ASSUME IInv, Ordered, ReceiveError \/ ReceiveDone
    PROVE  Ordered' /\ Refined
<1>1. input \in Published!Inputs /\ Content /\ Produced /\ Pending
  BY DEF Ordered
<1>2. /\ cpc = "receive" /\ chan[cp] # << >> /\ Head(chan[cp]).kind \in {"done", "error"}
      /\ Take(cp)
      /\ UNCHANGED <<input, out, fault, status, wave, cancel, receiver, rec, failed>>
  BY DEF ReceiveError, ReceiveDone, Receiving, program, host
<1>3. PICK c \in Phases, g \in Nat : c = cp /\ At(c, g) /\ Queue(c, g) /\ FineUpTo(c)
  BY <1>2, Receives
<1>4. /\ status = "running" /\ outcome = "ok0" /\ c \in Nat /\ c <= Last(wave)
      /\ Last(wave) \in Nat /\ \A q \in Phases : q \in Nat
  BY <1>2, <1>3, Receives, InterpreterAssumption DEF Phases
<1>5. Head(chan[c]) = Result(c) /\ rec[c] = g + 1 /\ Result(c).kind # "value" /\ input.n > 0
  BY <1>1, <1>2, <1>3, HeadOfQueue DEF Pending
<1>6. /\ Result(c).kind = "done" =>
            /\ Result(c).failed = "yes" => Complete
            /\ Result(c).failed # "yes" => FineUpTo(c + 1) /\ At(c + 1, 0)
      /\ Result(c).kind # "done" => Complete
  BY <1>1, <1>3, <1>5, PhaseEnds
<1>7. Produced' /\ \A q \in Phases : q # c => (Queue(q, 0)' <=> Queue(q, 0))
  BY <1>1, <1>2, <1>3, TakeOrdered
<1>8. /\ Content' /\ First(wave)' = First(wave) /\ Last(wave)' = Last(wave)
      /\ \A q : (FineUpTo(q)' <=> FineUpTo(q)) /\ (At(q, 0)' <=> At(q, 0))
      /\ Complete' <=> Complete
  BY <1>1, <1>2, ContentKept, SameWave, SameInput
<1>9. CASE cpc' = "leave" /\ outcome' # "ok0" /\ Complete
  <2>1. Pending'
    BY <1>1, <1>2, <1>4, <1>8, <1>9 DEF Pending
  <2>2. QED
    BY <1>1, <1>2, <1>7, <1>8, <2>1, SilentRefines DEF Ordered
<1>10. CASE /\ FineUpTo(c + 1) /\ At(c + 1, 0)
            /\ ~(c < Last(wave)) /\ cpc' = "leave" /\ outcome' = "ok0"
  <2>1. Last(wave) + 1 = c + 1
    BY <1>4, <1>10
  <2>2. Pending'
    BY <1>1, <1>2, <1>4, <1>8, <1>10, <2>1 DEF Pending
  <2>3. QED
    BY <1>1, <1>2, <1>7, <1>8, <2>2, SilentRefines DEF Ordered
<1>11. CASE /\ FineUpTo(c + 1) /\ At(c + 1, 0)
            /\ c < Last(wave) /\ cpc' = "receive" /\ cp' = c + 1
  <2>1. \A q \in Phases : q > c => Queue(q, 0)'
    <3>1. \A q \in Phases : q > c => Queue(q, 0)
      BY <1>1, <1>2, <1>3 DEF Pending
    <3>2. \A q \in Phases : q > c => q # c
      BY <1>4
    <3>3. QED
      BY <1>7, <3>1, <3>2
  <2>2. \A q \in Phases : q = c + 1 => FineUpTo(q)' /\ \E k \in Nat : At(q, k)' /\ Queue(q, k)'
    <3> SUFFICES ASSUME NEW q \in Phases, q = c + 1
                 PROVE  FineUpTo(q)' /\ At(q, 0)' /\ Queue(q, 0)'
      OBVIOUS
    <3>1. q > c
      BY <1>4
    <3>2. QED
      BY <1>8, <1>11, <2>1, <3>1
  <2>3. \A q \in Phases : q > c + 1 => Queue(q, 0)'
    BY <1>4, <2>1
  <2>4. Pending'
    BY <1>1, <1>2, <1>4, <1>8, <1>11, <2>2, <2>3 DEF Pending
  <2>5. QED
    BY <1>1, <1>2, <1>7, <1>8, <2>4, SilentRefines DEF Ordered
<1>12. QED
  <2>1. CASE ReceiveError
    <3>1. cpc' = "leave" /\ outcome' = "err" /\ Head(chan[cp]).kind = "error"
      BY <2>1 DEF ReceiveError, Receiving
    <3>2. QED
      BY <1>3, <1>5, <1>6, <1>9, <3>1
  <2>2. CASE ReceiveDone
    <3>1. /\ Head(chan[cp]).kind = "done"
          /\ \/ Head(chan[cp]).failed = "yes" /\ outcome' = "ok1" /\ cpc' = "leave"
             \/ /\ Head(chan[cp]).failed # "yes" /\ cp < Last(wave)
                /\ cp' = cp + 1 /\ cpc' = "receive"
             \/ /\ Head(chan[cp]).failed # "yes" /\ ~(cp < Last(wave))
                /\ cpc' = "leave" /\ outcome' = outcome
      BY <1>2, <2>2 DEF ReceiveDone, Receiving
    <3>2. QED
      BY <1>3, <1>4, <1>5, <1>6, <1>9, <1>10, <1>11, <3>1
  <2>3. QED
    BY <2>1, <2>2

\* The next wave begins where this one ended; after the last one nothing is missing.
LEMMA WaveDoneOrdered ==
    ASSUME IInv, Ordered, WaveDone
    PROVE  Ordered' /\ Refined
<1>1. /\ input \in Published!Inputs /\ Content /\ Produced /\ Pending
      /\ Typed /\ Position /\ Waves
  BY DEF Ordered, IInv
<1>2. /\ cpc = "join" /\ cp \notin Admitted
      /\ UNCHANGED <<input, out, fault, outcome, chan, receiver, wpc, rec, failed>>
  BY DEF WaveDone, program, links, worker
<1>3. /\ First(wave) \in Nat \ {0} /\ Last(wave) \in Nat /\ cp \in Nat /\ admitted \in Nat
      /\ \A p \in Phases : p \in Nat
  BY <1>1, InWave, InterpreterAssumption DEF Typed, Phases
<1>4. cp = First(wave) + admitted
  <2>1. First(wave) <= cp /\ cp <= First(wave) + admitted
    BY <1>1, <1>2 DEF Position
  <2>2. ~(First(wave) <= cp /\ cp < First(wave) + admitted)
    BY <1>1, <1>2, <1>3, InWave
  <2>3. QED
    BY <1>3, <2>1, <2>2
<1>5. Content' /\ Produced' /\ \A q \in Phases : Queue(q, 0)' <=> Queue(q, 0)
  BY <1>1, <1>2, ContentKept, ProducedKept, QueueKept
<1>6. status = "running" /\ input.n > 0
  BY <1>1, <1>2 DEF Pending
<1>7. \A q : (FineUpTo(q)' <=> FineUpTo(q)) /\ (At(q, 0)' <=> At(q, 0))
  BY <1>2, SameInput
<1>8. CASE outcome = "ok0" /\ wave < LastWave
  <2>1. wave' = wave + 1 /\ cpc' = "spawn" /\ cancel' = "no" /\ status' = status
    BY <1>8 DEF WaveDone
  <2>2. /\ wave + 1 \in 1..LastWave /\ wave \in 1..LastWave
        /\ Last(wave) + 1 = First(wave + 1)
    BY <1>1, <1>8, WaveBounds DEF Typed
  <2>3. /\ First(wave + 1) \in Nat /\ Last(wave + 1) \in Nat
        /\ First(wave + 1) <= Last(wave + 1)
    BY <1>3, <2>2, WaveBounds
  <2>4. First(wave)' = First(wave + 1) /\ Last(wave)' = Last(wave + 1)
    BY <2>1 DEF First, Last
  <2>5. First(wave) + admitted = First(wave + 1)
    BY <1>1, <1>2, <1>8, <2>2 DEF Position, Whole
  <2>6. \A q \in Phases : q >= First(wave + 1) => Queue(q, 0) /\ receiver[q] = "alive"
    <3> SUFFICES ASSUME NEW q \in Phases, q >= First(wave + 1)
                 PROVE  Queue(q, 0) /\ receiver[q] = "alive"
      OBVIOUS
    <3>1. wpc[q] = "off" /\ chan[q] = << >>
      BY <1>1, <2>5 DEF Waves
    <3>2. rec[q] = 1 /\ Len(chan[q]) = 0
      BY <1>1, <3>1 DEF Produced
    <3>3. Queue(q, 0)
      BY <3>1, <3>2 DEF Queue
    <3>4. q > Last(wave)
      BY <1>3, <2>2
    <3>5. QED
      BY <1>1, <3>3, <3>4 DEF Pending
  <2>7. \A q \in Phases : q > Last(wave + 1) => receiver[q] = "alive"
    BY <1>3, <2>3, <2>6
  <2>8. \A q \in Nat : q = First(wave + 1) => FineUpTo(q)' /\ At(q, 0)'
    BY <1>1, <1>2, <1>7, <1>8, <2>2 DEF Pending
  <2>9. Pending'
    BY <1>2, <1>5, <1>6, <2>1, <2>4, <2>6, <2>7, <2>8 DEF Pending
  <2>10. QED
    BY <1>1, <1>2, <1>5, <2>1, <2>9, SilentRefines DEF Ordered
<1>9. CASE ~(outcome = "ok0" /\ wave < LastWave)
  <2>1. /\ cpc' = "dead" /\ wave' = wave /\ status' = IF outcome = "ok0" THEN "ok" ELSE "failed"
    BY <1>9 DEF WaveDone
  <2>2. First(wave)' = First(wave) /\ Last(wave)' = Last(wave)
    BY <2>1, SameWave
  <2>3. \A q \in Phases : ~Live(q)'
    <3> SUFFICES ASSUME NEW q \in Phases PROVE ~Live(q)
      BY <1>2 DEF Live
    <3>1. \/ q < First(wave) \/ (First(wave) <= q /\ q < cp) \/ q >= First(wave) + admitted
      BY <1>3, <1>4
    <3>2. QED
      BY <1>1, <1>2, <3>1 DEF Waves, Over, Live
  <2>4. Pending'
    BY <1>1, <1>2, <2>1, <2>2, <2>3 DEF Pending
  <2>5. Refined
    <3>1. CASE outcome = "ok0"
      <4>1. wave = LastWave
        BY <1>1, <1>9, <3>1, WaveBounds DEF Typed
      <4>2. Last(wave) = NumPhases
        BY <4>1, LastWaveEnds
      <4>3. PICK n \in Nat \ {0} : n = NumPhases
        BY InterpreterAssumption
      <4>4. FineUpTo(n + 1) /\ At(n + 1, 0)
        BY <1>1, <1>2, <3>1, <4>2, <4>3 DEF Pending
      <4>5. \A q \in Phases : ~Published!Fails(input, q)
        BY <4>3, <4>4 DEF FineUpTo, Phases
      <4>6. n \in Phases /\ input.error[n] - 1 = input.n
        <5>1. n \in Phases
          BY <4>3 DEF Phases
        <5>2. /\ input.error[n] \in Nat /\ input.error[n] <= input.n + 1 /\ input.n \in Nat
          BY <1>1, <5>1, InputShape
        <5>3. ~(input.error[n] <= input.n)
          BY <4>5, <5>1 DEF Published!Fails
        <5>4. QED
          BY <5>1, <5>2, <5>3
      <4>7. Len(Published!Reference(input)) = Index(input, n, input.n)
        <5>1. Len(Published!Reference(input)) = Index(input, n, input.error[n] - 1)
          BY <1>1, <4>3, <4>5, <4>6, ReferenceEnd
        <5>2. QED
          BY <4>6, <5>1
      <4>8. Len(out) = Len(Published!Reference(input))
        BY <1>1, <4>3, <4>4, <4>7, Places DEF At
      <4>9. QED
        BY <1>1, <1>2, <1>6, <2>1, <3>1, <4>5, <4>8, FinishRefines
    <3>2. CASE outcome # "ok0"
      <4>1. status' = "failed" /\ (fault = "yes" \/ Complete)
        BY <1>1, <1>2, <2>1, <3>2 DEF Pending
      <4>2. CASE fault = "yes"
        <5>1. Published!GiveUp
          BY <1>2, <1>6, <4>1, <4>2 DEF Published!GiveUp
        <5>2. QED
          BY <5>1 DEF Refined, Published!Next
      <4>3. CASE Complete
        BY <1>1, <1>2, <1>6, <4>1, <4>3, FinishRefines DEF Complete
      <4>4. QED
        BY <4>1, <4>2, <4>3
    <3>3. QED
      BY <3>1, <3>2
  <2>6. QED
    BY <1>1, <1>2, <1>5, <2>4, <2>5 DEF Ordered
<1>10. QED
  BY <1>8, <1>9

\* Nothing happens.
LEMMA IdleOrdered ==
    ASSUME IInv, Ordered, UNCHANGED vars
    PROVE  Ordered' /\ Refined
<1>1. input \in Published!Inputs /\ Content /\ Produced /\ Pending
  BY DEF Ordered
<1>2. UNCHANGED <<input, out, fault, status, cpc, wave, cp, outcome, cancel, chan, receiver,
                 index, wpc, rec, failed>>
  BY DEF vars, program, host, coord, links, worker
<1>3. /\ Content' /\ Produced' /\ First(wave)' = First(wave) /\ Last(wave)' = Last(wave)
      /\ \A q \in Phases, g \in Nat : Queue(q, g)' <=> Queue(q, g)
      /\ \A q : (FineUpTo(q)' <=> FineUpTo(q)) /\ \A g : At(q, g)' <=> At(q, g)
      /\ Complete' <=> Complete
      /\ \A q : (Live(q)' <=> Live(q)) /\ \A r : Due(q, r)' <=> Due(q, r)
  BY <1>1, <1>2, ContentKept, ProducedKept, SameWave, QueueKept, SameInput DEF Live, Due
<1>4. Pending'
  BY <1>1, <1>2, <1>3 DEF Pending
<1>5. QED
  BY <1>1, <1>2, <1>3, <1>4, SilentRefines DEF Ordered

\* Every step of the waves is a step of the specification, or none.
LEMMA StepOrdered == IInv /\ Ordered /\ [Next]_vars => Ordered' /\ [Published!Next]_Published!vars
<1> SUFFICES ASSUME IInv, Ordered, [Next]_vars PROVE Ordered' /\ Refined
  BY DEF Refined
<1>1. CASE Coordinator
  BY <1>1, GateOrdered, SpawnOrdered, FailureOrdered, ReceiveValueOrdered, EmitOrdered,
     EmitFailsOrdered, EndReceived, DropReceiverOrdered, WaveDoneOrdered
  DEF Coordinator
<1>2. ASSUME NEW p \in Phases, Worker(p) PROVE Ordered' /\ Refined
  BY <1>2, WorkerOrdered
<1>3. CASE Ended \/ UNCHANGED vars
  BY <1>3, IdleOrdered DEF Ended
<1>4. QED
  BY <1>1, <1>2, <1>3 DEF Next

-----------------------------------------------------------------------------
(* The waves implement ordered publication. *)

\* Whatever the threads do and whichever host call fails, standard output is a
\* beginning of what the sequential mode writes, and the exit status is that of
\* the sequential mode unless a fault cut it short.
THEOREM PublicationIsOrdered == Spec => RefinesPublication
<1>1. Init => Published!Init
  BY DEF Init, Published!Init
<1>2. QED
  BY <1>1, Invariant, InitOrdered, StepOrdered, PTL DEF Spec, RefinesPublication, Published!Spec

=============================================================================

------------------------- MODULE TcpService_proofs -------------------------
(***************************************************************************)
(* Descriptors, lifetimes and conversations of a raw TCP service with any    *)
(* number of connections, children, steps and ticks, any handlers and        *)
(* declarations.                                                             *)
(*                                                                         *)
(* NoDescriptorLeak says who holds a descriptor and is inductive once frames *)
(* have their shape.  The lifetime needs more: that a connection is forked   *)
(* for once, that its waits are those of the child that has it, and that     *)
(* this child counts a step before each read.                               *)
(*                                                                         *)
(* A conversation is a fold of the source program over the chunks that were  *)
(* read.  Conversations relates every frame to it: a process that is about   *)
(* to read has the state which that fold leaves (Talk), one in the middle of *)
(* an answer has written as many pieces of it as its counter says (Middle),  *)
(* and between answers the client has them all (Heard).  It is inductive     *)
(* only with the lifetimes: they say that nobody else has the connection.    *)
(* The folds themselves are unfolded by the lemmas before, whose induction   *)
(* is on the length of a sequence.                                           *)
(***************************************************************************)
EXTENDS TcpService, TLAPS, WellFoundedInduction

Away == {"accept", "free", "dead"}
Busy(p) == frame[p].pc \notin Away

\* A frame has the fields that the program reads and writes.
Fields == {"pc", "conn", "steps", "waited", "chunk", "state", "lets", "k"}
IsFrame(r) ==
    /\ DOMAIN r = Fields
    /\ r.pc \in Positions
    /\ r.conn \in Conns \cup {NoConn}
    /\ r.steps \in Nat /\ r.waited \in Nat

Shape ==
    /\ DOMAIN frame = Procs
    /\ \A p \in Procs : IsFrame(frame[p])
    /\ holders \in [Conns -> SUBSET Procs]
    /\ phase \in [Conns -> {"new", "queued", "accepted"}]
    /\ waits \in [Conns -> Nat]
    /\ declared \in Declarations /\ Kind # "refused"

Others(p) == \A q \in Procs : q # p => frame'[q] = frame[q]
Stays(p) == frame'[p].conn = frame[p].conn /\ frame'[p].steps = frame[p].steps
                /\ frame'[p].waited = frame[p].waited

-----------------------------------------------------------------------------
(* What the actions do to a frame. *)

\* A goto changes the position of one process.
LEMMA GoMoves ==
    ASSUME Shape, NEW p \in Procs, NEW to \in Positions, Go(p, to)
    PROVE  /\ DOMAIN frame' = Procs /\ DOMAIN frame'[p] = Fields
           /\ Others(p) /\ Stays(p) /\ frame'[p].pc = to
BY DEF Shape, IsFrame, Go, Others, Stays, Fields

\* So does the end of a block; within the block the position stays.
LEMMA ItemMoves ==
    ASSUME Shape, NEW p \in Procs, NEW to \in Positions, NEW n, NextItem(p, n, to)
    PROVE  /\ DOMAIN frame' = Procs /\ DOMAIN frame'[p] = Fields
           /\ Others(p) /\ Stays(p) /\ frame'[p].pc \in {to, frame[p].pc}
<1>1. CASE frame[p].k < n
  BY <1>1 DEF Shape, IsFrame, NextItem, Others, Stays, Fields
<1>2. CASE ~(frame[p].k < n)
  BY <1>2, GoMoves DEF NextItem
<1>3. QED
  BY <1>1, <1>2

\* Closing takes the process from the holders of the one connection it has.
LEMMA SlotCloses ==
    ASSUME Shape, NoDescriptorLeak, NEW p \in Procs, CloseSlot(p)
    PROVE  /\ holders' \in [Conns -> SUBSET Procs]
           /\ \A c \in Conns : holders'[c] = holders[c] \ {p}
BY DEF Shape, IsFrame, NoDescriptorLeak, CloseSlot

\* One step of the process that serves.  It keeps its connection and goes on, or
\* closes it and is done; only StepTop leads a multi-step service to a read.
Serves(p) ==
    /\ DOMAIN frame' = Procs /\ DOMAIN frame'[p] = Fields /\ Others(p)
    /\ Busy(p) /\ frame'[p].pc \in Positions
    /\ frame'[p].steps \in Nat /\ frame'[p].waited \in Nat
    /\ UNCHANGED <<declared, phase, waits>>
    /\ \/ holders' = holders /\ frame'[p].conn = frame[p].conn /\ frame'[p].pc \notin Away
       \/ /\ holders' \in [Conns -> SUBSET Procs]
          /\ \A c \in Conns : holders'[c] = holders[c] \ {p}
          /\ frame'[p].conn \in {frame[p].conn, NoConn} /\ frame'[p].pc \in Away

InStep == {"step", "read", "respond", "after", "close"}
Counts(p) ==
    /\ frame[p].pc \in InStep
    /\ \/ frame'[p].pc \in Away
       \/ /\ frame[p].pc = "step" /\ frame'[p].pc = "read" /\ frame[p].steps < MaxSteps
          /\ frame'[p].steps = frame[p].steps + 1 /\ frame'[p].waited = 0
       \/ /\ frame'[p].pc \in InStep \ {"read"}
          /\ frame'[p].steps = frame[p].steps /\ frame'[p].waited \in {0, frame[p].waited}

LEMMA ServeEffect ==
    ASSUME Shape, NoDescriptorLeak, NEW p \in Procs, Serve(p)
    PROVE  Serves(p) /\ (Kind = "multistep" => Counts(p))
<1> USE TcpAssumption DEF At
<1>1. CASE StepTop(p)
  <2>1. DOMAIN frame' = Procs /\ DOMAIN frame'[p] = Fields /\ Others(p)
    BY <1>1 DEF StepTop, Shape, IsFrame, Others, Fields
  <2>2. frame'[p].conn = frame[p].conn
    BY <1>1 DEF StepTop, Shape, IsFrame, Fields
  <2>3. \/ /\ frame'[p].pc = "close"
           /\ frame'[p].steps = frame[p].steps /\ frame'[p].waited = frame[p].waited
        \/ /\ frame'[p].pc = "read" /\ ~(frame[p].steps >= MaxSteps)
           /\ frame'[p].steps = frame[p].steps + 1 /\ frame'[p].waited = 0
    BY <1>1 DEF StepTop, Shape, IsFrame, Fields
  <2>4. QED
    BY <1>1, <2>1, <2>2, <2>3
    DEF StepTop, Shape, IsFrame, Serves, Counts, InStep, Positions, Busy, Away, client, history
<1>2. ASSUME NEW c \in Conns, Read(p, c) PROVE Serves(p) /\ Counts(p)
  <2>1. DOMAIN frame' = Procs /\ DOMAIN frame'[p] = Fields /\ Others(p)
    BY <1>2 DEF Read, Shape, IsFrame, Others, Fields
  <2>2. /\ frame'[p].conn = frame[p].conn /\ frame'[p].pc \in {"close", "respond"}
        /\ frame'[p].steps = frame[p].steps /\ frame'[p].waited = 0
    BY <1>2 DEF Read, Shape, IsFrame, Fields
  <2>3. frame[p].pc = "read" /\ UNCHANGED <<declared, phase, waits, holders>>
    BY <1>2 DEF Read, Reading
  <2>4. QED
    BY <2>1, <2>2, <2>3 DEF Shape, IsFrame, Serves, Counts, InStep, Positions, Busy, Away
<1>3. CASE ReadFails(p) \/ RespondAborts(p)
  <2>1. Go(p, "close") /\ frame[p].pc \in {"read", "respond"} /\ "close" \in Positions
    BY <1>3 DEF ReadFails, RespondAborts, Serving, Positions
  <2>2. QED
    BY <1>3, <2>1, GoMoves
    DEF ReadFails, RespondAborts, Shape, IsFrame, Serves, Counts, InStep, Stays,
        Positions, Busy, Away, client,
        history
<1>4. CASE Respond(p)
  <2>1. AfterResponse \in {"read", "close", "step", "after"}
        /\ (Kind = "multistep" => AfterResponse \in {"step", "after"})
    BY DEF AfterResponse
  <2>2. NextItem(p, Len(Program.response), AfterResponse) /\ AfterResponse \in Positions
        /\ frame[p].pc = "respond" /\ UNCHANGED <<declared, phase, waits, holders>>
    BY <1>4, <2>1 DEF Respond, Serving, Positions, client
  <2>3. QED
    BY <2>1, <2>2, ItemMoves DEF Shape, IsFrame, Serves, Counts, InStep, Stays, Positions,
                                 Busy, Away
<1>5. CASE AfterBlock(p)
  <2>1. DOMAIN frame' = Procs /\ DOMAIN frame'[p] = Fields /\ Others(p)
    BY <1>5 DEF AfterBlock, Shape, IsFrame, Others, Fields
  <2>2. frame'[p].pc \in {"step", "close"} /\ Stays(p)
    BY <1>5 DEF AfterBlock, Shape, IsFrame, Fields, Stays
  <2>3. QED
    BY <1>5, <2>1, <2>2
    DEF AfterBlock, Shape, IsFrame, Serves, Counts, InStep, Stays, Positions, Busy, Away,
        client, history
<1>6. CASE BrokenPipe(p) \/ Close(p)
  <2>1. CloseSlot(p) /\ Busy(p) /\ frame[p].pc \in InStep
                        /\ UNCHANGED <<declared, phase, waits>>
    BY <1>6 DEF BrokenPipe, Close, Serving, Busy, Away, InStep, client, history
  <2>2. DOMAIN frame' = Procs /\ DOMAIN frame'[p] = Fields /\ Others(p)
    BY <1>6 DEF BrokenPipe, Close, Shape, IsFrame, Others, Fields, Blank
  <2>3. /\ frame'[p].pc \in Away /\ frame'[p].conn \in {frame[p].conn, NoConn}
        /\ frame'[p].steps \in Nat /\ frame'[p].waited \in Nat
    <3>1. \/ frame'[p] = Blank
          \/ frame'[p] = [frame[p] EXCEPT !.pc = "dead"]
          \/ frame'[p] = [frame[p] EXCEPT !.pc = "accept", !.k = 1]
      <4>1. /\ p \in DOMAIN frame
            /\ \/ frame' = [frame EXCEPT ![p] = IF p = Listener THEN [@ EXCEPT !.pc = "dead"]
                                                ELSE Blank]
               \/ frame' = [frame EXCEPT ![p] = IF p = Listener
                                                THEN [@ EXCEPT !.pc = "accept", !.k = 1]
                                                ELSE Blank]
        BY <1>6 DEF BrokenPipe, Close, Shape, IsFrame
      <4>2. CASE p = Listener
        BY <4>1, <4>2
      <4>3. CASE p # Listener
        BY <4>1, <4>3
      <4>4. QED
        BY <4>2, <4>3
    <3>2. QED
      <4>1. CASE frame'[p] = Blank
        BY <4>1 DEF Blank, Away
      <4>2. CASE frame'[p] = [frame[p] EXCEPT !.pc = "dead"]
        BY <4>2 DEF Shape, IsFrame, Fields, Away
      <4>3. CASE frame'[p] = [frame[p] EXCEPT !.pc = "accept", !.k = 1]
        BY <4>3 DEF Shape, IsFrame, Fields, Away
      <4>4. QED
        BY <3>1, <4>1, <4>2, <4>3
  <2>4. QED
    BY <2>1, <2>2, <2>3, SlotCloses DEF Serves, Counts, InStep, Positions, Away
<1>7. QED
  BY <1>1, <1>2, <1>3, <1>4, <1>5, <1>6 DEF Serve

-----------------------------------------------------------------------------
(* The invariant of the lifetimes. *)

\* What the child of a connection may have waited when it is where it is.
Allowance(p) == IF frame[p].pc = "read"
                THEN (frame[p].steps - 1) * ReadTimeout + frame[p].waited
                ELSE frame[p].steps * ReadTimeout

\* The child has its connection to itself, and its steps cover the waits.
Child(p) ==
    LET c == frame[p].conn
    IN  /\ c \in Conns /\ phase[c] = "accepted"
        /\ frame[p].pc \in InStep
        /\ frame[p].pc = "read" => frame[p].steps > 0
        /\ frame[p].steps <= MaxSteps /\ frame[p].waited <= ReadTimeout
        /\ waits[c] <= Allowance(p)

\* The listener only accepts and forks, and what it forks for is new.
Fresh(c) == waits[c] = 0 /\ \A q \in Kids : Busy(q) => frame[q].conn # c

Lifetimes ==
    /\ frame[Listener].pc \in {"accept", "fork", "drop"} /\ frame[Listener].waited = 0
    /\ frame[Listener].pc = "fork" /\ frame[Listener].conn # NoConn =>
          phase[frame[Listener].conn] = "accepted" /\ Fresh(frame[Listener].conn)
    /\ \A p \in Kids : Busy(p) => Child(p)
    /\ \A p, q \in Kids : Busy(p) /\ Busy(q) /\ frame[p].conn = frame[q].conn => p = q
    /\ \A c \in Conns : phase[c] # "accepted" => waits[c] = 0
    /\ \A c \in Conns : waits[c] <= MaxSteps * ReadTimeout

IInv == Shape /\ NoDescriptorLeak /\ (Kind = "multistep" => Lifetimes)

\* The allowance grows with the steps.
LEMMA Products ==
    /\ \A n \in Nat : n * ReadTimeout \in Nat
       /\ (n + 1) * ReadTimeout = n * ReadTimeout + ReadTimeout
    /\ \A n \in Nat : n <= MaxSteps => n * ReadTimeout <= MaxSteps * ReadTimeout
<1>1. ReadTimeout \in Nat /\ MaxSteps \in Nat
  BY TcpAssumption
<1>2. QED
  BY <1>1

\* A read that waited no longer than the timeout stays within the next step.
LEMMA Slack ==
    ASSUME NEW spent \in Nat, NEW before \in Nat, NEW wait \in Nat, NEW after \in Nat,
           spent <= before + wait, wait <= ReadTimeout, after = before + ReadTimeout
    PROVE  spent <= after
BY TcpAssumption

LEMMA InitHolds == Init => IInv
<1> SUFFICES ASSUME Init PROVE IInv
  OBVIOUS
<1> USE TcpAssumption
<1>1. \A p \in Procs : frame[p] = [Blank EXCEPT !.pc = "accept"] \/ frame[p] = Blank
  BY DEF Init
<1>2. \A p \in Procs : /\ DOMAIN frame[p] = Fields /\ frame[p].pc \in {"accept", "free"}
                       /\ frame[p].conn = NoConn /\ frame[p].steps = 0
                       /\ frame[p].waited = 0
  BY <1>1 DEF Blank, Fields
<1>3. frame[Listener] = [Blank EXCEPT !.pc = "accept"]
  BY DEF Init, Procs
<1>4. frame[Listener].pc = "accept"
  BY <1>3 DEF Blank
<1>5. Shape
  BY <1>2 DEF Init, Shape, IsFrame, Kind, Positions
<1>6. NoDescriptorLeak
  BY DEF Init, NoDescriptorLeak
<1>7. Lifetimes
  <2>1. 0 <= MaxSteps * ReadTimeout
    BY Products
  <2>2. \A q \in Kids : ~Busy(q)
    BY <1>2 DEF Busy, Away, Procs
  <2>3. QED
    BY <1>2, <1>4, <2>1, <2>2 DEF Init, Lifetimes, Procs
<1>8. QED
  BY <1>5, <1>6, <1>7 DEF IInv

\* A process that serves keeps the account.
LEMMA ServeKeeps ==
    ASSUME IInv, NEW p \in Procs, Serve(p)
    PROVE  IInv'
<1> USE TcpAssumption
<1>1. Serves(p) /\ (Kind = "multistep" => Counts(p)) /\ Shape /\ NoDescriptorLeak
  BY ServeEffect DEF IInv
<1>2. Kind' = Kind
  BY <1>1 DEF Serves, Kind
<1>3. Shape'
  BY <1>1, <1>2 DEF Serves, Shape, IsFrame, Others
<1>4. NoDescriptorLeak'
  <2>1. SUFFICES ASSUME NEW c \in Conns, NEW q \in holders'[c]
                 PROVE  frame'[q].conn = c /\ frame'[q].pc \notin Away
    BY DEF NoDescriptorLeak, Away
  <2>2. q \in holders[c] /\ q \in Procs
    BY <1>1, <1>3, <2>1 DEF Serves, Shape, IsFrame
  <2>3. frame[q].conn = c /\ frame[q].pc \notin Away
    BY <1>1, <2>2 DEF NoDescriptorLeak, Away
  <2>4. QED
    BY <1>1, <2>1, <2>2, <2>3 DEF Serves, Others
<1>5. ASSUME Kind = "multistep" PROVE Lifetimes'
  <2>1. Lifetimes /\ Counts(p) /\ Serves(p)
    BY <1>1, <1>5 DEF IInv
  <2>2. p # Listener
    BY <2>1 DEF Lifetimes, Counts, InStep
  <2>3. /\ p \in Kids /\ frame'[Listener] = frame[Listener] /\ Listener \in Procs
        /\ UNCHANGED <<phase, waits>>
    BY <2>1, <2>2 DEF Serves, Others, Procs
  <2>4. \A q \in Kids : Busy(q)' => Busy(q) /\ frame'[q].conn = frame[q].conn
    BY <2>1, <2>3 DEF Serves, Others, Procs, Busy, Away
  <2>5. \A q \in Kids : Busy(q)' => Child(q)'
    <3>1. SUFFICES ASSUME NEW q \in Kids, Busy(q)' PROVE Child(q)'
      OBVIOUS
    <3>2. CASE q # p
      <4>1. frame'[q] = frame[q] /\ Child(q)
        BY <2>1, <2>4, <3>1, <3>2 DEF Serves, Others, Procs, Lifetimes
      <4>2. QED
        BY <4>1, <2>3 DEF Child, Allowance
    <3>3. CASE q = p
      <4>1. /\ Child(p) /\ frame'[p].conn = frame[p].conn
            /\ frame[p].steps \in Nat /\ frame[p].waited \in Nat
            /\ waits[frame[p].conn] \in Nat
        BY <1>1, <2>1, <2>4, <3>1, <3>3 DEF Lifetimes, Shape, IsFrame, Child
      <4>2. CASE frame'[p].pc = "read"
        <5>1. /\ frame[p].pc = "step" /\ frame[p].steps < MaxSteps
              /\ frame'[p].steps = frame[p].steps + 1 /\ frame'[p].waited = 0
          BY <2>1, <3>1, <3>3, <4>2 DEF Counts, InStep, Busy, Away
        <5>2. waits[frame[p].conn] <= frame[p].steps * ReadTimeout
          BY <4>1, <5>1 DEF Child, Allowance
        <5>3. /\ frame'[p].steps - 1 = frame[p].steps /\ frame'[p].steps > 0
              /\ frame'[p].steps <= MaxSteps
              /\ frame[p].steps * ReadTimeout \in Nat
          <6>1. frame[p].steps * ReadTimeout \in Nat
            BY <4>1, Products
          <6>2. QED
            BY <4>1, <5>1, <6>1
        <5>4. Allowance(p)' = frame[p].steps * ReadTimeout
          BY <4>2, <5>1, <5>3 DEF Allowance
        <5>5. QED
          BY <2>3, <3>3, <4>1, <4>2, <5>1, <5>2, <5>3, <5>4 DEF Child, InStep
      <4>3. CASE frame'[p].pc # "read"
        <5>1. /\ frame'[p].pc \in InStep \ {"read"}
              /\ frame'[p].steps = frame[p].steps /\ frame'[p].waited \in {0, frame[p].waited}
          BY <2>1, <3>1, <3>3, <4>3 DEF Counts, InStep, Busy, Away
        <5>2. waits[frame[p].conn] <= frame[p].steps * ReadTimeout
          <6>1. CASE frame[p].pc = "read"
            <7>1. /\ frame[p].steps - 1 \in Nat
                  /\ frame[p].steps = (frame[p].steps - 1) + 1
                  /\ waits[frame[p].conn] <= (frame[p].steps - 1) * ReadTimeout + frame[p].waited
                  /\ frame[p].waited <= ReadTimeout
              BY <4>1, <6>1 DEF Child, Allowance
            <7>2. frame[p].steps * ReadTimeout = (frame[p].steps - 1) * ReadTimeout + ReadTimeout
              BY <7>1, Products
            <7>3. (frame[p].steps - 1) * ReadTimeout \in Nat
              BY <7>1, Products
            <7>4. QED
              BY <7>1, <7>2, <7>3, <4>1, Products, Slack
          <6>2. CASE frame[p].pc # "read"
            BY <4>1, <6>2 DEF Child, Allowance
          <6>3. QED
            BY <6>1, <6>2
        <5>3. QED
          BY <2>3, <3>3, <4>1, <5>1, <5>2 DEF Child, Allowance
      <4>4. QED
        BY <4>2, <4>3
    <3>4. QED
      BY <3>2, <3>3
  <2>6. QED
    BY <2>1, <2>3, <2>4, <2>5 DEF Lifetimes, Fresh
<1>6. QED
  BY <1>2, <1>3, <1>4, <1>5 DEF IInv

\* So does time that passes in a read: it is the child's next tick.
LEMMA TickKeeps ==
    ASSUME IInv, NEW p \in Procs, NEW c \in Conns, Tick(p, c)
    PROVE  IInv'
<1> USE TcpAssumption
<1>1. Shape /\ NoDescriptorLeak /\ Kind = "multistep" /\ Lifetimes
  BY DEF IInv, Tick
<1>2. /\ DOMAIN frame' = Procs /\ DOMAIN frame'[p] = Fields /\ Others(p)
      /\ frame'[p].pc = "read" /\ frame[p].pc = "read" /\ frame[p].conn = c
      /\ frame'[p].conn = c /\ frame'[p].steps = frame[p].steps
      /\ frame'[p].waited = frame[p].waited + 1
  BY <1>1 DEF Tick, Reading, At, Shape, IsFrame, Others, Fields
<1>3. /\ frame[p].waited < ReadTimeout /\ UNCHANGED <<declared, phase, holders>>
      /\ waits' = [waits EXCEPT ![c] = @ + 1]
  BY DEF Tick, client
<1>4. frame[p].steps \in Nat /\ frame[p].waited \in Nat /\ waits[c] \in Nat
  BY <1>1 DEF Shape, IsFrame
<1>5. Shape'
  <2>1. Kind' = Kind
    BY <1>3 DEF Kind
  <2>2. QED
    <3>1. waits' \in [Conns -> Nat]
      BY <1>1, <1>3, <1>4 DEF Shape, IsFrame
    <3>2. /\ frame'[p].pc \in Positions /\ frame'[p].steps \in Nat
          /\ frame'[p].waited \in Nat
      BY <1>2, <1>4 DEF Positions
    <3>3. QED
      BY <1>1, <1>2, <1>3, <2>1, <3>1, <3>2 DEF Shape, IsFrame, Others
<1>6. NoDescriptorLeak'
  <2>1. SUFFICES ASSUME NEW d \in Conns, NEW q \in holders'[d]
                 PROVE  frame'[q].conn = d /\ frame'[q].pc \notin Away
    BY DEF NoDescriptorLeak, Away
  <2>2. q \in holders[d] /\ q \in Procs
    BY <1>1, <1>3, <2>1 DEF Shape, IsFrame
  <2>3. frame[q].conn = d /\ frame[q].pc \notin Away
    BY <1>1, <2>2 DEF NoDescriptorLeak, Away
  <2>4. QED
    BY <1>2, <2>2, <2>3 DEF Others, Away
<1>7. p # Listener /\ p \in Kids /\ Busy(p) /\ Child(p)
  BY <1>1, <1>2 DEF Lifetimes, Busy, Away, Procs
<1>8. waits'[c] <= Allowance(p)' /\ frame'[p].waited <= ReadTimeout /\ frame'[p].steps > 0
  <2>1. /\ waits[c] <= (frame[p].steps - 1) * ReadTimeout + frame[p].waited
        /\ frame[p].steps - 1 \in Nat
    BY <1>2, <1>4, <1>7 DEF Child, Allowance
  <2>2. (frame[p].steps - 1) * ReadTimeout \in Nat
    BY <2>1, Products
  <2>3. Allowance(p)' = (frame[p].steps - 1) * ReadTimeout + (frame[p].waited + 1)
    BY <1>2 DEF Allowance
  <2>4. waits'[c] = waits[c] + 1
    BY <1>1, <1>3 DEF Shape, IsFrame
  <2>5. QED
    <3>1. waits'[c] <= Allowance(p)'
      <4> HIDE TcpAssumption
      <4>1. \A x, y \in Nat : x <= y => x + 1 <= y + 1
        OBVIOUS
      <4>2. (frame[p].steps - 1) * ReadTimeout + frame[p].waited \in Nat
        BY <1>4, <2>2
      <4>3. Allowance(p)' = ((frame[p].steps - 1) * ReadTimeout + frame[p].waited) + 1
        BY <1>4, <2>2, <2>3
      <4>4. QED
        BY <1>4, <2>1, <2>4, <4>1, <4>2, <4>3
    <3>2. frame'[p].waited <= ReadTimeout
      BY <1>2, <1>3, <1>4
    <3>3. frame'[p].steps > 0
      BY <1>2, <1>7 DEF Child
    <3>4. QED
      BY <3>1, <3>2, <3>3
<1>9. Lifetimes'
  <2>1. waits'[c] <= MaxSteps * ReadTimeout
    <3>1. /\ frame[p].steps - 1 \in Nat /\ frame[p].steps = (frame[p].steps - 1) + 1
          /\ frame[p].steps <= MaxSteps /\ frame[p].waited + 1 <= ReadTimeout
          /\ frame[p].waited + 1 \in Nat
      BY <1>2, <1>3, <1>4, <1>7 DEF Child
    <3>2. /\ frame[p].steps * ReadTimeout = (frame[p].steps - 1) * ReadTimeout + ReadTimeout
          /\ (frame[p].steps - 1) * ReadTimeout \in Nat
          /\ frame[p].steps * ReadTimeout \in Nat
          /\ frame[p].steps * ReadTimeout <= MaxSteps * ReadTimeout
      BY <1>4, <3>1, Products
    <3>3. waits'[c] \in Nat /\ waits'[c] <= (frame[p].steps - 1) * ReadTimeout + (frame[p].waited + 1)
      BY <1>2, <1>5, <1>8 DEF Shape, IsFrame, Allowance
    <3>4. waits'[c] <= frame[p].steps * ReadTimeout
      BY <3>1, <3>2, <3>3, Slack
    <3>5. MaxSteps * ReadTimeout \in Nat
      BY Products
    <3>6. QED
      BY <3>2, <3>3, <3>4, <3>5
  <2>2. Child(p)'
    BY <1>2, <1>3, <1>7, <1>8 DEF Child, InStep
  <2>3. \A q \in Kids : q # p /\ Busy(q)' =>
           frame'[q] = frame[q] /\ Child(q) /\ frame[q].conn # c
    BY <1>1, <1>2, <1>7 DEF Lifetimes, Others, Procs, Busy
  <2>4. \A q \in Kids : Busy(q)' => Child(q)'
    BY <1>1, <1>3, <2>2, <2>3 DEF Child, Allowance, Shape, IsFrame
  <2>5. frame'[Listener] = frame[Listener] /\ phase[c] = "accepted"
    BY <1>2, <1>7 DEF Others, Procs, Child
  <2>6. frame[Listener].pc = "fork" => frame[Listener].conn # c
    BY <1>1, <1>2, <1>7 DEF Lifetimes, Fresh
  <2>7. \A d \in Conns : d # c => waits'[d] = waits[d]
    BY <1>1, <1>3 DEF Shape, IsFrame
  <2>8. \A q \in Kids : Busy(q)' => Busy(q) /\ frame'[q].conn = frame[q].conn
    BY <1>2, <1>7, <2>3 DEF Busy
  <2>9. QED
    BY <1>1, <1>3, <2>1, <2>4, <2>5, <2>6, <2>7, <2>8 DEF Lifetimes, Fresh, Shape, IsFrame
<1>10. QED
  BY <1>5, <1>6, <1>9 DEF IInv

-----------------------------------------------------------------------------
(* The listener. *)

\* It takes a client from the backlog, or fails to and has an errno instead.
LEMMA AcceptKeeps ==
    ASSUME IInv, (\E c \in Conns : Accept(c)) \/ AcceptFails
    PROVE  IInv'
<1> USE TcpAssumption
<1>1. Shape /\ NoDescriptorLeak /\ (Kind = "multistep" => Lifetimes) /\ Listener \in Procs
  BY DEF IInv, Procs
<1>2. Entry \in {"fork", "read"} /\ (Kind = "multistep" => Entry = "fork")
  BY DEF Entry
<1>3. PICK d \in Conns \cup {NoConn} :
         frame' = [frame EXCEPT ![Listener].pc = Entry, ![Listener].conn = d]
         /\ IF d = NoConn THEN UNCHANGED <<phase, holders>>
            ELSE /\ phase[d] = "queued" /\ phase' = [phase EXCEPT ![d] = "accepted"]
                 /\ holders' = [holders EXCEPT ![d] = {Listener}]
  BY DEF Accept, AcceptFails, client
<1>4. frame[Listener].pc = "accept" /\ UNCHANGED <<declared, waits>>
  BY DEF Accept, AcceptFails, At, history
<1>5. /\ DOMAIN frame' = Procs /\ DOMAIN frame'[Listener] = Fields /\ Others(Listener)
      /\ frame'[Listener].pc = Entry /\ frame'[Listener].conn = d
      /\ frame'[Listener].steps = frame[Listener].steps
      /\ frame'[Listener].waited = frame[Listener].waited
  BY <1>1, <1>3 DEF Shape, IsFrame, Others, Fields
<1>6. Kind' = Kind
  BY <1>4 DEF Kind
<1>7. Shape'
  <2>1. /\ holders' \in [Conns -> SUBSET Procs]
        /\ phase' \in [Conns -> {"new", "queued", "accepted"}]
    <3>1. holders \in [Conns -> SUBSET Procs]
          /\ phase \in [Conns -> {"new", "queued", "accepted"}]
      BY <1>1 DEF Shape
    <3>2. CASE d = NoConn
      BY <1>3, <3>1, <3>2
    <3>3. CASE d # NoConn
      <4>1. /\ phase' = [phase EXCEPT ![d] = "accepted"]
            /\ holders' = [holders EXCEPT ![d] = {Listener}]
        BY <1>3, <3>3
      <4>2. {Listener} \in SUBSET Procs
        BY <1>1
      <4>3. QED
        BY <3>1, <4>1, <4>2
    <3>4. QED
      BY <3>2, <3>3
  <2>2. QED
    <3>1. IsFrame(frame'[Listener])
      BY <1>1, <1>2, <1>5 DEF Shape, IsFrame, Positions
    <3>2. \A q \in Procs : q # Listener => IsFrame(frame'[q])
      BY <1>1, <1>5 DEF Shape, Others
    <3>3. QED
      BY <1>1, <1>4, <1>5, <1>6, <2>1, <3>1, <3>2 DEF Shape
<1>8. NoDescriptorLeak'
  <2>1. SUFFICES ASSUME NEW c \in Conns, NEW q \in holders'[c]
                 PROVE  frame'[q].conn = c /\ frame'[q].pc \notin Away
    BY DEF NoDescriptorLeak, Away
  <2>2. CASE c = d
    <3>1. q = Listener
      BY <1>1, <1>3, <2>1, <2>2 DEF Shape, IsFrame
    <3>2. QED
      BY <1>2, <1>5, <2>2, <3>1 DEF Away
  <2>3. CASE c # d
    <3>1. q \in holders[c] /\ q \in Procs
      BY <1>1, <1>3, <2>1, <2>3 DEF Shape, IsFrame
    <3>2. frame[q].conn = c /\ frame[q].pc \notin Away
      BY <1>1, <3>1 DEF NoDescriptorLeak, Away
    <3>3. q # Listener
      BY <1>4, <3>2 DEF Away
    <3>4. QED
      BY <1>5, <3>1, <3>2, <3>3 DEF Others
  <2>4. QED
    BY <2>2, <2>3
<1>9. ASSUME Kind = "multistep" PROVE Lifetimes'
  <2>1. Lifetimes /\ frame'[Listener].pc = "fork"
    BY <1>1, <1>2, <1>5, <1>9
  <2>2. \A q \in Kids : frame'[q] = frame[q] /\ (Busy(q)' <=> Busy(q))
    BY <1>5 DEF Others, Procs, Busy
  <2>3. \A c \in Conns : phase[c] = "accepted" => phase'[c] = "accepted" /\ c # d
    BY <1>1, <1>3 DEF Shape, IsFrame
  <2>4. \A q \in Kids : Busy(q)' => Child(q)' /\ frame[q].conn # d
    BY <1>4, <2>1, <2>2, <2>3 DEF Lifetimes, Child, Allowance
  <2>5. \A c \in Conns : phase'[c] # "accepted" => waits'[c] = 0
    BY <1>1, <1>3, <1>4, <2>1 DEF Shape, IsFrame, Lifetimes
  <2>6. d # NoConn => phase'[d] = "accepted" /\ waits'[d] = 0
    BY <1>1, <1>3, <1>4, <2>1 DEF Shape, IsFrame, Lifetimes
  <2>7. d # NoConn => Fresh(d)'
    BY <2>2, <2>4, <2>6 DEF Fresh
  <2>8. QED
    BY <1>4, <1>5, <2>1, <2>2, <2>4, <2>5, <2>6, <2>7 DEF Lifetimes
<1>10. QED
  BY <1>6, <1>7, <1>8, <1>9 DEF IInv

\* fork copies the frame into a child, which has the connection to itself once
\* the listener has closed its own descriptor.
LEMMA ForkKeeps ==
    ASSUME IInv, NEW p \in Kids, Fork(p)
    PROVE  IInv'
<1> USE TcpAssumption
<1> DEFINE d == frame[Listener].conn
<1>1. /\ Shape /\ NoDescriptorLeak /\ (Kind = "multistep" => Lifetimes)
      /\ Listener \in Procs /\ p \in Procs /\ p # Listener
  BY DEF IInv, Procs
<1>2. /\ frame[Listener].pc = "fork" /\ frame[p].pc = "free" /\ d \in Conns
      /\ UNCHANGED <<declared, phase, waits>>
      /\ holders' = [holders EXCEPT ![d] = @ \cup {p}]
  BY <1>1 DEF Fork, At, Shape, IsFrame, client, history
<1>3. /\ DOMAIN frame' = Procs
      /\ \A q \in Procs : q # p /\ q # Listener => frame'[q] = frame[q]
      /\ frame'[p] = [frame[Listener] EXCEPT !.pc = "step", !.steps = 0]
      /\ frame'[Listener] = [frame[Listener] EXCEPT !.pc = "drop"]
  BY <1>1 DEF Fork, Shape, IsFrame
<1>4. /\ DOMAIN frame'[p] = Fields /\ frame'[p].pc = "step" /\ frame'[p].steps = 0
      /\ frame'[p].conn = d /\ frame'[p].waited = frame[Listener].waited
      /\ DOMAIN frame'[Listener] = Fields /\ frame'[Listener].pc = "drop"
      /\ frame'[Listener].conn = d /\ frame'[Listener].steps = frame[Listener].steps
      /\ frame'[Listener].waited = frame[Listener].waited
  BY <1>1, <1>3 DEF Shape, IsFrame, Fields
<1>5. Kind' = Kind
  BY <1>2 DEF Kind
<1>6. Shape'
  <2>1. holders' \in [Conns -> SUBSET Procs]
    BY <1>1, <1>2 DEF Shape, IsFrame
  <2>2. QED
    <3>1. IsFrame(frame'[Listener]) /\ IsFrame(frame'[p])
      BY <1>1, <1>2, <1>4 DEF Shape, IsFrame, Positions
    <3>2. \A q \in Procs : IsFrame(frame'[q])
      BY <1>1, <1>3, <3>1 DEF Shape
    <3>3. QED
      BY <1>1, <1>2, <1>3, <1>5, <2>1, <3>2 DEF Shape
<1>7. NoDescriptorLeak'
  <2>1. SUFFICES ASSUME NEW c \in Conns, NEW q \in holders'[c]
                 PROVE  frame'[q].conn = c /\ frame'[q].pc \notin Away
    BY DEF NoDescriptorLeak, Away
  <2>2. CASE q = p
    <3>1. p \notin holders[c]
      BY <1>1, <1>2 DEF NoDescriptorLeak
    <3>2. c = d
      BY <1>1, <1>2, <2>1, <2>2, <3>1 DEF Shape, IsFrame
    <3>3. QED
      BY <1>4, <2>2, <3>2 DEF Away
  <2>3. CASE q # p
    <3>1. q \in holders[c] /\ q \in Procs
      BY <1>1, <1>2, <2>1, <2>3 DEF Shape, IsFrame
    <3>2. frame[q].conn = c /\ frame[q].pc \notin Away
      BY <1>1, <3>1 DEF NoDescriptorLeak, Away
    <3>3. QED
      BY <1>3, <1>4, <2>3, <3>1, <3>2 DEF Away
  <2>4. QED
    BY <2>2, <2>3
<1>8. ASSUME Kind = "multistep" PROVE Lifetimes'
  <2>1. Lifetimes /\ Fresh(d) /\ phase[d] = "accepted"
    BY <1>1, <1>2, <1>8 DEF Lifetimes
  <2>2. \A q \in Kids : q # p => frame'[q] = frame[q] /\ (Busy(q)' <=> Busy(q))
    BY <1>3 DEF Procs, Busy
  <2>3. frame'[p].waited <= ReadTimeout
    BY <1>4, <2>1 DEF Lifetimes
  <2>4. Child(p)'
    BY <1>2, <1>4, <2>1, <2>3 DEF Child, Allowance, InStep, Fresh
  <2>5. \A q \in Kids : q # p /\ Busy(q)' => Child(q)' /\ frame'[q].conn # d
    BY <1>2, <2>1, <2>2 DEF Lifetimes, Child, Allowance, Fresh
  <2>6. QED
    BY <1>2, <1>4, <2>1, <2>2, <2>4, <2>5 DEF Lifetimes
<1>9. QED
  BY <1>5, <1>6, <1>7, <1>8 DEF IInv

\* A fork that fails, an errno instead of a client, and the listener's close: the
\* connection is not forked for again.
LEMMA DropKeeps ==
    ASSUME IInv, ForkErrno \/ ForkFails \/ ParentClose
    PROVE  IInv'
<1> USE TcpAssumption
<1>1. /\ Shape /\ NoDescriptorLeak /\ (Kind = "multistep" => Lifetimes)
      /\ Listener \in Procs /\ \A q \in Kids : q \in Procs /\ q # Listener
  BY DEF IInv, Procs
<1>2. UNCHANGED <<declared, phase, waits>>
  BY DEF ForkErrno, ForkFails, ParentClose, client, history
<1>3. \/ /\ frame[Listener].pc = "fork" /\ holders' = holders /\ Go(Listener, "drop")
      \/ /\ frame[Listener].pc = "drop" /\ CloseSlot(Listener) /\ Go(Listener, "accept")
  BY DEF ForkErrno, ForkFails, ParentClose, At
<1>4. /\ DOMAIN frame' = Procs /\ DOMAIN frame'[Listener] = Fields /\ Others(Listener)
      /\ Stays(Listener)
      /\ \/ frame'[Listener].pc = "drop" /\ holders' = holders
         \/ /\ frame'[Listener].pc = "accept" /\ holders' \in [Conns -> SUBSET Procs]
            /\ \A c \in Conns : holders'[c] = holders[c] \ {Listener}
  BY <1>1, <1>3, GoMoves, SlotCloses DEF Positions
<1>5. Kind' = Kind
  BY <1>2 DEF Kind
<1>6. Shape'
  <2>1. IsFrame(frame'[Listener])
    BY <1>1, <1>4 DEF Shape, IsFrame, Stays, Positions
  <2>2. \A q \in Procs : q # Listener => IsFrame(frame'[q])
    BY <1>1, <1>4 DEF Shape, Others
  <2>3. QED
    BY <1>1, <1>2, <1>4, <1>5, <2>1, <2>2 DEF Shape
<1>7. NoDescriptorLeak'
  <2>1. SUFFICES ASSUME NEW c \in Conns, NEW q \in holders'[c]
                 PROVE  frame'[q].conn = c /\ frame'[q].pc \notin Away
    BY DEF NoDescriptorLeak, Away
  <2>2. q \in holders[c] /\ q \in Procs
    BY <1>1, <1>4, <2>1 DEF Shape
  <2>3. frame[q].conn = c /\ frame[q].pc \notin Away
    BY <1>1, <2>2 DEF NoDescriptorLeak, Away
  <2>4. QED
    BY <1>4, <2>1, <2>2, <2>3 DEF Others, Stays, Away
<1>8. ASSUME Kind = "multistep" PROVE Lifetimes'
  <2>1. Lifetimes /\ \A q \in Kids : frame'[q] = frame[q]
    BY <1>1, <1>4, <1>8 DEF Others
  <2>2. \A q \in Kids : (Busy(q)' <=> Busy(q)) /\ (Child(q) => Child(q)')
    BY <1>2, <2>1 DEF Busy, Child, Allowance
  <2>3. frame'[Listener].pc \in {"accept", "drop"} /\ frame'[Listener].waited = 0
    BY <1>4, <2>1 DEF Stays, Lifetimes
  <2>4. QED
    BY <1>2, <2>1, <2>2, <2>3 DEF Lifetimes
<1>9. QED
  BY <1>5, <1>6, <1>7, <1>8 DEF IInv

\* Clients only put connections into the backlog.
LEMMA ClientKeeps ==
    ASSUME IInv, NEW c \in Conns, ClientStep(c)
    PROVE  IInv'
<1>1. /\ UNCHANGED <<declared, frame, holders, waits>>
      /\ phase' = phase \/ (phase[c] = "new" /\ phase' = [phase EXCEPT ![c] = "queued"])
  BY DEF ClientStep, Connect, Finish, StopReading, Reset, Turn, Send, history
<1>2. Shape'
  BY <1>1 DEF IInv, Shape, IsFrame, Kind
<1>3. NoDescriptorLeak'
  BY <1>1 DEF IInv, NoDescriptorLeak
<1>4. ASSUME Kind = "multistep" PROVE Lifetimes'
  <2>1. \A d \in Conns : (phase[d] = "accepted" => phase'[d] = "accepted")
                         /\ (phase'[d] # "accepted" => phase[d] # "accepted")
    BY <1>1 DEF IInv, Shape
  <2>2. \A q \in Kids : (Busy(q)' <=> Busy(q)) /\ (Child(q) => Child(q)')
    BY <1>1, <2>1 DEF Busy, Child, Allowance
  <2>3. frame[Listener].conn \in Conns \cup {NoConn}
    BY DEF IInv, Shape, IsFrame, Procs
  <2>4. QED
    BY <1>1, <1>4, <2>1, <2>2, <2>3 DEF IInv, Lifetimes, Fresh
<1>5. QED
  BY <1>1, <1>2, <1>3, <1>4 DEF IInv, Kind

-----------------------------------------------------------------------------
\* Whatever happens next, descriptors and waits stay accounted for.
LEMMA StepHolds == IInv /\ [Next]_vars => IInv'
<1> SUFFICES ASSUME IInv, [Next]_vars PROVE IInv'
  OBVIOUS
<1>1. CASE UNCHANGED vars
  BY <1>1 DEF vars, client, history, IInv, Shape, IsFrame, NoDescriptorLeak, Kind, Lifetimes,
              Child, Allowance, Busy, Fresh
<1>2. CASE Next
  BY <1>2, AcceptKeeps, ForkKeeps, DropKeeps, ServeKeeps, TickKeeps, ClientKeeps
  DEF Next, Dispatch
<1>3. QED
  BY <1>1, <1>2

\* The account of descriptors and waits is never wrong.
THEOREM Invariant == Spec => []IInv
BY InitHolds, StepHolds, PTL DEF Spec

\* Only the process that serves a connection at that moment holds a descriptor of
\* it, whichever of accept, fork, read, write and the checks failed.
THEOREM DescriptorsClosed == Spec => []NoDescriptorLeak
<1>1. IInv => NoDescriptorLeak
  BY DEF IInv
<1>2. QED
  BY <1>1, Invariant, PTL

\* max_steps * read_timeout bounds the time a connection is waited for in reads.
THEOREM LifetimeBounded == Spec => []ReadLifetimeBounded
<1>1. IInv => ReadLifetimeBounded
  <2> SUFFICES ASSUME IInv, declared.read_timeout
               PROVE  \A c \in Conns : waits[c] <= MaxSteps * ReadTimeout
    BY DEF ReadLifetimeBounded
  <2>1. Kind = "multistep"
    <3>1. /\ declared.read_timeout = TRUE /\ declared.max_steps \in BOOLEAN
          /\ Emitter(declared) # "refused"
      BY DEF IInv, Shape, Kind, Declarations
    <3>2. ~(declared.identity /\ OneShotStateless(declared))
      BY <3>1 DEF OneShotStateless
    <3>3. declared.max_steps = TRUE
      <4> SUFFICES ASSUME declared.max_steps = FALSE PROVE FALSE
        BY <3>1
      <4>1. /\ (declared.max_steps # declared.read_timeout) = TRUE
            /\ IsMultistep(declared) = FALSE
        BY <3>1 DEF IsMultistep
      <4>2. Emitter(declared) = "refused"
        BY <3>2, <4>1 DEF Emitter
      <4>3. QED
        BY <3>1, <4>2
    <3>4. IsMultistep(declared)
      BY <3>1, <3>3 DEF IsMultistep
    <3>5. ~(declared.state /\ ~declared.max_steps)
          /\ ~(declared.max_steps # declared.read_timeout)
      BY <3>1, <3>3
    <3>6. QED
      BY <3>1, <3>2, <3>4, <3>5 DEF Emitter, Kind
  <2>2. QED
    BY <2>1 DEF IInv, Lifetimes
<1>2. QED
  BY <1>1, Invariant, PTL

-----------------------------------------------------------------------------
(* Induction, and sequences whose elements are of no particular set. *)

\* What holds of 0 and of every successor holds of every number.
LEMMA Induction ==
    ASSUME NEW B, 0 \in B, \A m \in Nat : m \in B => m + 1 \in B
    PROVE  \A m \in Nat : m \in B
<1> SUFFICES ASSUME NEW n \in Nat, n \notin B PROVE FALSE
  OBVIOUS
<1> DEFINE S == Nat \ B
<1>1. S \in SUBSET Nat /\ S # {}
  OBVIOUS
<1> HIDE DEF S
<1>2. PICK m \in S : \A k \in S : <<k, m>> \notin OpToRel(<, Nat)
  BY <1>1, WFMin, NatLessThanWellFounded
<1>3. m \in Nat /\ m \notin B /\ m # 0
  BY DEF S
<1>4. m - 1 \in Nat /\ m - 1 < m /\ (m - 1) + 1 = m
  BY <1>3
<1>5. m - 1 \in S
  BY <1>3, <1>4 DEF S
<1>6. QED
  BY <1>2, <1>3, <1>4, <1>5 DEF OpToRel

Listed(s) == \E T : s \in Seq(T)

\* A function on 1..n is a sequence.
LEMMA ListedBy ==
    ASSUME NEW s, NEW n \in Nat, s = [i \in 1..n |-> s[i]]
    PROVE  Listed(s) /\ Len(s) = n
<1> DEFINE T == {s[i] : i \in 1..n}
<1>1. s \in [1..n -> T]
  OBVIOUS
<1> HIDE DEF T
<1>2. s \in Seq(T)
  BY <1>1
<1>3. Len(s) = n
  BY <1>1, <1>2
<1>4. QED
  BY <1>2, <1>3 DEF Listed

LEMMA ListedShape ==
    ASSUME NEW s, Listed(s)
    PROVE  Len(s) \in Nat /\ DOMAIN s = 1..Len(s) /\ s = [i \in 1..Len(s) |-> s[i]]
BY DEF Listed

\* Two sequences of any elements have a set of elements in common.
LEMMA Common ==
    ASSUME NEW s, NEW t, Listed(s), Listed(t)
    PROVE  \E T : s \in Seq(T) /\ t \in Seq(T)
<1>1. PICK A, B : s \in Seq(A) /\ t \in Seq(B)
  BY DEF Listed
<1>2. PICK T : T = A \cup B
  OBVIOUS
<1>3. \A i \in 1..Len(s) : s[i] \in T
  BY <1>1, <1>2
<1>4. \A i \in 1..Len(t) : t[i] \in T
  BY <1>1, <1>2
<1>5. s \in [1..Len(s) -> T] /\ t \in [1..Len(t) -> T] /\ Len(s) \in Nat /\ Len(t) \in Nat
  BY <1>1, <1>3, <1>4
<1>6. s \in Seq(T) /\ t \in Seq(T)
  BY <1>5
<1>7. QED
  BY <1>6

LEMMA AppendListed ==
    ASSUME NEW s, NEW x, Listed(s)
    PROVE  /\ Listed(Append(s, x)) /\ Len(Append(s, x)) = Len(s) + 1
           /\ \A i \in 1..Len(s) : Append(s, x)[i] = s[i]
           /\ Append(s, x)[Len(s) + 1] = x
           /\ DOMAIN Append(s, x) = 1..(Len(s) + 1)
<1>1. Listed(<<x>>)
  <2>1. <<x>> \in Seq({x})
    OBVIOUS
  <2>2. QED
    BY <2>1 DEF Listed
<1>2. PICK T : s \in Seq(T) /\ <<x>> \in Seq(T)
  BY <1>1, Common
<1>3. x \in T
  BY <1>2
<1>4. Append(s, x) \in Seq(T)
  BY <1>2, <1>3
<1>5. QED
  BY <1>2, <1>3, <1>4 DEF Listed

LEMMA ConcatListed ==
    ASSUME NEW s, NEW t, Listed(s), Listed(t)
    PROVE  /\ Listed(s \o t) /\ Len(s \o t) = Len(s) + Len(t)
           /\ \A i \in 1..Len(s) : (s \o t)[i] = s[i]
           /\ \A i \in 1..Len(t) : (s \o t)[Len(s) + i] = t[i]
           /\ DOMAIN (s \o t) = 1..(Len(s) + Len(t))
<1>1. PICK T : s \in Seq(T) /\ t \in Seq(T)
  BY Common
<1>2. s \o t \in Seq(T) /\ Len(s \o t) = Len(s) + Len(t)
  BY <1>1
<1>3. \A i \in 1..(Len(s) + Len(t)) : (s \o t)[i] = IF i <= Len(s) THEN s[i] ELSE t[i - Len(s)]
  BY <1>1
<1>4. Len(s) \in Nat /\ Len(t) \in Nat
  BY <1>1
<1>5. \A i \in 1..Len(s) : (s \o t)[i] = s[i]
  BY <1>3, <1>4
<1>6. ASSUME NEW i \in 1..Len(t) PROVE (s \o t)[Len(s) + i] = t[i]
  <2>1. PICK k \in 1..(Len(s) + Len(t)) : k = Len(s) + i /\ ~(k <= Len(s)) /\ k - Len(s) = i
    BY <1>4
  <2>2. QED
    BY <1>3, <2>1
<1>7. DOMAIN (s \o t) = 1..(Len(s) + Len(t))
  BY <1>2, <1>4
<1>8. QED
  BY <1>2, <1>5, <1>6, <1>7 DEF Listed

\* Sequences are equal when their elements are.
LEMMA SameElements ==
    ASSUME NEW s, NEW t, Listed(s), Listed(t), Len(s) = Len(t), \A i \in 1..Len(s) : s[i] = t[i]
    PROVE  s = t
BY ListedShape

\* Begins(s, t): s is a beginning of t.
Begins(s, t) == Len(s) <= Len(t) /\ \A i \in 1..Len(s) : s[i] = t[i]

LEMMA BeginsIsPrefix ==
    ASSUME NEW s, NEW t, Listed(s), Listed(t), Begins(s, t)
    PROVE  IsPrefix(s, t)
<1>1. PICK T : s \in Seq(T) /\ t \in Seq(T)
  BY Common
<1>2. PICK n \in Nat : n = Len(s) /\ n <= Len(t) /\ Len(t) \in Nat
  BY <1>1 DEF Begins
<1>3. /\ SubSeq(s, 1, n) = [i \in 1..n |-> s[i]]
      /\ SubSeq(t, 1, n) = [i \in 1..n |-> t[i]]
  BY <1>1, <1>2
<1>4. \A i \in 1..n : s[i] = t[i]
  BY <1>2 DEF Begins
<1>5. SubSeq(s, 1, n) = SubSeq(t, 1, n)
  BY <1>3, <1>4
<1>6. QED
  BY <1>2, <1>5 DEF IsPrefix

-----------------------------------------------------------------------------
(* Folds. *)

LEMMA MaxOf ==
    ASSUME NEW S, NEW m \in S, \A x \in S : m >= x, m \in Nat, S \in SUBSET Nat
    PROVE  Max(S) = m
<1>1. PICK k \in S : k = Max(S) /\ \A y \in S : k >= y
  BY DEF Max
<1>2. k >= m /\ m >= k /\ k \in Nat
  BY <1>1
<1>3. QED
  BY <1>1, <1>2

\* The greatest number of 1..k, and what is left without it.
LEMMA MaxOfRange ==
    ASSUME NEW k \in Nat \ {0}
    PROVE  Max(1..k) = k /\ (1..k) \ {k} = 1..(k - 1)
<1>1. k \in 1..k /\ \A x \in 1..k : k >= x
  OBVIOUS
<1>2. 1..k \in SUBSET Nat
  OBVIOUS
<1>3. Max(1..k) = k
  BY <1>1, <1>2, MaxOf
<1>4. (1..k) \ {k} = 1..(k - 1)
  OBVIOUS
<1>5. QED
  BY <1>3, <1>4

\* Every other set of numbers up to n + 1 has its greatest below, and a rest.
LEMMA MaxOfSubset ==
    ASSUME NEW n \in Nat, NEW S \in SUBSET (1..(n + 1)), S # {}
    PROVE  /\ Max(S) \in S /\ S \ {Max(S)} \in SUBSET (1..n)
           /\ n + 1 \in S => Max(S) = n + 1
           /\ n + 1 \notin S => S \in SUBSET (1..n)
<1> DEFINE B == {m \in Nat : \A T \in SUBSET (1..m) : T # {} => \E x \in T : \A y \in T : x >= y}
<1>1. 0 \in B
  <2>1. 1..0 = {}
    OBVIOUS
  <2>2. QED
    BY <2>1
<1>2. ASSUME NEW m \in Nat, m \in B PROVE m + 1 \in B
  <2>1. ASSUME NEW T \in SUBSET (1..(m + 1)), T # {} PROVE \E x \in T : \A y \in T : x >= y
    <3>1. CASE m + 1 \in T
      <4>1. \A y \in T : m + 1 >= y
        OBVIOUS
      <4>2. QED
        BY <3>1, <4>1
    <3>2. CASE m + 1 \notin T
      <4>1. T \in SUBSET (1..m)
        BY <3>2
      <4>2. QED
        BY <1>2, <2>1, <4>1
    <3>3. QED
      BY <3>1, <3>2
  <2>2. QED
    BY <2>1
<1> HIDE DEF B
<1>3. n + 1 \in B
  BY <1>1, <1>2, Induction
<1>4. PICK k \in S : \A y \in S : k >= y
  BY <1>3 DEF B
<1>5. Max(S) = k
  <2>1. k \in Nat /\ S \in SUBSET Nat
    BY <1>4
  <2>2. QED
    BY <1>4, <2>1, MaxOf
<1>6. S \ {k} \in SUBSET (1..n)
  BY <1>4
<1>7. n + 1 \in S => k = n + 1
  BY <1>4
<1>8. n + 1 \notin S => S \in SUBSET (1..n)
  OBVIOUS
<1>9. QED
  BY <1>5, <1>6, <1>7, <1>8

Nothing == [pieces |-> <<>>, whole |-> TRUE, state |-> Initial]

\* The function that FoldLeft computes a conversation with.
Answers(p, s, n, f) ==
    f = [S \in SUBSET (1..n) |-> IF S = {} THEN Nothing ELSE Answer(p, f[S \ {Max(S)}], s[Max(S)])]

LEMMA AnswersExist ==
    ASSUME NEW p, NEW s
    PROVE  \A n \in Nat : \E f : Answers(p, s, n, f)
<1> DEFINE B == {n \in Nat : \E f : Answers(p, s, n, f)}
<1>1. 0 \in B
  <2>1. SUBSET (1..0) = {{}}
    OBVIOUS
  <2>2. Answers(p, s, 0, [S \in SUBSET (1..0) |-> Nothing])
    BY <2>1 DEF Answers
  <2>3. QED
    BY <2>2
<1>2. ASSUME NEW n \in Nat, n \in B PROVE n + 1 \in B
  <2>1. PICK f : Answers(p, s, n, f)
    BY <1>2
  <2> DEFINE g == [S \in SUBSET (1..(n + 1)) |->
                     IF n + 1 \in S THEN Answer(p, f[S \ {n + 1}], s[n + 1]) ELSE f[S]]
  <2>2. \A S \in SUBSET (1..n) : g[S] = f[S] /\ S \in SUBSET (1..(n + 1))
    OBVIOUS
  <2>3. ASSUME NEW S \in SUBSET (1..(n + 1))
        PROVE  g[S] = IF S = {} THEN Nothing ELSE Answer(p, g[S \ {Max(S)}], s[Max(S)])
    <3>1. CASE S = {}
      <4>1. g[{}] = f[{}] /\ f[{}] = Nothing
        BY <2>1, <2>2 DEF Answers
      <4>2. QED
        BY <3>1, <4>1
    <3>2. CASE S # {} /\ n + 1 \in S
      <4>1. Max(S) = n + 1 /\ S \ {n + 1} \in SUBSET (1..n)
        BY <3>2, MaxOfSubset
      <4>2. g[S] = Answer(p, f[S \ {n + 1}], s[n + 1])
        BY <3>2
      <4>3. g[S \ {n + 1}] = f[S \ {n + 1}]
        BY <2>2, <4>1
      <4> HIDE DEF g
      <4>4. QED
        BY <3>2, <4>1, <4>2, <4>3
    <3>3. CASE S # {} /\ n + 1 \notin S
      <4>1. S \in SUBSET (1..n) /\ S \ {Max(S)} \in SUBSET (1..n)
        BY <3>3, MaxOfSubset
      <4>2. g[S] = f[S] /\ g[S \ {Max(S)}] = f[S \ {Max(S)}]
        BY <2>2, <4>1
      <4>3. f[S] = Answer(p, f[S \ {Max(S)}], s[Max(S)])
        BY <2>1, <3>3, <4>1 DEF Answers
      <4> HIDE DEF g
      <4>4. QED
        BY <3>3, <4>2, <4>3
    <3>4. QED
      BY <3>1, <3>2, <3>3
  <2>4. g = [S \in SUBSET (1..(n + 1)) |-> g[S]]
    OBVIOUS
  <2> HIDE DEF g
  <2>5. Answers(p, s, n + 1, g)
    BY <2>3, <2>4 DEF Answers
  <2>6. QED
    BY <2>5
<1>3. QED
  <2> HIDE DEF B
  <2>1. \A n \in Nat : n \in B
    BY <1>1, <1>2, Induction
  <2>2. QED
    BY <2>1 DEF B

\* A conversation is a chain of answers.
LEMMA ConversationIs ==
    ASSUME NEW p, NEW s, Listed(s)
    PROVE  \E f : Answers(p, s, Len(s), f) /\ Conversation(p, s) = f[1..Len(s)]
<1>1. Len(s) \in Nat /\ DOMAIN s = 1..Len(s)
  BY ListedShape
<1>2. \E f : Answers(p, s, Len(s), f)
  BY <1>1, AnswersExist
<1>3. \E f : /\ f = [S \in SUBSET (DOMAIN s) |-> IF S = {} THEN Nothing ELSE Answer(p, f[S \ {Max(S)}], s[Max(S)])]
             /\ Conversation(p, s) = f[DOMAIN s]
  <2>1. \E f : f = [S \in SUBSET (DOMAIN s) |-> IF S = {} THEN Nothing ELSE Answer(p, f[S \ {Max(S)}], s[Max(S)])]
    BY <1>1, <1>2 DEF Answers
  <2>2. QED
    BY <2>1 DEF Conversation, FoldLeft, MapThenFoldSet, Nothing
<1>4. QED
  BY <1>1, <1>3 DEF Answers

LEMMA ConversationStarts ==
    ASSUME NEW p
    PROVE  Conversation(p, << >>) = Nothing
<1>1. Listed(<< >>) /\ Len(<< >>) = 0
  <2>1. << >> \in Seq({})
    OBVIOUS
  <2>2. QED
    BY <2>1 DEF Listed
<1>2. PICK f : Answers(p, << >>, 0, f) /\ Conversation(p, << >>) = f[1..0]
  BY <1>1, ConversationIs
<1>3. 1..0 = {} /\ {} \in SUBSET (1..0)
  OBVIOUS
<1>4. QED
  BY <1>2, <1>3 DEF Answers

LEMMA ConversationGoesOn ==
    ASSUME NEW p, NEW s, Listed(s), NEW chunk
    PROVE  Conversation(p, Append(s, chunk)) = Answer(p, Conversation(p, s), chunk)
<1>1. PICK t : t = Append(s, chunk)
  OBVIOUS
<1>2. PICK n \in Nat : n = Len(s)
  BY ListedShape
<1>3. /\ Listed(t) /\ Len(t) = n + 1 /\ t[n + 1] = chunk
      /\ \A i \in 1..n : t[i] = s[i]
  BY <1>1, <1>2, AppendListed
<1>4. PICK f : Answers(p, s, n, f) /\ Conversation(p, s) = f[1..n]
  BY <1>2, ConversationIs
<1>5. PICK g : Answers(p, t, n + 1, g) /\ Conversation(p, t) = g[1..(n + 1)]
  BY <1>3, ConversationIs
<1> DEFINE B == {k \in Nat : k <= n => g[1..k] = f[1..k]}
<1>6. 0 \in B
  <2>1. 1..0 = {} /\ {} \in SUBSET (1..n) /\ {} \in SUBSET (1..(n + 1))
    OBVIOUS
  <2>2. QED
    BY <1>4, <1>5, <2>1 DEF Answers
<1>7. ASSUME NEW k \in Nat, k \in B PROVE k + 1 \in B
  <2> SUFFICES ASSUME k + 1 <= n PROVE g[1..(k + 1)] = f[1..(k + 1)]
    OBVIOUS
  <2>1. /\ 1..(k + 1) \in SUBSET (1..n) /\ 1..(k + 1) \in SUBSET (1..(n + 1)) /\ 1..(k + 1) # {}
        /\ k + 1 \in 1..n
    OBVIOUS
  <2>2. Max(1..(k + 1)) = k + 1 /\ (1..(k + 1)) \ {k + 1} = 1..k
    BY MaxOfRange
  <2>3. f[1..(k + 1)] = Answer(p, f[1..k], s[k + 1]) /\ g[1..(k + 1)] = Answer(p, g[1..k], t[k + 1])
    <3>1. PICK S : S = 1..(k + 1)
      OBVIOUS
    <3>2. f[S] = Answer(p, f[S \ {Max(S)}], s[Max(S)])
      BY <1>4, <2>1, <3>1 DEF Answers
    <3>3. g[S] = Answer(p, g[S \ {Max(S)}], t[Max(S)])
      BY <1>5, <2>1, <3>1 DEF Answers
    <3>4. QED
      BY <2>2, <3>1, <3>2, <3>3
  <2>4. g[1..k] = f[1..k] /\ t[k + 1] = s[k + 1]
    BY <1>3, <1>7, <2>1
  <2>5. QED
    BY <2>3, <2>4
<1> HIDE DEF B
<1>8. g[1..n] = f[1..n]
  <2>1. n \in B
    BY <1>6, <1>7, Induction
  <2>2. QED
    BY <2>1 DEF B
<1>9. g[1..(n + 1)] = Answer(p, g[1..n], t[n + 1])
  <2>1. 1..(n + 1) \in SUBSET (1..(n + 1)) /\ 1..(n + 1) # {} /\ (n + 1) - 1 = n /\ n + 1 \in Nat \ {0}
    OBVIOUS
  <2>2. Max(1..(n + 1)) = n + 1 /\ (1..(n + 1)) \ {n + 1} = 1..n
    BY <2>1, MaxOfRange
  <2>3. QED
    BY <1>5, <2>1, <2>2 DEF Answers
<1>10. QED
  BY <1>1, <1>3, <1>4, <1>5, <1>8, <1>9

-----------------------------------------------------------------------------
(* The after: block. *)

\* What one set does to the state, or to the block.
SetOne(run, set, chunk, lets) ==
    IF ~run.ok \/ Fails(set.expr, chunk, run.state) THEN [run EXCEPT !.ok = FALSE]
    ELSE [run EXCEPT !.state[set.field] = Value(set.expr, chunk, run.state, lets)]

\* The function that FoldLeft computes a block with.
Blocks(sets, chunk, state, lets, n, f) ==
    f = [S \in SUBSET (1..n) |-> IF S = {} THEN [ok |-> TRUE, state |-> state]
                                 ELSE SetOne(f[S \ {Max(S)}], sets[Max(S)], chunk, lets)]

LEMMA BlocksExist ==
    ASSUME NEW sets, NEW chunk, NEW state, NEW lets
    PROVE  \A n \in Nat : \E f : Blocks(sets, chunk, state, lets, n, f)
<1> DEFINE B == {n \in Nat : \E f : Blocks(sets, chunk, state, lets, n, f)}
           start == [ok |-> TRUE, state |-> state]
<1>1. 0 \in B
  <2>1. SUBSET (1..0) = {{}}
    OBVIOUS
  <2>2. Blocks(sets, chunk, state, lets, 0, [S \in SUBSET (1..0) |-> start])
    BY <2>1 DEF Blocks
  <2>3. QED
    BY <2>2
<1>2. ASSUME NEW n \in Nat, n \in B PROVE n + 1 \in B
  <2>1. PICK f : Blocks(sets, chunk, state, lets, n, f)
    BY <1>2
  <2> DEFINE g == [S \in SUBSET (1..(n + 1)) |->
                     IF n + 1 \in S THEN SetOne(f[S \ {n + 1}], sets[n + 1], chunk, lets) ELSE f[S]]
  <2>2. \A S \in SUBSET (1..n) : g[S] = f[S] /\ S \in SUBSET (1..(n + 1))
    OBVIOUS
  <2>3. ASSUME NEW S \in SUBSET (1..(n + 1))
        PROVE  g[S] = IF S = {} THEN start ELSE SetOne(g[S \ {Max(S)}], sets[Max(S)], chunk, lets)
    <3>1. CASE S = {}
      <4>1. g[{}] = f[{}] /\ f[{}] = start
        BY <2>1, <2>2 DEF Blocks
      <4>2. QED
        BY <3>1, <4>1
    <3>2. CASE S # {} /\ n + 1 \in S
      <4>1. Max(S) = n + 1 /\ S \ {n + 1} \in SUBSET (1..n)
        BY <3>2, MaxOfSubset
      <4>2. g[S] = SetOne(f[S \ {n + 1}], sets[n + 1], chunk, lets)
        BY <3>2
      <4>3. g[S \ {n + 1}] = f[S \ {n + 1}]
        BY <2>2, <4>1
      <4> HIDE DEF g
      <4>4. QED
        BY <3>2, <4>1, <4>2, <4>3
    <3>3. CASE S # {} /\ n + 1 \notin S
      <4>1. S \in SUBSET (1..n) /\ S \ {Max(S)} \in SUBSET (1..n)
        BY <3>3, MaxOfSubset
      <4>2. g[S] = f[S] /\ g[S \ {Max(S)}] = f[S \ {Max(S)}]
        BY <2>2, <4>1
      <4>3. f[S] = SetOne(f[S \ {Max(S)}], sets[Max(S)], chunk, lets)
        BY <2>1, <3>3, <4>1 DEF Blocks
      <4> HIDE DEF g
      <4>4. QED
        BY <3>3, <4>2, <4>3
    <3>4. QED
      BY <3>1, <3>2, <3>3
  <2>4. g = [S \in SUBSET (1..(n + 1)) |-> g[S]]
    OBVIOUS
  <2> HIDE DEF g
  <2>5. Blocks(sets, chunk, state, lets, n + 1, g)
    BY <2>3, <2>4 DEF Blocks
  <2>6. QED
    BY <2>5
<1>3. QED
  <2> HIDE DEF B
  <2>1. \A n \in Nat : n \in B
    BY <1>1, <1>2, Induction
  <2>2. QED
    BY <2>1 DEF B

\* A block is a chain of sets.
LEMMA RunSetsIs ==
    ASSUME NEW sets, NEW n \in Nat, DOMAIN sets = 1..n, NEW chunk, NEW state, NEW lets
    PROVE  \E r : /\ r[0] = [ok |-> TRUE, state |-> state]
                  /\ \A i \in 1..n : r[i] = SetOne(r[i - 1], sets[i], chunk, lets)
                  /\ RunSets(sets, chunk, state, lets) = r[n]
<1>1. \E f : f = [S \in SUBSET (DOMAIN sets) |-> IF S = {} THEN [ok |-> TRUE, state |-> state]
                                                 ELSE SetOne(f[S \ {Max(S)}], sets[Max(S)], chunk, lets)]
  <2>1. PICK f : Blocks(sets, chunk, state, lets, n, f)
    BY BlocksExist
  <2>2. f = [S \in SUBSET (DOMAIN sets) |-> IF S = {} THEN [ok |-> TRUE, state |-> state]
                                            ELSE SetOne(f[S \ {Max(S)}], sets[Max(S)], chunk, lets)]
    BY <2>1 DEF Blocks
  <2>3. QED
    BY <2>2
<1>2. \E f : /\ f = [S \in SUBSET (DOMAIN sets) |-> IF S = {} THEN [ok |-> TRUE, state |-> state]
                                                    ELSE SetOne(f[S \ {Max(S)}], sets[Max(S)], chunk, lets)]
             /\ RunSets(sets, chunk, state, lets) = f[DOMAIN sets]
  BY <1>1 DEF RunSets, FoldLeft, MapThenFoldSet, SetOne
<1>3. PICK f : Blocks(sets, chunk, state, lets, n, f) /\ RunSets(sets, chunk, state, lets) = f[1..n]
  BY <1>2 DEF Blocks
<1> DEFINE r == [i \in 0..n |-> f[1..i]]
<1>4. r[0] = [ok |-> TRUE, state |-> state]
  <2>1. 1..0 = {} /\ {} \in SUBSET (1..n)
    OBVIOUS
  <2>2. QED
    BY <1>3, <2>1 DEF Blocks
<1>5. ASSUME NEW i \in 1..n PROVE r[i] = SetOne(r[i - 1], sets[i], chunk, lets)
  <2>1. PICK S : S = 1..i
    OBVIOUS
  <2>2. S \in SUBSET (1..n) /\ S # {} /\ i \in Nat \ {0} /\ i - 1 \in 0..n /\ i \in 0..n
    BY <2>1
  <2>3. Max(S) = i /\ S \ {i} = 1..(i - 1)
    BY <2>1, <2>2, MaxOfRange
  <2>4. f[S] = SetOne(f[S \ {Max(S)}], sets[Max(S)], chunk, lets)
    BY <1>3, <2>2 DEF Blocks
  <2>5. r[i] = f[S] /\ r[i - 1] = f[1..(i - 1)]
    BY <2>1, <2>2
  <2> HIDE DEF r
  <2>6. QED
    BY <2>3, <2>4, <2>5
<1>6. r[n] = f[1..n]
  OBVIOUS
<1> HIDE DEF r
<1>7. QED
  BY <1>3, <1>4, <1>5, <1>6

-----------------------------------------------------------------------------
(* The same, as the source program has it. *)

IsProgram(p) ==
    /\ Len(p.lets) \in Nat /\ DOMAIN p.lets = 1..Len(p.lets)
    /\ Len(p.response) \in Nat \ {0} /\ DOMAIN p.response = 1..Len(p.response)
    /\ Len(p.sets) \in Nat /\ DOMAIN p.sets = 1..Len(p.sets)

LaterBy(p, chunk, state, n, f) ==
    f = [i \in 0..n |-> IF i = 0 THEN state
                        ELSE [f[i - 1] EXCEPT ![p.sets[i].field] =
                                Value(p.sets[i].expr, chunk, f[i - 1], Lets(p, chunk, state))]]

LEMMA LaterExists ==
    ASSUME NEW p, NEW chunk, NEW state
    PROVE  \A n \in Nat : \E f : LaterBy(p, chunk, state, n, f)
<1> DEFINE B == {n \in Nat : \E f : LaterBy(p, chunk, state, n, f)}
           step(s, i) == [s EXCEPT ![p.sets[i].field] =
                            Value(p.sets[i].expr, chunk, s, Lets(p, chunk, state))]
<1> HIDE DEF step
<1>0. ASSUME NEW n, NEW f
      PROVE  LaterBy(p, chunk, state, n, f) <=>
               f = [i \in 0..n |-> IF i = 0 THEN state ELSE step(f[i - 1], i)]
  BY DEF LaterBy, step
<1>1. 0 \in B
  <2> DEFINE f == [i \in 0..0 |-> state]
  <2>1. f = [i \in 0..0 |-> IF i = 0 THEN state ELSE step(f[i - 1], i)]
    OBVIOUS
  <2> HIDE DEF f
  <2>2. QED
    BY <1>0, <2>1
<1>2. ASSUME NEW n \in Nat, n \in B PROVE n + 1 \in B
  <2>1. PICK f : f = [i \in 0..n |-> IF i = 0 THEN state ELSE step(f[i - 1], i)]
    BY <1>0, <1>2
  <2> DEFINE g == [i \in 0..(n + 1) |-> IF i = n + 1 THEN step(f[n], n + 1) ELSE f[i]]
  <2>2. \A i \in 0..n : g[i] = f[i]
    OBVIOUS
  <2>3. ASSUME NEW i \in 0..(n + 1) PROVE g[i] = IF i = 0 THEN state ELSE step(g[i - 1], i)
    <3>1. CASE i = 0
      BY <2>1, <2>2, <3>1
    <3>2. CASE i = n + 1
      <4>1. i - 1 = n /\ i # 0 /\ n \in 0..n
        BY <3>2
      <4>2. g[i] = step(f[n], n + 1) /\ g[n] = f[n]
        BY <2>2, <3>2, <4>1
      <4> HIDE DEF g
      <4>3. QED
        BY <3>2, <4>1, <4>2
    <3>3. CASE i # 0 /\ i # n + 1
      <4>1. i \in 0..n /\ i - 1 \in 0..n
        BY <3>3
      <4>2. f[i] = step(f[i - 1], i)
        BY <2>1, <3>3, <4>1
      <4>3. g[i] = f[i] /\ g[i - 1] = f[i - 1]
        BY <2>2, <4>1
      <4> HIDE DEF g
      <4>4. QED
        BY <3>3, <4>2, <4>3
    <3>4. QED
      BY <3>1, <3>2, <3>3
  <2>4. g = [i \in 0..(n + 1) |-> g[i]]
    OBVIOUS
  <2> HIDE DEF g
  <2>5. g = [i \in 0..(n + 1) |-> IF i = 0 THEN state ELSE step(g[i - 1], i)]
    BY <2>3, <2>4
  <2>6. LaterBy(p, chunk, state, n + 1, g)
    BY <1>0, <2>5
  <2>7. QED
    BY <2>6
<1>3. QED
  <2> HIDE DEF B
  <2>1. \A n \in Nat : n \in B
    BY <1>1, <1>2, Induction
  <2>2. QED
    BY <2>1 DEF B

LEMMA LaterIs ==
    ASSUME NEW p, IsProgram(p), NEW chunk, NEW state
    PROVE  /\ Later(p, chunk, state)[0] = state
           /\ \A i \in 1..Len(p.sets) :
                 Later(p, chunk, state)[i] =
                    [Later(p, chunk, state)[i - 1] EXCEPT ![p.sets[i].field] =
                        Value(p.sets[i].expr, chunk, Later(p, chunk, state)[i - 1], Lets(p, chunk, state))]
<1>1. \E f : f = [i \in 0..Len(p.sets) |->
                    IF i = 0 THEN state
                    ELSE [f[i - 1] EXCEPT ![p.sets[i].field] =
                            Value(p.sets[i].expr, chunk, f[i - 1], Lets(p, chunk, state))]]
  <2>1. PICK f : LaterBy(p, chunk, state, Len(p.sets), f)
    BY LaterExists DEF IsProgram
  <2>2. QED
    BY <2>1 DEF LaterBy
<1>2. LaterBy(p, chunk, state, Len(p.sets), Later(p, chunk, state))
  BY <1>1 DEF LaterBy, Later
<1>3. PICK f : f = Later(p, chunk, state)
  OBVIOUS
<1>4. PICK n \in Nat : n = Len(p.sets)
  BY DEF IsProgram
<1>5. LaterBy(p, chunk, state, n, f)
  BY <1>2, <1>3, <1>4
<1>6. f[0] = state
  BY <1>5 DEF LaterBy
<1>7. ASSUME NEW i \in 1..n
      PROVE  f[i] = [f[i - 1] EXCEPT ![p.sets[i].field] =
                       Value(p.sets[i].expr, chunk, f[i - 1], Lets(p, chunk, state))]
  <2>1. i \in 0..n /\ i # 0
    OBVIOUS
  <2>2. QED
    BY <1>5, <2>1 DEF LaterBy
<1>8. QED
  BY <1>3, <1>4, <1>6, <1>7

\* The emitted block fails exactly when a set of the source fails, and otherwise
\* leaves the state the source leaves.
LEMMA BlockFollowsSource ==
    ASSUME NEW p, IsProgram(p), NEW chunk, NEW state
    PROVE  LET run == RunSets(p.sets, chunk, state, Lets(p, chunk, state))
           IN  /\ run.ok <=> ~SetsFail(p, chunk, state)
               /\ run.ok => run.state = Later(p, chunk, state)[Len(p.sets)]
<1>1. PICK n \in Nat : n = Len(p.sets) /\ DOMAIN p.sets = 1..n
  BY DEF IsProgram
<1>2. PICK lets : lets = Lets(p, chunk, state)
  OBVIOUS
<1>3. PICK later : later = Later(p, chunk, state)
  OBVIOUS
<1>4. /\ later[0] = state
      /\ \A i \in 1..n : later[i] = [later[i - 1] EXCEPT ![p.sets[i].field] =
                                       Value(p.sets[i].expr, chunk, later[i - 1], lets)]
  BY <1>1, <1>2, <1>3, LaterIs
<1>5. PICK r : /\ r[0] = [ok |-> TRUE, state |-> state]
               /\ \A i \in 1..n : r[i] = SetOne(r[i - 1], p.sets[i], chunk, lets)
               /\ RunSets(p.sets, chunk, state, lets) = r[n]
  BY <1>1, RunSetsIs
<1> DEFINE bad(i) == Fails(p.sets[i].expr, chunk, later[i - 1])
           P(i) == \/ r[i] = [ok |-> TRUE, state |-> later[i]] /\ \A j \in 1..i : ~bad(j)
                   \/ DOMAIN r[i] = {"ok", "state"} /\ r[i].ok = FALSE
                      /\ \E j \in 1..i : bad(j) /\ \A k \in 1..(j - 1) : ~bad(k)
           B == {i \in Nat : i <= n => P(i)}
<1> HIDE DEF bad
<1>6. 0 \in B
  <2>1. 1..0 = {}
    OBVIOUS
  <2>2. r[0] = [ok |-> TRUE, state |-> later[0]]
    BY <1>4, <1>5
  <2>3. QED
    BY <2>1, <2>2
<1>7. ASSUME NEW i \in Nat, i \in B PROVE i + 1 \in B
  <2>1. ASSUME i + 1 <= n PROVE P(i + 1)
    <3>1. PICK m \in 1..n : m = i + 1 /\ m - 1 = i
      BY <2>1
    <3>2. r[m] = SetOne(r[i], p.sets[m], chunk, lets)
      BY <1>5, <3>1
    <3>3. P(i)
      <4> HIDE DEF P
      <4>1. QED
        BY <1>7, <2>1
    <3>4. CASE r[i] = [ok |-> TRUE, state |-> later[i]] /\ \A j \in 1..i : ~bad(j)
      <4>1. CASE bad(m)
        <5>1. Fails(p.sets[m].expr, chunk, r[i].state)
          BY <3>1, <3>4, <4>1 DEF bad
        <5>2. r[m] = [r[i] EXCEPT !.ok = FALSE]
          BY <3>2, <5>1 DEF SetOne
        <5>3. DOMAIN r[m] = {"ok", "state"} /\ r[m].ok = FALSE
          BY <3>4, <5>2
        <5>4. m \in 1..(i + 1) /\ \A k \in 1..(m - 1) : ~bad(k)
          BY <3>1, <3>4
        <5>5. QED
          BY <3>1, <4>1, <5>3, <5>4
      <4>2. CASE ~bad(m)
        <5>1. ~Fails(p.sets[m].expr, chunk, r[i].state) /\ r[i].ok = TRUE /\ r[i].state = later[i]
          BY <3>1, <3>4, <4>2 DEF bad
        <5>2. r[m] = [r[i] EXCEPT !.state[p.sets[m].field] = Value(p.sets[m].expr, chunk, r[i].state, lets)]
          BY <3>2, <5>1 DEF SetOne
        <5>3. later[m] = [later[i] EXCEPT ![p.sets[m].field] = Value(p.sets[m].expr, chunk, later[i], lets)]
          BY <1>4, <3>1
        <5>4. r[m] = [ok |-> TRUE, state |-> later[m]]
          BY <3>4, <5>1, <5>2, <5>3
        <5>5. \A j \in 1..(i + 1) : ~bad(j)
          <6>1. \A j \in 1..(i + 1) : j \in 1..i \/ j = m
            BY <3>1
          <6>2. QED
            BY <3>4, <4>2, <6>1
        <5>6. QED
          BY <3>1, <5>4, <5>5
      <4>3. QED
        BY <4>1, <4>2
    <3>5. CASE DOMAIN r[i] = {"ok", "state"} /\ r[i].ok = FALSE
               /\ \E j \in 1..i : bad(j) /\ \A k \in 1..(j - 1) : ~bad(k)
      <4>1. r[m] = [r[i] EXCEPT !.ok = FALSE]
        BY <3>2, <3>5 DEF SetOne
      <4>2. DOMAIN r[m] = {"ok", "state"} /\ r[m].ok = FALSE
        BY <3>5, <4>1
      <4>3. \E j \in 1..(i + 1) : bad(j) /\ \A k \in 1..(j - 1) : ~bad(k)
        <5>1. \A j \in 1..i : j \in 1..(i + 1)
          OBVIOUS
        <5>2. QED
          BY <3>5, <5>1
      <4>4. QED
        BY <3>1, <4>2, <4>3
    <3>6. QED
      BY <3>3, <3>4, <3>5
  <2> HIDE DEF P
  <2>2. QED
    BY <2>1
<1>8. P(n)
  <2> HIDE DEF P
  <2>1. \A i \in Nat : i \in B
    <3> HIDE DEF B
    <3>1. QED
      BY <1>6, <1>7, Induction
  <2>2. QED
    BY <2>1
<1>9. SetsFail(p, chunk, state) <=> \E j \in 1..n : bad(j) /\ \A k \in 1..(j - 1) : ~bad(k)
  BY <1>1, <1>3 DEF SetsFail, SetFails, bad
<1>10. QED
  BY <1>1, <1>2, <1>3, <1>5, <1>8, <1>9

-----------------------------------------------------------------------------
(* One step of the source program. *)

\* A set of numbers has a least one.
LEMMA Least ==
    ASSUME NEW S \in SUBSET Nat, S # {}
    PROVE  \E m \in S : \A k \in S : m <= k
<1>1. PICK m \in S : \A k \in S : <<k, m>> \notin OpToRel(<, Nat)
  BY WFMin, NatLessThanWellFounded
<1>2. ASSUME NEW k \in S PROVE m <= k
  <2>1. ~(k < m)
    BY <1>1, <1>2 DEF OpToRel
  <2>2. QED
    BY <2>1
<1>3. QED
  BY <1>2

\* Every declaration's handler is a program; without state it sets nothing.
LEMMA ProgramShape ==
    ASSUME NEW d \in Declarations
    PROVE  IsProgram(ProgramOf(d)) /\ (~d.state => ProgramOf(d).sets = <<>>)
<1>1. PICK p \in {Stateful, Stateless} : p = IF d.state THEN Stateful ELSE Stateless
  OBVIOUS
<1>2. /\ DOMAIN p = {"lets", "response", "sets"}
      /\ Len(p.lets) \in Nat /\ DOMAIN p.lets = 1..Len(p.lets)
      /\ Len(p.response) \in Nat /\ DOMAIN p.response = 1..Len(p.response) /\ Len(p.response) > 0
      /\ Len(p.sets) \in Nat /\ DOMAIN p.sets = 1..Len(p.sets)
      /\ (~d.state => p.sets = <<>>)
  BY <1>1, TcpAssumption
<1>3. CASE d.identity
  <2>1. PICK r : r = ProgramOf(d)
    OBVIOUS
  <2>2. r.lets = <<>> /\ r.response = <<[kind |-> "chunk"]>> /\ r.sets = p.sets
    BY <1>1, <1>2, <1>3, <2>1 DEF ProgramOf
  <2>3. Len(<<>>) = 0 /\ DOMAIN <<>> = 1..0
    OBVIOUS
  <2>4. Len(<<[kind |-> "chunk"]>>) = 1 /\ DOMAIN <<[kind |-> "chunk"]>> = 1..1
    OBVIOUS
  <2>5. Len(r.lets) = 0 /\ DOMAIN r.lets = 1..0
    BY <2>2, <2>3
  <2>6. Len(r.response) = 1 /\ DOMAIN r.response = 1..1
    BY <2>2, <2>4
  <2>7. IsProgram(r)
    BY <1>2, <2>2, <2>5, <2>6 DEF IsProgram
  <2>8. QED
    BY <1>2, <2>1, <2>2, <2>7
<1>4. CASE ~d.identity
  <2>1. ProgramOf(d) = p
    BY <1>1, <1>4 DEF ProgramOf
  <2>2. QED
    BY <1>2, <2>1 DEF IsProgram
<1>5. QED
  BY <1>3, <1>4

\* The first n pieces of the answer to a chunk.
Said(p, chunk, state, n) ==
    [i \in 1..n |-> Piece(p.response[i], chunk, state, Lets(p, chunk, state))]

Passes(p, chunk, state, n) == \A i \in 1..n : ~PieceFails(p.response[i], chunk, state)

LEMMA SaidListed ==
    ASSUME NEW p, NEW chunk, NEW state, NEW n \in Nat
    PROVE  Listed(Said(p, chunk, state, n)) /\ Len(Said(p, chunk, state, n)) = n
<1>1. PICK s : s = Said(p, chunk, state, n)
  OBVIOUS
<1>2. s = [i \in 1..n |-> s[i]]
  BY <1>1 DEF Said
<1>3. QED
  BY <1>1, <1>2, ListedBy

\* The step writes the pieces up to the first check that fails.
LEMMA WrittenIs ==
    ASSUME NEW p, IsProgram(p), NEW chunk, NEW state, ~LetsFail(p, chunk, state),
           NEW n \in 0..Len(p.response), Passes(p, chunk, state, n),
           n < Len(p.response) => PieceFails(p.response[n + 1], chunk, state)
    PROVE  Written(p, chunk, state) = n
<1>1. PICK N \in Nat : N = Len(p.response)
  BY DEF IsProgram
<1>2. PICK G : G = Sound(p, chunk, state)
  OBVIOUS
<1>3. G = {m \in 0..N : \A i \in 1..m : ~PieceFails(p.response[i], chunk, state)}
  BY <1>1, <1>2 DEF Sound
<1>4. n \in G
  BY <1>1, <1>3 DEF Passes
<1>5. ASSUME NEW m \in G PROVE m <= n
  <2>1. m \in 0..N /\ \A i \in 1..m : ~PieceFails(p.response[i], chunk, state)
    BY <1>3
  <2>2. CASE m > n
    <3>1. n + 1 \in 1..m /\ n < N
      BY <1>1, <2>1, <2>2
    <3>2. QED
      BY <1>1, <2>1, <3>1
  <2>3. QED
    BY <1>1, <2>1, <2>2
<1>6. PICK w : w = CHOOSE m \in G : \A i \in G : i <= m
  OBVIOUS
<1>7. w \in G /\ \A i \in G : i <= w
  BY <1>4, <1>5, <1>6
<1>8. w = n
  BY <1>3, <1>4, <1>5, <1>7
<1>9. QED
  BY <1>2, <1>6, <1>8 DEF Written

LEMMA WrittenReaches ==
    ASSUME NEW p, IsProgram(p), NEW chunk, NEW state, ~LetsFail(p, chunk, state),
           NEW n \in 0..Len(p.response), Passes(p, chunk, state, n)
    PROVE  Written(p, chunk, state) \in n..Len(p.response)
<1>1. PICK N \in Nat : N = Len(p.response)
  BY DEF IsProgram
<1> DEFINE F == {i \in 1..N : PieceFails(p.response[i], chunk, state)}
<1>2. CASE F = {}
  <2>1. Passes(p, chunk, state, N)
    BY <1>2 DEF Passes
  <2>2. N \in 0..Len(p.response) /\ ~(N < Len(p.response))
    BY <1>1
  <2>3. Written(p, chunk, state) = N
    BY <2>1, <2>2, WrittenIs
  <2>4. QED
    BY <1>1, <2>3
<1>3. CASE F # {}
  <2>0. F \in SUBSET Nat
    OBVIOUS
  <2>1. PICK m \in F : \A k \in F : m <= k
    <3> HIDE DEF F
    <3>1. QED
      BY <1>3, <2>0, Least
  <2>2. PICK k \in Nat : k = m - 1 /\ m = k + 1 /\ m \in 1..N /\ k \in 0..N
    BY <2>1
  <2>3. Passes(p, chunk, state, k)
    <3>1. SUFFICES ASSUME NEW i \in 1..k, PieceFails(p.response[i], chunk, state) PROVE FALSE
      BY DEF Passes
    <3>2. i \in F
      BY <2>2, <3>1
    <3>3. QED
      BY <2>1, <2>2, <3>2
  <2>4. PieceFails(p.response[k + 1], chunk, state)
    BY <2>1, <2>2
  <2>5. Written(p, chunk, state) = k
    BY <1>1, <2>2, <2>3, <2>4, WrittenIs
  <2>6. ~(k < n)
    <3>1. k < n => m \in 1..n
      BY <1>1, <2>2
    <3>2. QED
      BY <2>1, <3>1 DEF Passes
  <2>7. QED
    BY <1>1, <2>2, <2>5, <2>6
<1>4. QED
  BY <1>2, <1>3

LEMMA StepOfIs ==
    ASSUME NEW p, NEW chunk, NEW state
    PROVE  /\ StepOf(p, state, chunk).pieces = Said(p, chunk, state, Written(p, chunk, state))
           /\ StepOf(p, state, chunk).whole <=>
                Written(p, chunk, state) = Len(p.response) /\ ~SetsFail(p, chunk, state)
           /\ StepOf(p, state, chunk).whole =>
                StepOf(p, state, chunk).state = Later(p, chunk, state)[Len(p.sets)]
BY DEF StepOf, Said

\* A beginning of a sequence, with more of the same behind it.
LEMMA ConcatBegins ==
    ASSUME NEW s, Listed(s), NEW p, NEW chunk, NEW state, NEW n \in Nat, NEW m \in Nat, n <= m
    PROVE  Begins(s \o Said(p, chunk, state, n), s \o Said(p, chunk, state, m))
<1>1. PICK a, b : a = Said(p, chunk, state, n) /\ b = Said(p, chunk, state, m)
  OBVIOUS
<1>2. Listed(a) /\ Listed(b) /\ Len(a) = n /\ Len(b) = m
  BY <1>1, SaidListed
<1>3. \A i \in 1..n : a[i] = b[i]
  BY <1>1 DEF Said
<1>4. PICK N \in Nat : N = Len(s)
  BY ListedShape
<1>5. /\ Len(s \o a) = N + n /\ Len(s \o b) = N + m
      /\ \A i \in 1..N : (s \o a)[i] = s[i] /\ (s \o b)[i] = s[i]
      /\ \A i \in 1..n : (s \o a)[N + i] = a[i]
      /\ \A i \in 1..m : (s \o b)[N + i] = b[i]
  BY <1>2, <1>4, ConcatListed
<1>6. ASSUME NEW i \in 1..(N + n) PROVE (s \o a)[i] = (s \o b)[i]
  <2>1. CASE i <= N
    BY <1>5, <2>1
  <2>2. CASE i > N
    <3>1. PICK j \in 1..n : i = N + j /\ j \in 1..m
      <4>1. i - N \in 1..n /\ i = N + (i - N) /\ i - N \in 1..m
        BY <2>2
      <4>2. QED
        BY <4>1
    <3>2. QED
      BY <1>3, <1>5, <3>1
  <2>3. i <= N \/ i > N
    OBVIOUS
  <2>4. QED
    BY <2>1, <2>2, <2>3
<1>7. Begins(s \o a, s \o b)
  BY <1>5, <1>6 DEF Begins
<1>8. QED
  BY <1>1, <1>7

LEMMA BeginsTwice ==
    ASSUME NEW s, NEW t, NEW u, Listed(s), Listed(t), Listed(u), Begins(s, t), Begins(t, u)
    PROVE  Begins(s, u)
<1>1. Len(s) \in Nat /\ Len(t) \in Nat /\ Len(u) \in Nat
  BY ListedShape
<1>2. QED
  BY <1>1 DEF Begins

\* One more piece.
LEMMA SaidGrows ==
    ASSUME NEW s, Listed(s), NEW p, NEW chunk, NEW state, NEW n \in Nat, NEW o, Listed(o),
           Begins(o, s \o Said(p, chunk, state, n)),
           Len(o) = Len(s \o Said(p, chunk, state, n))
    PROVE  LET x == Piece(p.response[n + 1], chunk, state, Lets(p, chunk, state))
           IN  /\ Begins(Append(o, x), s \o Said(p, chunk, state, n + 1))
               /\ Len(Append(o, x)) = Len(s \o Said(p, chunk, state, n + 1))
<1>1. PICK a, b : a = Said(p, chunk, state, n) /\ b = Said(p, chunk, state, n + 1)
  OBVIOUS
<1>2. Listed(a) /\ Listed(b) /\ Len(a) = n /\ Len(b) = n + 1
  BY <1>1, SaidListed
<1>3. PICK x : x = Piece(p.response[n + 1], chunk, state, Lets(p, chunk, state))
  OBVIOUS
<1>4. b[n + 1] = x
  BY <1>1, <1>3 DEF Said
<1>5. PICK N \in Nat : N = Len(s)
  BY ListedShape
<1>6. Len(s \o a) = N + n /\ Len(s \o b) = N + (n + 1) /\ (s \o b)[N + (n + 1)] = b[n + 1]
  BY <1>2, <1>5, ConcatListed
<1>7. Begins(s \o a, s \o b)
  <2>1. n <= n + 1 /\ n + 1 \in Nat
    OBVIOUS
  <2>2. QED
    BY <1>1, <2>1, ConcatBegins
<1>8. PICK M \in Nat : M = N + n /\ N + (n + 1) = M + 1
  OBVIOUS
<1>9. /\ Len(o) = M /\ Len(Append(o, x)) = M + 1 /\ Append(o, x)[M + 1] = x
      /\ \A i \in 1..M : Append(o, x)[i] = o[i]
  BY <1>1, <1>6, <1>8, AppendListed
<1>10. \A i \in 1..M : o[i] = (s \o b)[i]
  BY <1>1, <1>6, <1>7, <1>8, <1>9 DEF Begins
<1>11. \A i \in 1..(M + 1) : Append(o, x)[i] = (s \o b)[i]
  <2>1. \A i \in 1..(M + 1) : i \in 1..M \/ i = M + 1
    OBVIOUS
  <2>2. QED
    BY <1>4, <1>6, <1>8, <1>9, <1>10, <2>1
<1>12. QED
  BY <1>1, <1>3, <1>6, <1>8, <1>9, <1>11 DEF Begins

-----------------------------------------------------------------------------
(* The invariant of the conversations. *)

\* A client was told what there is to say, or went away before it ended.
Told(o, gone, said) == Begins(o, said) /\ (~gone => Len(o) = Len(said))

\* A process has read the last chunk of s, checked the lets, and given the first n
\* pieces of the answer.
Middle(p, s, o, gone, f, n) ==
    LET run == Conversation(p, Front(s))
    IN  /\ Listed(Front(s)) /\ s = Append(Front(s), f.chunk)
        /\ Listed(run.pieces) /\ run.whole /\ run.state = f.state
        /\ ~LetsFail(p, f.chunk, f.state) /\ f.lets = Lets(p, f.chunk, f.state)
        /\ n \in 0..Len(p.response) /\ Passes(p, f.chunk, f.state, n)
        /\ Told(o, gone, run.pieces \o Said(p, f.chunk, f.state, n))

Talks(q) == frame[q].pc \in InStep /\ frame[q].conn \in Conns
Answering(q) == frame[q].pc \in {"respond", "after"}

\* A process that serves goes on from the state the source program has reached.
Talk(q) ==
    LET f == frame[q]
        c == f.conn
        run == Conversation(Program, chunks[c])
    IN  /\ q \in holders[c] /\ phase[c] = "accepted"
        /\ Kind = "multistep" =>
              Len(chunks[c]) <= f.steps /\ (f.pc = "read" => Len(chunks[c]) < f.steps)
        /\ f.pc \in {"step", "read"} => run.whole /\ run.state = f.state
        /\ f.pc = "respond" => /\ f.k \in 1..Len(Program.response)
                               /\ Middle(Program, chunks[c], out[c], Gone(c), f, f.k - 1)
        /\ f.pc = "after" =>
              Middle(Program, chunks[c], out[c], Gone(c), f, Len(Program.response))

\* Between answers a client has all of the conversation.
Heard(c) ==
    LET run == Conversation(Program, chunks[c])
    IN  /\ Listed(chunks[c]) /\ Listed(out[c]) /\ Listed(run.pieces)
        /\ (\A q \in Procs : frame[q].conn = c => ~Answering(q)) =>
              Told(out[c], Gone(c), run.pieces)
        /\ Len(chunks[c]) > 0 => Conversation(Program, Front(chunks[c])).whole
        /\ phase[c] # "accepted" => chunks[c] = <<>>
        /\ Kind = "multistep" => Len(chunks[c]) <= MaxSteps

\* The listener keeps the initial state, and serves alone or not at all.
Listens ==
    /\ frame[Listener].state = Initial
    /\ frame[Listener].pc = "fork" /\ frame[Listener].conn \in Conns =>
          chunks[frame[Listener].conn] = <<>>
    /\ Kind # "multistep" =>
          /\ frame[Listener].pc \in {"accept", "read", "respond", "close", "dead"}
          /\ \A q \in Kids : frame[q].pc = "free"

Histories ==
    /\ DOMAIN chunks = Conns /\ DOMAIN out = Conns
    /\ peer \in [Conns -> {"active", "finished", "stopped", "gone"}]

Conversations ==
    /\ Histories /\ Listens
    /\ \A q \in Procs : Talks(q) => Talk(q)
    /\ \A c \in Conns : Heard(c)

-----------------------------------------------------------------------------
(* How an answer begins, goes on and ends. *)

LEMMA FrontOfAppend ==
    ASSUME NEW s, Listed(s), NEW x
    PROVE  Front(Append(s, x)) = s
<1>1. PICK n \in Nat : n = Len(s)
  BY ListedShape
<1>2. PICK t : t = Append(s, x)
  OBVIOUS
<1>3. Listed(t) /\ Len(t) = n + 1 /\ \A i \in 1..n : t[i] = s[i]
  BY <1>1, <1>2, AppendListed
<1>4. PICK T : t \in Seq(T)
  BY <1>3 DEF Listed
<1>5. SubSeq(t, 1, n) = [i \in 1..n |-> t[i]]
  BY <1>1, <1>3, <1>4
<1>6. s = [i \in 1..n |-> s[i]]
  BY <1>1, ListedShape
<1>7. (n + 1) - 1 = n
  OBVIOUS
<1>8. QED
  BY <1>2, <1>3, <1>5, <1>6, <1>7 DEF Front

\* No piece is nothing to add.
LEMMA SaidNothing ==
    ASSUME NEW s, Listed(s), NEW p, NEW chunk, NEW state
    PROVE  s \o Said(p, chunk, state, 0) = s
<1>1. PICK a : a = Said(p, chunk, state, 0)
  OBVIOUS
<1>2. Listed(a) /\ Len(a) = 0
  BY <1>1, SaidListed
<1>3. PICK n \in Nat : n = Len(s)
  BY ListedShape
<1>4. Listed(s \o a) /\ Len(s \o a) = n /\ \A i \in 1..n : (s \o a)[i] = s[i]
  BY <1>2, <1>3, ConcatListed
<1>5. s \o a = s
  BY <1>3, <1>4, SameElements
<1>6. QED
  BY <1>1, <1>5

LEMMA AnswerState ==
    ASSUME NEW p, NEW run, NEW chunk
    PROVE  Answer(p, run, chunk).state = StepOf(p, run.state, chunk).state
BY DEF Answer

LEMMA AnswerPieces ==
    ASSUME NEW p, NEW run, NEW chunk
    PROVE  Answer(p, run, chunk).pieces = run.pieces \o StepOf(p, run.state, chunk).pieces
BY DEF Answer

LEMMA AnswerWhole ==
    ASSUME NEW p, NEW run, NEW chunk
    PROVE  Answer(p, run, chunk).whole <=> run.whole /\ StepOf(p, run.state, chunk).whole
BY DEF Answer

\* The conversation with one chunk more: what is said,
LEMMA AnswerSays ==
    ASSUME NEW p, IsProgram(p), NEW chunk, NEW run, Listed(run.pieces)
    PROVE  /\ Answer(p, run, chunk).pieces =
                 run.pieces \o Said(p, chunk, run.state, Written(p, chunk, run.state))
           /\ Listed(Answer(p, run, chunk).pieces)
<1>0. PICK n, next : n = Written(p, chunk, run.state) /\ next = Answer(p, run, chunk)
  OBVIOUS
<1>1. next.pieces = run.pieces \o Said(p, chunk, run.state, n)
  <2>1. StepOf(p, run.state, chunk).pieces = Said(p, chunk, run.state, n)
    BY <1>0, StepOfIs
  <2>2. next.pieces = run.pieces \o StepOf(p, run.state, chunk).pieces
    BY <1>0, AnswerPieces
  <2>3. QED
    BY <2>1, <2>2
<1>2. n \in Nat
  <2>1. CASE LetsFail(p, chunk, run.state)
    BY <1>0, <2>1 DEF Written, IsProgram
  <2>2. CASE ~LetsFail(p, chunk, run.state)
    <3>1. 0 \in 0..Len(p.response) /\ Passes(p, chunk, run.state, 0)
      BY DEF IsProgram, Passes
    <3>2. n \in 0..Len(p.response)
      BY <1>0, <2>2, <3>1, WrittenReaches
    <3>3. QED
      BY <3>2 DEF IsProgram
  <2>3. QED
    BY <2>1, <2>2
<1>3. Listed(run.pieces \o Said(p, chunk, run.state, n))
  BY <1>2, SaidListed, ConcatListed
<1>4. QED
  BY <1>0, <1>1, <1>3

\* whether it is all there is to say,
LEMMA AnswerIsWhole ==
    ASSUME NEW p, NEW chunk, NEW run, run.whole,
           NEW n, n = Written(p, chunk, run.state), NEW next, next = Answer(p, run, chunk)
    PROVE  next.whole <=> n = Len(p.response) /\ ~SetsFail(p, chunk, run.state)
<1>1. StepOf(p, run.state, chunk).whole <=> n = Len(p.response) /\ ~SetsFail(p, chunk, run.state)
  BY StepOfIs
<1>2. next.whole <=> StepOf(p, run.state, chunk).whole
  BY AnswerWhole
<1>3. QED
  BY <1>1, <1>2

\* and the state in which the next chunk is answered.
LEMMA AnswerLeaves ==
    ASSUME NEW p, NEW chunk, NEW run, run.whole,
           NEW next, next = Answer(p, run, chunk), next.whole
    PROVE  next.state = Later(p, chunk, run.state)[Len(p.sets)]
<1>1. next.whole => StepOf(p, run.state, chunk).whole
  BY AnswerWhole
<1>2. next.state = StepOf(p, run.state, chunk).state
  BY AnswerState
<1>3. StepOf(p, run.state, chunk).whole =>
        StepOf(p, run.state, chunk).state = Later(p, chunk, run.state)[Len(p.sets)]
  BY StepOfIs
<1>4. QED
  BY <1>1, <1>2, <1>3

\* A chunk whose lets hold: the answer begins.
LEMMA MiddleStarts ==
    ASSUME NEW p, IsProgram(p), NEW s, Listed(s), NEW o, NEW gone,
           NEW run, run = Conversation(p, s), Listed(run.pieces), run.whole,
           Told(o, gone, run.pieces),
           NEW f, f.state = run.state, ~LetsFail(p, f.chunk, run.state),
           f.lets = Lets(p, f.chunk, run.state)
    PROVE  Middle(p, Append(s, f.chunk), o, gone, f, 0)
<1>1. PICK t : t = Append(s, f.chunk) /\ Front(t) = s
  BY FrontOfAppend
<1>2. run.pieces \o Said(p, f.chunk, run.state, 0) = run.pieces
  BY SaidNothing
<1>3. 0 \in 0..Len(p.response) /\ Passes(p, f.chunk, f.state, 0)
  BY DEF IsProgram, Passes
<1>4. QED
  BY <1>1, <1>2, <1>3 DEF Middle

\* A chunk for which a let fails gets no answer.
LEMMA LetsStop ==
    ASSUME NEW p, IsProgram(p), NEW o, NEW gone, NEW chunk,
           NEW run, Listed(run.pieces), run.whole, Told(o, gone, run.pieces),
           LetsFail(p, chunk, run.state), NEW next, next = Answer(p, run, chunk)
    PROVE  next.pieces = run.pieces /\ Listed(next.pieces) /\ Told(o, gone, next.pieces)
<1>1. PICK w : w = Written(p, chunk, run.state)
  OBVIOUS
<1>2. next.pieces = run.pieces \o Said(p, chunk, run.state, 0)
  <2>1. w = 0
    BY <1>1 DEF Written
  <2>2. next.pieces = run.pieces \o Said(p, chunk, run.state, w)
    BY <1>1, AnswerSays
  <2>3. QED
    BY <2>1, <2>2
<1>3. QED
  BY <1>2, SaidNothing

\* One piece more, written or lost on a client that is gone.
LEMMA MiddleGoes ==
    ASSUME NEW p, IsProgram(p), NEW s, NEW o, Listed(o), NEW gone, NEW f, NEW n \in Nat,
           Middle(p, s, o, gone, f, n), n < Len(p.response),
           ~PieceFails(p.response[n + 1], f.chunk, f.state),
           NEW o2, \/ ~gone /\ o2 = Append(o, Piece(p.response[n + 1], f.chunk, f.state, f.lets))
                   \/ gone /\ o2 = o,
           NEW f2, f2.chunk = f.chunk, f2.state = f.state, f2.lets = f.lets
    PROVE  Middle(p, s, o2, gone, f2, n + 1)
<1>1. PICK run : run = Conversation(p, Front(s))
  OBVIOUS
<1>2. /\ Listed(run.pieces)
      /\ Told(o, gone, run.pieces \o Said(p, f.chunk, f.state, n))
      /\ Passes(p, f.chunk, f.state, n) /\ f.lets = Lets(p, f.chunk, f.state)
  BY <1>1 DEF Middle
<1>3. Passes(p, f.chunk, f.state, n + 1)
  <2>1. \A i \in 1..(n + 1) : i \in 1..n \/ i = n + 1
    OBVIOUS
  <2>2. QED
    BY <1>2, <2>1 DEF Passes
<1>4. n + 1 \in 0..Len(p.response)
  BY DEF IsProgram
<1>5. Told(o2, gone, run.pieces \o Said(p, f.chunk, f.state, n + 1))
  <2>1. CASE ~gone
    <3>1. Begins(o, run.pieces \o Said(p, f.chunk, f.state, n))
          /\ Len(o) = Len(run.pieces \o Said(p, f.chunk, f.state, n))
      BY <1>2, <2>1 DEF Told
    <3>2. PICK x : x = Piece(p.response[n + 1], f.chunk, f.state, Lets(p, f.chunk, f.state))
      OBVIOUS
    <3>3. /\ Begins(Append(o, x), run.pieces \o Said(p, f.chunk, f.state, n + 1))
          /\ Len(Append(o, x)) = Len(run.pieces \o Said(p, f.chunk, f.state, n + 1))
      <4>1. PICK r : r = run.pieces
        OBVIOUS
      <4>2. Listed(r) /\ Begins(o, r \o Said(p, f.chunk, f.state, n))
            /\ Len(o) = Len(r \o Said(p, f.chunk, f.state, n))
        BY <1>2, <3>1, <4>1
      <4>3. /\ Begins(Append(o, x), r \o Said(p, f.chunk, f.state, n + 1))
            /\ Len(Append(o, x)) = Len(r \o Said(p, f.chunk, f.state, n + 1))
        BY <3>2, <4>2, SaidGrows DEF Piece
      <4>4. QED
        BY <4>1, <4>3
    <3>4. o2 = Append(o, x)
      BY <1>2, <2>1, <3>2
    <3>5. QED
      BY <3>3, <3>4 DEF Told
  <2>2. CASE gone
    <3>1. Begins(o, run.pieces \o Said(p, f.chunk, f.state, n)) /\ o2 = o
      BY <1>2, <2>2 DEF Told
    <3>2. n + 1 \in Nat /\ n <= n + 1
      OBVIOUS
    <3>3. Begins(run.pieces \o Said(p, f.chunk, f.state, n),
                 run.pieces \o Said(p, f.chunk, f.state, n + 1))
      BY <1>2, <3>2, ConcatBegins
    <3>4. /\ Listed(run.pieces \o Said(p, f.chunk, f.state, n))
          /\ Listed(run.pieces \o Said(p, f.chunk, f.state, n + 1))
      BY <1>2, <3>2, SaidListed, ConcatListed
    <3>5. Begins(o, run.pieces \o Said(p, f.chunk, f.state, n + 1))
      BY <3>1, <3>3, <3>4, BeginsTwice
    <3>6. QED
      BY <2>2, <3>1, <3>5 DEF Told
  <2>3. QED
    BY <2>1, <2>2
<1>6. QED
  BY <1>1, <1>3, <1>4, <1>5 DEF Middle

\* Wherever an answer ends, the client has a beginning of it; and all of it, when
\* the next piece fails or there is none.
LEMMA MiddleEnds ==
    ASSUME NEW p, IsProgram(p), NEW s, NEW o, Listed(o), NEW gone, NEW f, NEW n \in Nat,
           Middle(p, s, o, gone, f, n),
           NEW next, next = Conversation(p, s)
    PROVE  /\ Listed(next.pieces) /\ Begins(o, next.pieces)
           /\ (n < Len(p.response) => PieceFails(p.response[n + 1], f.chunk, f.state)) =>
                 Told(o, gone, next.pieces)
           /\ n = Len(p.response) =>
                 /\ next.whole <=> ~SetsFail(p, f.chunk, f.state)
                 /\ next.whole => next.state = Later(p, f.chunk, f.state)[Len(p.sets)]
<1>1. PICK b : b = Front(s)
  OBVIOUS
<1>2. PICK run : run = Conversation(p, b)
  OBVIOUS
<1>3. /\ Listed(b) /\ s = Append(b, f.chunk) /\ Listed(run.pieces) /\ run.whole
      /\ run.state = f.state /\ ~LetsFail(p, f.chunk, f.state)
      /\ n \in 0..Len(p.response) /\ Passes(p, f.chunk, f.state, n)
      /\ Told(o, gone, run.pieces \o Said(p, f.chunk, f.state, n))
  BY <1>1, <1>2 DEF Middle
<1>4. PICK w : w = Written(p, f.chunk, f.state)
  OBVIOUS
<1>5. /\ next.pieces = run.pieces \o Said(p, f.chunk, f.state, w) /\ Listed(next.pieces)
      /\ next.whole <=> w = Len(p.response) /\ ~SetsFail(p, f.chunk, f.state)
      /\ next.whole => next.state = Later(p, f.chunk, f.state)[Len(p.sets)]
  <2>1. PICK a : a = Answer(p, run, f.chunk)
    OBVIOUS
  <2>2. w = Written(p, f.chunk, run.state)
    BY <1>3, <1>4
  <2>3. a.pieces = run.pieces \o Said(p, f.chunk, run.state, w) /\ Listed(a.pieces)
    <3>1. Listed(run.pieces) /\ run.whole
      BY <1>3
    <3>2. QED
      BY <2>1, <2>2, <3>1, AnswerSays
  <2>4. a.whole <=> w = Len(p.response) /\ ~SetsFail(p, f.chunk, run.state)
    BY <1>3, <2>1, <2>2, AnswerIsWhole
  <2>5. a.whole => a.state = Later(p, f.chunk, run.state)[Len(p.sets)]
    BY <1>3, <2>1, AnswerLeaves
  <2>6. next = a
    BY <1>2, <1>3, <2>1, ConversationGoesOn
  <2>7. QED
    BY <1>3, <2>3, <2>4, <2>5, <2>6
<1>6. PICK N \in Nat : N = Len(p.response)
  BY DEF IsProgram
<1>7. w \in n..N
  BY <1>3, <1>4, <1>6, WrittenReaches
<1>8. Begins(o, next.pieces)
  <2>1. w \in Nat /\ n <= w
    BY <1>6, <1>7
  <2>2. Begins(run.pieces \o Said(p, f.chunk, f.state, n),
               run.pieces \o Said(p, f.chunk, f.state, w))
    BY <1>3, <2>1, ConcatBegins
  <2>3. Listed(run.pieces \o Said(p, f.chunk, f.state, n))
    BY <1>3, SaidListed, ConcatListed
  <2>4. QED
    BY <1>3, <1>5, <2>2, <2>3, BeginsTwice DEF Told
<1>9. ASSUME n < Len(p.response) => PieceFails(p.response[n + 1], f.chunk, f.state)
      PROVE  w = n
  BY <1>3, <1>4, <1>9, WrittenIs
<1>10. ASSUME n < Len(p.response) => PieceFails(p.response[n + 1], f.chunk, f.state)
       PROVE  Told(o, gone, next.pieces)
  BY <1>3, <1>5, <1>9, <1>10
<1>11. ASSUME n = Len(p.response)
       PROVE  /\ next.whole <=> ~SetsFail(p, f.chunk, f.state)
              /\ next.whole => next.state = Later(p, f.chunk, f.state)[Len(p.sets)]
  BY <1>5, <1>6, <1>7, <1>11
<1>12. QED
  BY <1>5, <1>8, <1>10, <1>11

-----------------------------------------------------------------------------
(* Who talks, and what a step of one process leaves alone. *)

\* Without max_steps there is no state, and nothing to set.
LEMMA KindShape ==
    ASSUME declared \in Declarations, Kind # "refused"
    PROVE  /\ IsProgram(Program)
           /\ Kind \in {"echo", "oneshot", "multistep"}
           /\ Kind # "multistep" => Program.sets = <<>> /\ declared.max_steps = FALSE
<1>1. /\ declared.identity \in BOOLEAN /\ declared.max_steps \in BOOLEAN
      /\ declared.read_timeout \in BOOLEAN /\ declared.state \in BOOLEAN
  BY DEF Declarations
<1>2. Kind \in {"echo", "oneshot", "multistep"}
  BY DEF Kind, Emitter
<1>3. ASSUME Kind # "multistep" PROVE declared.state = FALSE /\ declared.max_steps = FALSE
  <2>1. CASE declared.identity /\ OneShotStateless(declared)
    BY <1>1, <2>1 DEF OneShotStateless
  <2>2. CASE ~(declared.identity /\ OneShotStateless(declared))
    <3>1. ~(declared.state /\ ~declared.max_steps)
      <4> SUFFICES ASSUME declared.state = TRUE, declared.max_steps = FALSE PROVE FALSE
        BY <1>1
      <4>1. (declared.state /\ ~declared.max_steps) = TRUE /\ IsMultistep(declared) = FALSE
        BY DEF IsMultistep
      <4>2. Emitter(declared) = "refused"
        BY <2>2, <4>1 DEF Emitter
      <4>3. QED
        BY <4>2 DEF Kind
    <3>2. ~(declared.max_steps # declared.read_timeout)
      <4> SUFFICES ASSUME (declared.max_steps # declared.read_timeout) = TRUE PROVE FALSE
        OBVIOUS
      <4>1. IsMultistep(declared) = FALSE
        BY <1>1 DEF IsMultistep
      <4>2. Emitter(declared) = "refused"
        BY <2>2, <3>1, <4>1 DEF Emitter
      <4>3. QED
        BY <4>2 DEF Kind
    <3>3. ~IsMultistep(declared)
      BY <1>3, <2>2, <3>1, <3>2 DEF Kind, Emitter
    <3>4. QED
      BY <1>1, <3>1, <3>2, <3>3 DEF IsMultistep
  <2>3. QED
    BY <2>1, <2>2
<1>4. QED
  BY <1>2, <1>3, ProgramShape DEF Program

\* Only the process that serves a connection talks on it.
LEMMA Alone ==
    ASSUME IInv, Listens, NEW p \in Procs, NEW q \in Procs, Talks(p), Talks(q),
           frame[p].conn = frame[q].conn
    PROVE  p = q
<1>1. CASE Kind = "multistep"
  <2>1. Lifetimes
    BY <1>1 DEF IInv
  <2>2. p \in Kids /\ q \in Kids
    BY <2>1 DEF Lifetimes, Talks, InStep, Procs
  <2>3. Busy(p) /\ Busy(q)
    BY DEF Busy, Away, Talks, InStep
  <2>4. QED
    BY <2>1, <2>2, <2>3 DEF Lifetimes
<1>2. CASE Kind # "multistep"
  <2>1. p \notin Kids /\ q \notin Kids
    BY <1>2 DEF Listens, Talks, InStep
  <2>2. QED
    BY <2>1 DEF Procs
<1>3. QED
  BY <1>1, <1>2

\* A step of the process that serves: of the histories, only its connection's.
Works(p) ==
    /\ Serves(p) /\ frame[p].pc \in InStep /\ peer' = peer
    /\ DOMAIN chunks' = Conns /\ DOMAIN out' = Conns
    /\ \A d \in Conns : d # frame[p].conn => chunks'[d] = chunks[d] /\ out'[d] = out[d]

LEMMA ServeWorks ==
    ASSUME IInv, Histories, NEW p \in Procs, Serve(p)
    PROVE  Works(p)
<1>1. Serves(p)
  BY ServeEffect DEF IInv
<1>2. ASSUME NEW c \in Conns, Read(p, c) PROVE Works(p)
  <2>1. /\ frame[p].pc = "read" /\ frame[p].conn = c /\ peer' = peer /\ out' = out
        /\ \E x : chunks' = [chunks EXCEPT ![c] = x]
    BY <1>2 DEF Read, Reading, At
  <2>2. QED
    BY <1>1, <2>1 DEF Works, InStep, Histories
<1>3. CASE Respond(p)
  <2>1. /\ frame[p].pc = "respond" /\ peer' = peer /\ chunks' = chunks
        /\ out' = out \/ \E x : out' = [out EXCEPT ![frame[p].conn] = x]
    BY <1>3 DEF Respond, Serving, At, client
  <2>2. QED
    BY <1>1, <2>1 DEF Works, InStep, Histories
<1>4. CASE StepTop(p) \/ ReadFails(p) \/ RespondAborts(p) \/ BrokenPipe(p) \/ AfterBlock(p) \/ Close(p)
  <2>1. frame[p].pc \in InStep /\ peer' = peer /\ chunks' = chunks /\ out' = out
    BY <1>4 DEF StepTop, ReadFails, RespondAborts, BrokenPipe, AfterBlock, Close, Serving, At,
                InStep, client, history
  <2>2. QED
    BY <1>1, <2>1 DEF Works, Histories
<1>5. QED
  BY <1>2, <1>3, <1>4 DEF Serve

LEMMA TalkElsewhere ==
    ASSUME IInv, Conversations, NEW p \in Procs, Works(p),
           NEW q \in Procs, q # p, Talks(q)'
    PROVE  Talk(q)'
<1>1. PICK d : d = frame[q].conn
  OBVIOUS
<1>2. frame'[q] = frame[q] /\ d \in Conns /\ Talks(q) /\ Talk(q)
  BY <1>1 DEF Works, Serves, Others, Talks, Conversations
<1>3. d # frame[p].conn
  <2>1. d = frame[p].conn => Talks(p)
    BY <1>2 DEF Works, Talks
  <2>2. QED
    BY <1>1, <1>2, <2>1, Alone DEF Conversations
<1>4. /\ chunks'[d] = chunks[d] /\ out'[d] = out[d] /\ peer' = peer /\ phase' = phase
      /\ declared' = declared /\ (q \in holders[d] => q \in holders'[d])
  BY <1>2, <1>3 DEF Works, Serves
<1>5. QED
  BY <1>1, <1>2, <1>4 DEF Talk, Program, Kind, Gone

LEMMA HeardElsewhere ==
    ASSUME IInv, Conversations, NEW p \in Procs, Works(p),
           NEW d \in Conns, d # frame[p].conn
    PROVE  Heard(d)'
<1>1. Heard(d)
  BY DEF Conversations
<1>2. /\ chunks'[d] = chunks[d] /\ out'[d] = out[d] /\ peer' = peer /\ phase' = phase
      /\ declared' = declared
  BY DEF Works, Serves
<1>3. (\A q \in Procs : frame'[q].conn = d => ~Answering(q)') =>
        \A q \in Procs : frame[q].conn = d => ~Answering(q)
  BY DEF Works, Serves, Others, Answering
<1>4. QED
  BY <1>1, <1>2, <1>3 DEF Heard, Program, Kind, Gone

\* Between answers the client of a process that talks has heard everything.
LEMMA HeardNow ==
    ASSUME IInv, Conversations, NEW p \in Procs, Talks(p), ~Answering(p),
           NEW c, c = frame[p].conn
    PROVE  Told(out[c], Gone(c), Conversation(Program, chunks[c]).pieces)
<1>1. c \in Conns /\ Heard(c)
  BY DEF Talks, Conversations
<1>2. \A q \in Procs : frame[q].conn = c => ~Answering(q)
  <2>1. SUFFICES ASSUME NEW q \in Procs, frame[q].conn = c, Answering(q) PROVE FALSE
    OBVIOUS
  <2>2. Talks(q)
    BY <1>1, <2>1 DEF Talks, Answering, InStep
  <2>3. QED
    BY <2>1, <2>2, Alone DEF Conversations
<1>3. QED
  BY <1>1, <1>2 DEF Heard

LEMMA HeardAfter ==
    ASSUME IInv, Conversations, NEW p \in Procs, Works(p), NEW c \in Conns, frame[p].conn = c,
           NEW P, P = Program, NEW s, s = chunks'[c], NEW o, o = out'[c],
           Listed(s), Listed(o), Listed(Conversation(P, s).pieces),
           ~(frame'[p].conn = c /\ frame'[p].pc \in {"respond", "after"}) =>
              Told(o, Gone(c), Conversation(P, s).pieces),
           Len(s) > 0 => Conversation(P, Front(s)).whole,
           Kind = "multistep" => Len(s) <= MaxSteps
    PROVE  Heard(c)'
<1>1. Talk(p)
  BY DEF Conversations, Talks, Works
<1>2. phase'[c] = "accepted" /\ peer' = peer /\ declared' = declared
  BY <1>1 DEF Talk, Works, Serves
<1>3. QED
  BY <1>2 DEF Heard, Program, Kind, Gone, Answering

\* The listener stays what it is.
LEMMA ListensAfter ==
    ASSUME IInv, Conversations, NEW p \in Procs, Works(p),
           p = Listener => /\ frame'[p].pc \in {"accept", "read", "respond", "close", "dead"}
                           /\ frame'[p].state = frame[p].state
    PROVE  Listens'
<1>1. /\ Listens /\ Serves(p) /\ Others(p) /\ Busy(p) /\ Kind' = Kind
      /\ (Kind = "multistep" => Lifetimes) /\ Listener \in Procs /\ Listener \notin Kids
  BY TcpAssumption DEF Conversations, Works, Serves, Kind, IInv, Procs
<1>2. CASE p = Listener
  <2>1. \A q \in Kids : frame'[q] = frame[q]
    BY <1>1, <1>2 DEF Others, Procs
  <2>2. QED
    BY <1>1, <1>2, <2>1 DEF Listens
<1>3. CASE p # Listener
  <2>1. p \in Kids /\ frame'[Listener] = frame[Listener]
    BY <1>1, <1>3 DEF Others, Procs
  <2>2. Kind = "multistep" /\ Lifetimes
    BY <1>1, <2>1 DEF Listens, Busy, Away
  <2>3. ASSUME NEW d \in Conns, frame[Listener].pc = "fork", d = frame[Listener].conn
        PROVE  chunks'[d] = <<>>
    <3>1. d # NoConn /\ Fresh(d)
      BY <2>2, <2>3, TcpAssumption DEF Lifetimes
    <3>2. d # frame[p].conn
      BY <1>1, <2>1, <3>1 DEF Fresh
    <3>3. QED
      BY <1>1, <2>3, <3>2 DEF Works, Listens
  <2>4. QED
    BY <1>1, <2>1, <2>2, <2>3 DEF Listens
<1>4. QED
  BY <1>2, <1>3

-----------------------------------------------------------------------------
(* What each step of the process that serves does to its conversation. *)

LEMMA TalkAfter ==
    ASSUME IInv, Conversations, NEW p \in Procs, Works(p), Talks(p)',
           NEW c, c = frame[p].conn, NEW P, P = Program, NEW s, s = chunks'[c],
           NEW o, o = out'[c], NEW f, f = frame'[p],
           Kind = "multistep" => Len(s) <= f.steps /\ (f.pc = "read" => Len(s) < f.steps),
           f.pc \in {"step", "read"} =>
              Conversation(P, s).whole /\ Conversation(P, s).state = f.state,
           f.pc = "respond" => f.k \in 1..Len(P.response) /\ Middle(P, s, o, Gone(c), f, f.k - 1),
           f.pc = "after" => Middle(P, s, o, Gone(c), f, Len(P.response))
    PROVE  Talk(p)'
<1>1. f.pc \notin Away /\ Serves(p)
  BY DEF Talks, InStep, Away, Works
<1>2. holders' = holders /\ f.conn = c /\ peer' = peer /\ phase' = phase /\ declared' = declared
  BY <1>1 DEF Serves, Works
<1>3. Talks(p) /\ Talk(p)
  BY <1>2 DEF Talks, Works, Conversations
<1>4. QED
  BY <1>2, <1>3 DEF Talk, Program, Kind, Gone

\* The listener goes on with the same state; the process, if it still talks, does
\* so from where the source program is; and its client has what it should have.
Here(p) ==
    /\ p = Listener => /\ frame'[p].pc \in {"accept", "read", "respond", "close", "dead"}
                       /\ frame'[p].state = frame[p].state
    /\ Talks(p)' => Talk(p)'
    /\ \A c \in Conns : frame[p].conn = c => Heard(c)'

LEMMA ListenerTalks ==
    ASSUME IInv, Listens, Works(Listener)
    PROVE  Kind # "multistep" /\ frame[Listener].pc \in {"read", "respond", "close"}
BY DEF IInv, Lifetimes, Listens, Works, InStep

\* What was said stays said when nothing is read and nothing written.
LEMMA HeardStill ==
    ASSUME IInv, Conversations, NEW p \in Procs, Works(p), NEW c \in Conns, frame[p].conn = c,
           chunks' = chunks, out' = out,
           ~(frame'[p].conn = c /\ frame'[p].pc \in {"respond", "after"}) =>
              Told(out[c], Gone(c), Conversation(Program, chunks[c]).pieces)
    PROVE  Heard(c)'
<1>1. Heard(c) /\ Talk(p) /\ Talks(p)
  BY DEF Conversations, Talks, Works
<1>2. PICK P, s, o : P = Program /\ s = chunks'[c] /\ o = out'[c]
  OBVIOUS
<1>3. /\ Listed(s) /\ Listed(o) /\ Listed(Conversation(P, s).pieces)
      /\ (Len(s) > 0 => Conversation(P, Front(s)).whole)
      /\ (Kind = "multistep" => Len(s) <= MaxSteps)
  BY <1>1, <1>2 DEF Heard
<1>4. QED
  BY <1>2, <1>3, HeardAfter

LEMMA GoFrame ==
    ASSUME Shape, NEW p \in Procs, NEW to, Go(p, to)
    PROVE  /\ frame'[p].pc = to /\ frame'[p].conn = frame[p].conn
           /\ frame'[p].steps = frame[p].steps /\ frame'[p].state = frame[p].state
           /\ frame'[p].chunk = frame[p].chunk /\ frame'[p].lets = frame[p].lets
           /\ frame'[p].k = 1
<1>1. frame'[p] = [frame[p] EXCEPT !.pc = to, !.k = 1]
  BY DEF Shape, Go
<1>2. DOMAIN frame[p] = Fields
  BY DEF Shape, IsFrame
<1>3. QED
  BY <1>1, <1>2 DEF Fields

LEMMA StepTopHere ==
    ASSUME IInv, Conversations, NEW p \in Procs, StepTop(p), Works(p)
    PROVE  Here(p)
<1>1. p # Listener /\ frame[p].pc = "step"
  <2>1. frame[p].pc = "step"
    BY DEF StepTop, At
  <2>2. QED
    BY <2>1, ListenerTalks DEF Conversations
<1>2. PICK c, P, s, o, f : c = frame[p].conn /\ P = Program /\ s = chunks'[c] /\ o = out'[c]
                           /\ f = frame'[p]
  OBVIOUS
<1>3. chunks' = chunks /\ out' = out
  BY DEF StepTop, history
<1>4. /\ f.state = frame[p].state /\ f.conn = c
      /\ \/ f.pc = "close" /\ f.steps = frame[p].steps
         \/ f.pc = "read" /\ f.steps = frame[p].steps + 1
  <2>1. DOMAIN frame[p] = Fields /\ p \in DOMAIN frame
    BY DEF IInv, Shape, IsFrame
  <2>2. \/ f = [frame[p] EXCEPT !.pc = "close"]
        \/ f = [frame[p] EXCEPT !.pc = "read", !.steps = @ + 1, !.waited = 0]
    BY <1>2, <2>1 DEF StepTop
  <2>3. QED
    BY <1>2, <2>1, <2>2 DEF Fields
<1>5. ASSUME c \in Conns PROVE Talks(p) /\ Talk(p) /\ Heard(c)
  BY <1>2, <1>5 DEF Conversations, Talks, Works
<1>6. ASSUME NEW d \in Conns, frame[p].conn = d PROVE Heard(d)'
  <2>1. Told(out[d], Gone(d), Conversation(Program, chunks[d]).pieces)
    BY <1>1, <1>2, <1>5, <1>6, HeardNow DEF Answering
  <2>2. QED
    BY <1>3, <1>6, <2>1, HeardStill
<1>7. ASSUME Talks(p)' PROVE Talk(p)'
  <2>1. c \in Conns
    BY <1>2, <1>4, <1>7 DEF Talks
  <2>2. /\ Kind = "multistep" => Len(s) <= frame[p].steps
        /\ Conversation(P, s).whole /\ Conversation(P, s).state = f.state
    BY <1>1, <1>2, <1>3, <1>4, <1>5, <2>1 DEF Talk
  <2>3. Len(s) \in Nat /\ frame[p].steps \in Nat
    BY <1>2, <1>3, <1>5, <2>1, ListedShape DEF Heard, IInv, Shape, IsFrame
  <2>4. Kind = "multistep" => Len(s) <= f.steps /\ (f.pc = "read" => Len(s) < f.steps)
    BY <1>4, <2>2, <2>3
  <2>5. QED
    BY <1>2, <1>4, <1>7, <2>2, <2>4, TalkAfter
<1>8. QED
  BY <1>1, <1>6, <1>7 DEF Here

\* A read that fails ends the conversation where it is.
LEMMA ReadFailsHere ==
    ASSUME IInv, Conversations, NEW p \in Procs, ReadFails(p), Works(p)
    PROVE  Here(p)
<1>1. frame[p].pc = "read" /\ Go(p, "close") /\ chunks' = chunks /\ out' = out
  BY DEF ReadFails, At, history
<1>2. PICK c, P, s, o, f : c = frame[p].conn /\ P = Program /\ s = chunks'[c] /\ o = out'[c]
                           /\ f = frame'[p]
  OBVIOUS
<1>3. f.pc = "close" /\ f.conn = c /\ f.steps = frame[p].steps /\ f.state = frame[p].state
  BY <1>1, <1>2, GoFrame DEF IInv
<1>4. ASSUME c \in Conns PROVE Talks(p) /\ Talk(p) /\ Heard(c)
  BY <1>2, <1>4 DEF Conversations, Talks, Works
<1>5. ASSUME NEW d \in Conns, frame[p].conn = d PROVE Heard(d)'
  <2>1. Told(out[d], Gone(d), Conversation(Program, chunks[d]).pieces)
    BY <1>1, <1>2, <1>4, <1>5, HeardNow DEF Answering
  <2>2. QED
    BY <1>1, <1>5, <2>1, HeardStill
<1>6. ASSUME Talks(p)' PROVE Talk(p)'
  <2>1. c \in Conns
    BY <1>2, <1>3, <1>6 DEF Talks
  <2>2. Kind = "multistep" => Len(s) <= f.steps
    BY <1>1, <1>2, <1>3, <1>4, <2>1 DEF Talk
  <2>3. QED
    BY <1>2, <1>3, <1>6, <2>2, TalkAfter
<1>7. QED
  BY <1>2, <1>3, <1>5, <1>6 DEF Here

\* So do a close and a write to a client that is gone: the process talks no more.
LEMMA CloseHere ==
    ASSUME IInv, Conversations, NEW p \in Procs, Close(p) \/ BrokenPipe(p), Works(p)
    PROVE  Here(p)
<1>1. chunks' = chunks /\ out' = out
  BY DEF Close, BrokenPipe, history
<1>2. frame'[p].pc \in {"accept", "dead", "free"}
      /\ (p = Listener => frame'[p].pc \in {"accept", "dead"} /\ frame'[p].state = frame[p].state)
  <2>1. DOMAIN frame[p] = Fields /\ p \in DOMAIN frame
    BY DEF IInv, Shape, IsFrame
  <2>2. CASE p = Listener
    <3>1. \/ frame'[p] = [frame[p] EXCEPT !.pc = "dead"]
          \/ frame'[p] = [frame[p] EXCEPT !.pc = "accept", !.k = 1]
      BY <2>1, <2>2 DEF Close, BrokenPipe
    <3>2. QED
      BY <2>1, <3>1 DEF Fields
  <2>3. CASE p # Listener
    <3>1. frame'[p] = Blank
      BY <2>1, <2>3 DEF Close, BrokenPipe
    <3>2. QED
      BY <2>3, <3>1 DEF Blank
  <2>4. QED
    BY <2>2, <2>3
<1>3. ~Talks(p)'
  BY <1>2 DEF Talks, InStep
<1>4. ASSUME NEW c \in Conns, frame[p].conn = c PROVE Heard(c)'
  <2>1. Talks(p) /\ Talk(p) /\ Heard(c)
    BY <1>4 DEF Conversations, Talks, Works
  <2>2. Told(out[c], Gone(c), Conversation(Program, chunks[c]).pieces)
    <3>1. CASE Close(p)
      <4>1. ~Answering(p)
        BY <3>1 DEF Close, At, Answering
      <4>2. QED
        BY <1>4, <2>1, <4>1, HeardNow
    <3>2. CASE BrokenPipe(p)
      <4>1. frame[p].pc = "respond" /\ Gone(c)
        BY <1>4, <3>2 DEF BrokenPipe, Serving, At
      <4>2. PICK P, s, o, f, gone : P = Program /\ s = chunks[c] /\ o = out[c] /\ f = frame[p]
                                    /\ gone = Gone(c)
        OBVIOUS
      <4>3. PICK n : n = f.k - 1
        OBVIOUS
      <4>4. IsProgram(P)
        BY <4>2, KindShape DEF IInv, Shape
      <4>5. f.k \in 1..Len(P.response) /\ Middle(P, s, o, gone, f, n)
        BY <1>4, <2>1, <4>1, <4>2, <4>3 DEF Talk
      <4>6. n \in Nat
        BY <4>3, <4>4, <4>5 DEF IsProgram
      <4>7. Listed(o)
        BY <2>1, <4>2 DEF Heard
      <4>8. Begins(o, Conversation(P, s).pieces)
        BY <4>4, <4>5, <4>6, <4>7, MiddleEnds
      <4>9. QED
        BY <4>1, <4>2, <4>8 DEF Told
    <3>3. QED
      BY <3>1, <3>2
  <2>3. QED
    BY <1>1, <1>4, <2>2, HeardStill
<1>5. QED
  BY <1>2, <1>3, <1>4 DEF Here

\* A chunk is one more of the conversation: its lets hold and the answer begins,
\* or one fails and there is none.
LEMMA ReadHere ==
    ASSUME IInv, Conversations, NEW p \in Procs, NEW c \in Conns, Read(p, c), Works(p)
    PROVE  Here(p)
<1>1. frame[p].pc = "read" /\ frame[p].conn = c /\ out' = out
  BY DEF Read, Reading, At
<1>2. PICK P, b, s, o, g, f : P = Program /\ b = chunks[c] /\ s = chunks'[c] /\ o = out[c]
                              /\ g = frame[p] /\ f = frame'[p]
  OBVIOUS
<1>3. /\ s = Append(b, f.chunk)
      /\ f.conn = c /\ f.state = g.state /\ f.steps = g.steps /\ f.k = 1
      /\ LetsFail(P, f.chunk, g.state) => f.pc = "close"
      /\ ~LetsFail(P, f.chunk, g.state) =>
            f.pc = "respond" /\ f.lets = Lets(P, f.chunk, g.state)
  <2>1. DOMAIN g = Fields /\ p \in DOMAIN frame /\ c \in DOMAIN chunks
    BY <1>2 DEF IInv, Shape, IsFrame, Conversations, Histories
  <2>2. PICK chunk :
          /\ chunks' = [chunks EXCEPT ![c] = Append(@, chunk)]
          /\ frame' = [frame EXCEPT
                 ![p].pc = IF LetsFail(Program, chunk, frame[p].state) THEN "close" ELSE "respond",
                 ![p].chunk = chunk, ![p].waited = 0, ![p].k = 1,
                 ![p].lets = IF LetsFail(Program, chunk, frame[p].state) THEN <<>>
                             ELSE Lets(Program, chunk, frame[p].state)]
    BY DEF Read
  <2>3. s = Append(b, chunk)
    BY <1>2, <2>1, <2>2
  <2>4. f = [g EXCEPT
                 !.pc = IF LetsFail(P, chunk, g.state) THEN "close" ELSE "respond",
                 !.chunk = chunk, !.waited = 0, !.k = 1,
                 !.lets = IF LetsFail(P, chunk, g.state) THEN <<>> ELSE Lets(P, chunk, g.state)]
    BY <1>2, <2>1, <2>2
  <2>5. /\ f.chunk = chunk /\ f.conn = g.conn /\ f.state = g.state /\ f.steps = g.steps
        /\ f.k = 1 /\ f.pc = IF LetsFail(P, chunk, g.state) THEN "close" ELSE "respond"
        /\ f.lets = IF LetsFail(P, chunk, g.state) THEN <<>> ELSE Lets(P, chunk, g.state)
    BY <2>1, <2>4 DEF Fields
  <2>6. QED
    BY <1>1, <1>2, <2>3, <2>5
<1>4. Talks(p) /\ Talk(p) /\ Heard(c) /\ IsProgram(P)
  BY <1>1, <1>2, KindShape DEF Conversations, Talks, Works, IInv, Shape
<1>5. PICK run, gone : run = Conversation(P, b) /\ gone = Gone(c)
  OBVIOUS
<1>6. /\ Listed(b) /\ Listed(o) /\ Listed(run.pieces) /\ run.whole /\ run.state = g.state
      /\ Told(o, gone, run.pieces)
  BY <1>1, <1>2, <1>4, <1>5, HeardNow DEF Talk, Heard, Answering
<1>7. PICK next, chunk : next = Conversation(P, s) /\ chunk = f.chunk
  OBVIOUS
<1>8. next = Answer(P, run, chunk)
  BY <1>3, <1>5, <1>6, <1>7, ConversationGoesOn
<1>9. Listed(s) /\ Len(s) = Len(b) + 1 /\ Front(s) = b
  BY <1>3, <1>6, AppendListed, FrontOfAppend
<1>10. Listed(next.pieces)
  BY <1>4, <1>6, <1>8, AnswerSays
<1>11. ASSUME Kind = "multistep" PROVE Len(s) <= MaxSteps /\ Len(s) <= f.steps
  <2>1. Len(b) < g.steps
    BY <1>1, <1>2, <1>4, <1>11 DEF Talk
  <2>2. g.steps \in Nat /\ g.steps <= MaxSteps
    <3>1. p \in Kids
      BY <1>11, ListenerTalks DEF Conversations, Procs
    <3>2. Busy(p) /\ Lifetimes
      BY <1>11 DEF Works, Serves, IInv
    <3>3. QED
      BY <1>2, <3>1, <3>2 DEF Lifetimes, Child, IInv, Shape, IsFrame
  <2>3. Len(b) \in Nat
    BY <1>6, ListedShape
  <2>4. QED
    BY <1>3, <1>9, <2>1, <2>2, <2>3, TcpAssumption
<1>12. ASSUME LetsFail(P, chunk, g.state) PROVE Told(o, gone, next.pieces)
  BY <1>4, <1>6, <1>8, <1>12, LetsStop
<1>13. ASSUME NEW d \in Conns, frame[p].conn = d PROVE Heard(d)'
  <2>1. d = c /\ o = out'[c]
    BY <1>1, <1>2, <1>13
  <2>2. ~(frame'[p].conn = c /\ frame'[p].pc \in {"respond", "after"}) =>
          Told(o, Gone(c), Conversation(P, s).pieces)
    BY <1>2, <1>3, <1>5, <1>7, <1>12
  <2>3. Listed(Conversation(P, s).pieces)
    BY <1>7, <1>10
  <2>4. Conversation(P, Front(s)).whole
    BY <1>5, <1>6, <1>9
  <2>5. QED
    BY <1>1, <1>2, <1>6, <1>9, <1>11, <2>1, <2>2, <2>3, <2>4, HeardAfter
<1>14. ASSUME Talks(p)' PROVE Talk(p)'
  <2>1. f.pc \in {"close", "respond"} /\ o = out'[c]
    BY <1>1, <1>2, <1>3
  <2>2. ASSUME f.pc = "respond"
        PROVE  f.k \in 1..Len(P.response) /\ Middle(P, s, o, Gone(c), f, f.k - 1)
    <3>1. ~LetsFail(P, f.chunk, g.state) /\ f.lets = Lets(P, f.chunk, g.state)
      BY <1>3, <2>2
    <3>2. Middle(P, Append(b, f.chunk), o, gone, f, 0)
      BY <1>3, <1>4, <1>5, <1>6, <3>1, MiddleStarts
    <3>3. f.k = 1 /\ f.k - 1 = 0 /\ 1 \in 1..Len(P.response)
      BY <1>3, <1>4 DEF IsProgram
    <3>4. QED
      BY <1>3, <1>5, <3>2, <3>3
  <2>3. QED
    BY <1>1, <1>2, <1>11, <1>14, <2>1, <2>2, TalkAfter
<1>15. p = Listener => frame'[p].pc \in {"accept", "read", "respond", "close", "dead"}
                       /\ frame'[p].state = frame[p].state
  BY <1>2, <1>3
<1>16. QED
  BY <1>13, <1>14, <1>15 DEF Here

\* A check that fails between two pieces: the client has those before it.
LEMMA AbortHere ==
    ASSUME IInv, Conversations, NEW p \in Procs, RespondAborts(p), Works(p)
    PROVE  Here(p)
<1>1. PICK c, P, s, o, g, f, gone :
        /\ c = frame[p].conn /\ P = Program /\ s = chunks[c] /\ o = out[c] /\ g = frame[p]
        /\ f = frame'[p] /\ gone = Gone(c)
  OBVIOUS
<1>2. /\ g.pc = "respond" /\ c # NoConn /\ Go(p, "close") /\ chunks' = chunks /\ out' = out
      /\ PieceFails(P.response[g.k], g.chunk, g.state)
  BY <1>1 DEF RespondAborts, Serving, At, CurrentPiece, history
<1>3. f.pc = "close" /\ f.conn = c /\ f.steps = g.steps /\ f.state = g.state
  BY <1>1, <1>2, GoFrame DEF IInv
<1>4. c \in Conns /\ Talks(p) /\ Talk(p) /\ Heard(c) /\ IsProgram(P)
  BY <1>1, <1>2, KindShape DEF Conversations, Talks, Works, IInv, Shape, IsFrame
<1>5. PICK n : n = g.k - 1
  OBVIOUS
<1>6. g.k \in 1..Len(P.response) /\ Middle(P, s, o, gone, g, n) /\ Listed(o)
  BY <1>1, <1>2, <1>4, <1>5 DEF Talk, Heard
<1>7. n \in Nat /\ n + 1 = g.k
  BY <1>4, <1>5, <1>6 DEF IsProgram
<1>8. PICK next : next = Conversation(P, s)
  OBVIOUS
<1>9. Told(o, gone, next.pieces)
  BY <1>2, <1>4, <1>6, <1>7, <1>8, MiddleEnds
<1>10. ASSUME NEW d \in Conns, frame[p].conn = d PROVE Heard(d)'
  <2>1. Told(out[d], Gone(d), Conversation(Program, chunks[d]).pieces)
    BY <1>1, <1>8, <1>9, <1>10
  <2>2. QED
    BY <1>2, <1>10, <2>1, HeardStill
<1>11. ASSUME Talks(p)' PROVE Talk(p)'
  <2>1. Kind = "multistep" => Len(s) <= f.steps
    BY <1>1, <1>3, <1>4 DEF Talk
  <2>2. s = chunks'[c] /\ o = out'[c]
    BY <1>1, <1>2
  <2>3. QED
    BY <1>1, <1>3, <1>11, <2>1, <2>2, TalkAfter
<1>12. QED
  BY <1>1, <1>3, <1>10, <1>11 DEF Here

\* The after: block leaves what the source program leaves.
LEMMA AfterHere ==
    ASSUME IInv, Conversations, NEW p \in Procs, AfterBlock(p), Works(p)
    PROVE  Here(p)
<1>1. PICK c, P, s, o, g, f, gone :
        /\ c = frame[p].conn /\ P = Program /\ s = chunks[c] /\ o = out[c] /\ g = frame[p]
        /\ f = frame'[p] /\ gone = Gone(c)
  OBVIOUS
<1>2. PICK run : run = RunSets(P.sets, g.chunk, g.state, g.lets)
  OBVIOUS
<1>3. g.pc = "after" /\ chunks' = chunks /\ out' = out
  BY <1>1 DEF AfterBlock, At, history
<1>4. /\ f.conn = c /\ f.steps = g.steps /\ f.state = run.state
      /\ f.pc = IF run.ok THEN "step" ELSE "close"
  <2>1. DOMAIN g = Fields /\ p \in DOMAIN frame
    BY <1>1 DEF IInv, Shape, IsFrame
  <2>2. f = [g EXCEPT !.pc = IF run.ok THEN "step" ELSE "close", !.state = run.state]
    BY <1>1, <1>2, <2>1 DEF AfterBlock
  <2>3. QED
    BY <1>1, <2>1, <2>2 DEF Fields
<1>5. p # Listener
  BY <1>1, <1>3, ListenerTalks DEF Conversations
<1>6. ASSUME c \in Conns
      PROVE  /\ Talks(p) /\ Talk(p) /\ Heard(c) /\ IsProgram(P)
             /\ Middle(P, s, o, gone, g, Len(P.response)) /\ Listed(o)
  <2>1. Talks(p) /\ Talk(p) /\ Heard(c) /\ IsProgram(P)
    BY <1>1, <1>6, KindShape DEF Conversations, Talks, Works, IInv, Shape, IsFrame
  <2>2. QED
    BY <1>1, <1>3, <2>1 DEF Talk, Heard
<1>7. PICK next : next = Conversation(P, s)
  OBVIOUS
<1>8. ASSUME c \in Conns
      PROVE  /\ Told(o, gone, next.pieces)
             /\ next.whole <=> ~SetsFail(P, g.chunk, g.state)
             /\ next.whole => next.state = Later(P, g.chunk, g.state)[Len(P.sets)]
  <2>1. PICK n \in Nat : n = Len(P.response) /\ ~(n < Len(P.response))
    BY <1>6, <1>8 DEF IsProgram
  <2>2. Middle(P, s, o, gone, g, n) /\ Listed(o) /\ IsProgram(P)
    BY <1>6, <1>8, <2>1
  <2>3. QED
    BY <1>7, <2>1, <2>2, MiddleEnds
<1>9. ASSUME c \in Conns, run.ok PROVE next.whole /\ next.state = f.state
  <2>1. g.lets = Lets(P, g.chunk, g.state) /\ IsProgram(P)
    BY <1>6, <1>9 DEF Middle
  <2>2. PICK block : block = RunSets(P.sets, g.chunk, g.state, Lets(P, g.chunk, g.state))
    OBVIOUS
  <2>3. /\ block.ok <=> ~SetsFail(P, g.chunk, g.state)
        /\ block.ok => block.state = Later(P, g.chunk, g.state)[Len(P.sets)]
    BY <2>1, <2>2, BlockFollowsSource
  <2>4. block = run
    BY <1>2, <2>1, <2>2
  <2>5. QED
    BY <1>4, <1>8, <1>9, <2>3, <2>4
<1>10. ASSUME NEW d \in Conns, frame[p].conn = d PROVE Heard(d)'
  <2>1. Told(out[d], Gone(d), Conversation(Program, chunks[d]).pieces)
    BY <1>1, <1>7, <1>8, <1>10
  <2>2. QED
    BY <1>3, <1>10, <2>1, HeardStill
<1>11. ASSUME Talks(p)' PROVE Talk(p)'
  <2>1. c \in Conns
    BY <1>1, <1>4, <1>11 DEF Talks
  <2>2. Kind = "multistep" => Len(s) <= f.steps
    BY <1>1, <1>4, <1>6, <2>1 DEF Talk
  <2>3. s = chunks'[c] /\ o = out'[c]
    BY <1>1, <1>3
  <2>4. f.pc = "close" \/ (f.pc = "step" /\ Conversation(P, s).whole
                                         /\ Conversation(P, s).state = f.state)
    BY <1>4, <1>7, <1>9, <2>1
  <2>5. QED
    BY <1>1, <1>11, <2>2, <2>3, <2>4, TalkAfter
<1>12. QED
  BY <1>5, <1>10, <1>11 DEF Here

\* A service that sets nothing leaves the state alone.
LEMMA NothingSet ==
    ASSUME NEW p, IsProgram(p), p.sets = <<>>, NEW chunk, NEW state
    PROVE  ~SetsFail(p, chunk, state) /\ Later(p, chunk, state)[Len(p.sets)] = state
<1>1. Len(p.sets) = 0 /\ DOMAIN p.sets = {}
  <2>1. Len(<<>>) = 0 /\ DOMAIN <<>> = {}
    OBVIOUS
  <2>2. QED
    BY <2>1
<1>2. Later(p, chunk, state)[0] = state
  BY LaterIs
<1>3. QED
  BY <1>1, <1>2 DEF SetsFail

\* One piece more; after the last one the process goes on where the source
\* program is, or has the after: block left to do.
LEMMA RespondHere ==
    ASSUME IInv, Conversations, NEW p \in Procs, Respond(p), Works(p)
    PROVE  Here(p)
<1>1. PICK c, P, s, o, o2, g, f, gone :
        /\ c = frame[p].conn /\ P = Program /\ s = chunks[c] /\ o = out[c] /\ o2 = out'[c]
        /\ g = frame[p] /\ f = frame'[p] /\ gone = Gone(c)
  OBVIOUS
<1>2. /\ g.pc = "respond" /\ c # NoConn /\ chunks' = chunks
      /\ ~PieceFails(P.response[g.k], g.chunk, g.state)
      /\ NextItem(p, Len(P.response), AfterResponse)
  BY <1>1 DEF Respond, Serving, At, CurrentPiece
<1>3. c \in Conns /\ Talks(p) /\ Talk(p) /\ Heard(c) /\ IsProgram(P)
  BY <1>1, <1>2, KindShape DEF Conversations, Talks, Works, IInv, Shape, IsFrame
<1>4. PICK n : n = g.k - 1
  OBVIOUS
<1>5. g.k \in 1..Len(P.response) /\ Middle(P, s, o, gone, g, n) /\ Listed(o) /\ Listed(s)
  BY <1>1, <1>2, <1>3, <1>4 DEF Talk, Heard
<1>6. PICK N \in Nat : N = Len(P.response)
  BY <1>3 DEF IsProgram
<1>7. n \in Nat /\ n + 1 = g.k /\ n < N /\ n + 1 \in 1..N
  BY <1>4, <1>5, <1>6
<1>8. \/ ~gone /\ o2 = Append(o, Piece(P.response[n + 1], g.chunk, g.state, g.lets))
      \/ gone /\ o2 = o
  <2>1. c \in DOMAIN out /\ peer \in [Conns -> {"active", "finished", "stopped", "gone"}]
    BY <1>3 DEF Conversations, Histories
  <2>2. \/ /\ peer[c] \in {"active", "finished"}
           /\ out' = [out EXCEPT ![c] = Append(@, Piece(P.response[g.k], g.chunk, g.state, g.lets))]
        \/ Gone(c) /\ out' = out
    BY <1>1 DEF Respond, CurrentPiece
  <2>3. peer[c] \in {"active", "finished"} => ~Gone(c)
    BY DEF Gone
  <2>4. QED
    BY <1>1, <1>7, <2>1, <2>2, <2>3
<1>9. Listed(o2)
  <2>1. PICK x : o2 = Append(o, x) \/ o2 = o
    BY <1>8
  <2>2. Listed(Append(o, x))
    BY <1>5, AppendListed
  <2>3. QED
    BY <1>5, <2>1, <2>2
<1>10. /\ f.conn = c /\ f.steps = g.steps /\ f.state = g.state
       /\ f.chunk = g.chunk /\ f.lets = g.lets
       /\ \/ g.k < N /\ f.pc = "respond" /\ f.k = g.k + 1
          \/ ~(g.k < N) /\ f.pc = AfterResponse
  <2>1. DOMAIN g = Fields /\ p \in DOMAIN frame
    BY <1>1 DEF IInv, Shape, IsFrame
  <2>2. CASE g.k < N
    <3>1. f = [g EXCEPT !.k = @ + 1]
      BY <1>1, <1>2, <1>6, <2>1, <2>2 DEF NextItem
    <3>2. QED
      BY <1>1, <1>2, <2>1, <2>2, <3>1 DEF Fields
  <2>3. CASE ~(g.k < N)
    <3>1. Go(p, AfterResponse)
      BY <1>1, <1>2, <1>6, <2>3 DEF NextItem
    <3>2. QED
      BY <1>1, <2>3, <3>1, GoFrame DEF IInv
  <2>4. QED
    BY <2>2, <2>3
<1>11. Middle(P, s, o2, gone, f, n + 1)
  <2>1. n < Len(P.response) /\ ~PieceFails(P.response[n + 1], g.chunk, g.state)
    BY <1>2, <1>6, <1>7
  <2>2. QED
    BY <1>3, <1>5, <1>7, <1>8, <1>10, <2>1, MiddleGoes
<1>12. /\ AfterResponse \in {"read", "close", "step", "after"}
       /\ AfterResponse # "after" => P.sets = <<>>
       /\ Kind # "multistep" => AfterResponse \in {"read", "close"}
       /\ Kind = "multistep" => AfterResponse \in {"step", "after"}
  <2>1. Kind \in {"echo", "oneshot", "multistep"} /\ (Kind # "multistep" => P.sets = <<>>)
    BY <1>1, KindShape DEF IInv, Shape
  <2>2. CASE Kind = "multistep"
    <3>1. AfterResponse = IF Program.sets = <<>> THEN "step" ELSE "after"
      BY <2>2 DEF AfterResponse
    <3>2. QED
      BY <1>1, <2>2, <3>1
  <2>3. CASE Kind # "multistep"
    <3>1. AfterResponse = IF Kind = "echo" THEN "read" ELSE "close"
      BY <2>1, <2>3 DEF AfterResponse
    <3>2. QED
      BY <2>1, <2>3, <3>1
  <2>4. QED
    BY <2>2, <2>3
<1>13. PICK next : next = Conversation(P, s)
  OBVIOUS
<1>14. ASSUME f.pc \notin {"respond", "after"}
       PROVE  Told(o2, gone, next.pieces) /\ next.whole /\ next.state = f.state
  <2>1. n + 1 = N /\ n + 1 \in Nat /\ P.sets = <<>>
    BY <1>7, <1>10, <1>12, <1>14
  <2>2. PICK m \in Nat : m = n + 1 /\ m = Len(P.response) /\ ~(m < Len(P.response))
    BY <1>6, <2>1
  <2>3. Middle(P, s, o2, gone, f, m)
    BY <1>11, <2>2
  <2>4. /\ Told(o2, gone, next.pieces)
        /\ next.whole <=> ~SetsFail(P, f.chunk, f.state)
        /\ next.whole => next.state = Later(P, f.chunk, f.state)[Len(P.sets)]
    BY <1>3, <1>9, <1>13, <2>2, <2>3, MiddleEnds
  <2>5. ~SetsFail(P, f.chunk, f.state) /\ Later(P, f.chunk, f.state)[Len(P.sets)] = f.state
    BY <1>3, <2>1, NothingSet
  <2>6. QED
    BY <2>4, <2>5
<1>15. ASSUME NEW d \in Conns, frame[p].conn = d PROVE Heard(d)'
  <2>1. d = c /\ s = chunks'[c]
    BY <1>1, <1>2, <1>15
  <2>2. ~(frame'[p].conn = c /\ frame'[p].pc \in {"respond", "after"}) =>
          Told(o2, Gone(c), Conversation(P, s).pieces)
    BY <1>1, <1>10, <1>13, <1>14
  <2>3. /\ Listed(Conversation(P, s).pieces)
        /\ (Len(s) > 0 => Conversation(P, Front(s)).whole)
        /\ (Kind = "multistep" => Len(s) <= MaxSteps)
    BY <1>1, <1>3 DEF Heard
  <2>4. QED
    BY <1>1, <1>5, <1>9, <1>15, <2>1, <2>2, <2>3, HeardAfter
<1>16. ASSUME Talks(p)' PROVE Talk(p)'
  <2>1. s = chunks'[c]
    BY <1>1, <1>2
  <2>2. Kind = "multistep" => Len(s) <= f.steps /\ f.pc # "read"
    BY <1>1, <1>3, <1>10, <1>12 DEF Talk
  <2>3. f.pc \in {"step", "read"} =>
          Conversation(P, s).whole /\ Conversation(P, s).state = f.state
    BY <1>13, <1>14
  <2>4. ASSUME f.pc = "respond"
        PROVE  f.k \in 1..Len(P.response) /\ Middle(P, s, o2, Gone(c), f, f.k - 1)
    <3>1. g.k < N /\ f.k = g.k + 1
      BY <1>10, <1>12, <2>4
    <3>2. f.k \in 1..N /\ f.k - 1 = n + 1
      BY <1>5, <1>6, <1>7, <3>1
    <3>3. QED
      BY <1>1, <1>6, <1>11, <3>2
  <2>5. ASSUME f.pc = "after" PROVE Middle(P, s, o2, Gone(c), f, Len(P.response))
    <3>1. n + 1 = N
      BY <1>7, <1>10, <2>5
    <3>2. QED
      BY <1>1, <1>6, <1>11, <3>1
  <2>6. QED
    BY <1>1, <1>16, <2>1, <2>2, <2>3, <2>4, <2>5, TalkAfter
<1>17. p = Listener => frame'[p].pc \in {"accept", "read", "respond", "close", "dead"}
                       /\ frame'[p].state = frame[p].state
  <2>1. p = Listener => Kind # "multistep"
    BY ListenerTalks DEF Conversations
  <2>2. QED
    BY <1>1, <1>10, <1>12, <2>1
<1>18. QED
  BY <1>15, <1>16, <1>17 DEF Here

\* The process that serves keeps the conversations.
LEMMA ServeTalks ==
    ASSUME IInv, Conversations, NEW p \in Procs, Serve(p)
    PROVE  Conversations'
<1>1. Works(p)
  BY ServeWorks DEF Conversations
<1>2. Here(p)
  BY <1>1, StepTopHere, ReadHere, ReadFailsHere, RespondHere, AbortHere, CloseHere, AfterHere
  DEF Serve
<1>3. Listens'
  BY <1>1, <1>2, ListensAfter DEF Here
<1>4. Histories'
  BY <1>1 DEF Works, Conversations, Histories
<1>5. ASSUME NEW q \in Procs, Talks(q)' PROVE Talk(q)'
  BY <1>1, <1>2, <1>5, TalkElsewhere DEF Here
<1>6. ASSUME NEW d \in Conns PROVE Heard(d)'
  BY <1>1, <1>2, <1>6, HeardElsewhere DEF Here
<1>7. QED
  BY <1>3, <1>4, <1>5, <1>6 DEF Conversations

-----------------------------------------------------------------------------
(* The listener, the clients, and time. *)

\* Nothing but a wait, or a client: the conversations stay.
LEMMA StillTalks ==
    ASSUME Shape, Conversations, Histories', chunks' = chunks, out' = out,
           declared' = declared, holders' = holders,
           \A c \in Conns : /\ Gone(c) => Gone(c)'
                            /\ phase[c] = "accepted" => phase'[c] = "accepted"
                            /\ phase'[c] # "accepted" => phase[c] # "accepted",
           \A q \in Procs : /\ frame'[q].pc = frame[q].pc /\ frame'[q].conn = frame[q].conn
                            /\ frame'[q].steps = frame[q].steps /\ frame'[q].k = frame[q].k
                            /\ frame'[q].chunk = frame[q].chunk /\ frame'[q].state = frame[q].state
                            /\ frame'[q].lets = frame[q].lets
    PROVE  Conversations'
<1>1. Kind' = Kind /\ Program' = Program /\ Listener \in Procs
  BY DEF Kind, Program, Procs
<1>2. Listens'
  BY <1>1 DEF Listens, Conversations, Procs
<1>3. ASSUME NEW q \in Procs, Talks(q)' PROVE Talk(q)'
  <2>1. PICK c, P, s, o, f, g : c = frame[q].conn /\ P = Program /\ s = chunks[c] /\ o = out[c]
                                /\ g = frame[q] /\ f = frame'[q]
    OBVIOUS
  <2>2. Talks(q) /\ Talk(q) /\ c \in Conns
    BY <1>3, <2>1 DEF Conversations, Talks
  <2>3. PICK gone, gone2 : gone = Gone(c) /\ gone2 = Gone(c)' /\ (gone => gone2)
    BY <2>2
  <2>4. ASSUME NEW n, Middle(P, s, o, gone, g, n) PROVE Middle(P, s, o, gone2, f, n)
    <3>1. f.chunk = g.chunk /\ f.state = g.state /\ f.lets = g.lets
      BY <2>1
    <3>2. gone => gone2
      BY <2>3
    <3>3. QED
      BY <2>4, <3>1, <3>2 DEF Middle, Told
  <2>5. /\ q \in holders'[c] /\ phase'[c] = "accepted" /\ f.conn = c
        /\ Kind = "multistep" => Len(s) <= f.steps /\ (f.pc = "read" => Len(s) < f.steps)
        /\ f.pc \in {"step", "read"} =>
              Conversation(P, s).whole /\ Conversation(P, s).state = f.state
        /\ f.pc = "respond" => f.k \in 1..Len(P.response) /\ Middle(P, s, o, gone2, f, f.k - 1)
        /\ f.pc = "after" => Middle(P, s, o, gone2, f, Len(P.response))
    BY <2>1, <2>2, <2>3, <2>4 DEF Talk
  <2>6. QED
    BY <1>1, <2>1, <2>3, <2>5 DEF Talk
<1>4. ASSUME NEW c \in Conns PROVE Heard(c)'
  <2>1. Heard(c)
    BY DEF Conversations
  <2>2. (\A q \in Procs : frame'[q].conn = c => ~Answering(q)') =>
          \A q \in Procs : frame[q].conn = c => ~Answering(q)
    BY DEF Answering
  <2>3. QED
    BY <1>1, <2>1, <2>2 DEF Heard, Told
<1>5. QED
  BY <1>2, <1>3, <1>4 DEF Conversations

LEMMA TickTalks ==
    ASSUME IInv, Conversations, NEW p \in Procs, NEW c \in Conns, Tick(p, c)
    PROVE  Conversations'
<1>1. /\ chunks' = chunks /\ out' = out /\ declared' = declared /\ holders' = holders
      /\ phase' = phase /\ peer' = peer
  BY DEF Tick, client
<1>2. ASSUME NEW q \in Procs
      PROVE  /\ frame'[q].pc = frame[q].pc /\ frame'[q].conn = frame[q].conn
             /\ frame'[q].steps = frame[q].steps /\ frame'[q].k = frame[q].k
             /\ frame'[q].chunk = frame[q].chunk /\ frame'[q].state = frame[q].state
             /\ frame'[q].lets = frame[q].lets
  <2>1. DOMAIN frame[q] = Fields /\ DOMAIN frame = Procs
    BY DEF IInv, Shape, IsFrame
  <2>2. frame'[q] = frame[q] \/ frame'[q] = [frame[q] EXCEPT !.waited = @ + 1]
    BY <2>1 DEF Tick
  <2>3. QED
    BY <2>1, <2>2 DEF Fields
<1>3. Histories'
  BY <1>1 DEF Histories, Conversations
<1>4. QED
  BY <1>1, <1>2, <1>3, StillTalks DEF Gone, IInv

LEMMA ClientTalks ==
    ASSUME IInv, Conversations, NEW c \in Conns, ClientStep(c)
    PROVE  Conversations'
<1>1. /\ UNCHANGED <<declared, frame, holders, chunks, out>>
      /\ phase' = phase \/ (phase[c] = "new" /\ phase' = [phase EXCEPT ![c] = "queued"])
  BY DEF ClientStep, Connect, Finish, StopReading, Reset, Turn, Send, history
<1>2. \/ peer' = peer
      \/ /\ ~Gone(c)
         /\ \E to \in {"finished", "stopped", "gone"} : peer' = [peer EXCEPT ![c] = to]
  BY DEF ClientStep, Connect, Finish, StopReading, Reset, Turn, Send, Connected
<1>3. peer \in [Conns -> {"active", "finished", "stopped", "gone"}]
      /\ phase \in [Conns -> {"new", "queued", "accepted"}]
  BY DEF Conversations, Histories, IInv, Shape
<1>4. Histories'
  BY <1>1, <1>2, <1>3 DEF Histories, Conversations
<1>5. \A d \in Conns : /\ Gone(d) => Gone(d)'
                       /\ phase[d] = "accepted" => phase'[d] = "accepted"
                       /\ phase'[d] # "accepted" => phase[d] # "accepted"
  BY <1>1, <1>2, <1>3 DEF Gone
<1>6. QED
  BY <1>1, <1>4, <1>5, StillTalks DEF IInv

\* The listener is not in a conversation before and after it takes a client.
LEMMA AcceptTalks ==
    ASSUME IInv, Conversations, (\E c \in Conns : Accept(c)) \/ AcceptFails
    PROVE  Conversations'
<1>1. Shape /\ Listener \in Procs /\ (Kind = "multistep" => Lifetimes) /\ Listens
  BY DEF IInv, Procs, Conversations
<1>2. PICK d \in Conns \cup {NoConn} :
         frame' = [frame EXCEPT ![Listener].pc = Entry, ![Listener].conn = d]
         /\ IF d = NoConn THEN UNCHANGED <<phase, holders>>
            ELSE /\ phase[d] = "queued" /\ phase' = [phase EXCEPT ![d] = "accepted"]
                 /\ holders' = [holders EXCEPT ![d] = {Listener}]
  BY TcpAssumption DEF Accept, AcceptFails, client
<1>3. /\ frame[Listener].pc = "accept"
      /\ UNCHANGED <<declared, peer, chunks, out>>
  BY DEF Accept, AcceptFails, At, history, client
<1>4. /\ Others(Listener) /\ frame'[Listener].pc = Entry /\ frame'[Listener].conn = d
      /\ frame'[Listener].state = frame[Listener].state
  BY <1>1, <1>2 DEF Shape, IsFrame, Others, Fields
<1>5. Kind' = Kind /\ Program' = Program
  BY <1>3 DEF Kind, Program
<1>6. Entry \in {"fork", "read"} /\ (Kind = "multistep" <=> Entry = "fork")
  BY DEF Entry
<1>7. d \in Conns => phase[d] = "queued" /\ chunks[d] = <<>>
  BY <1>2, TcpAssumption DEF Conversations, Heard
<1>8. Histories'
  BY <1>3 DEF Histories, Conversations
<1>9. Listens'
  <2>1. \A q \in Kids : frame'[q] = frame[q]
    BY <1>4, TcpAssumption DEF Others, Procs
  <2>2. QED
    BY <1>1, <1>3, <1>4, <1>5, <1>6, <1>7, <2>1 DEF Listens
<1>10. ASSUME NEW q \in Procs, Talks(q)' PROVE Talk(q)'
  <2>1. CASE q = Listener
    <3>1. Kind # "multistep" /\ Entry = "read" /\ d \in Conns
      BY <1>4, <1>6, <1>10, <2>1 DEF Talks, InStep
    <3>2. phase'[d] = "accepted" /\ q \in holders'[d]
      BY <1>1, <1>2, <2>1, <3>1, TcpAssumption DEF Shape
    <3>3. PICK P : P = Program
      OBVIOUS
    <3>4. Conversation(P, <<>>).whole /\ Conversation(P, <<>>).state = Initial
      <4>1. Conversation(P, <<>>) = Nothing
        BY ConversationStarts
      <4>2. QED
        BY <4>1 DEF Nothing
    <3>5. frame'[q].state = Initial /\ frame'[q].pc = "read" /\ frame'[q].conn = d
      BY <1>1, <1>4, <2>1, <3>1 DEF Listens
    <3>6. chunks'[d] = <<>>
      BY <1>3, <1>7, <3>1
    <3>7. QED
      BY <1>5, <3>1, <3>2, <3>3, <3>4, <3>5, <3>6 DEF Talk
  <2>2. CASE q # Listener
    <3>1. PICK c : c = frame[q].conn
      OBVIOUS
    <3>2. frame'[q] = frame[q] /\ Talks(q) /\ Talk(q) /\ c \in Conns
      BY <1>4, <1>10, <2>2, <3>1 DEF Others, Talks, Conversations
    <3>3. phase[c] = "accepted" /\ c # d
      BY <1>7, <3>1, <3>2 DEF Talk
    <3>4. phase'[c] = "accepted" /\ holders'[c] = holders[c]
      BY <1>1, <1>2, <3>2, <3>3 DEF Shape
    <3>5. QED
      BY <1>3, <1>5, <3>1, <3>2, <3>3, <3>4 DEF Talk, Gone
  <2>3. QED
    BY <2>1, <2>2
<1>11. ASSUME NEW c \in Conns PROVE Heard(c)'
  <2>1. Heard(c)
    BY DEF Conversations
  <2>2. (\A q \in Procs : frame'[q].conn = c => ~Answering(q)') =>
          \A q \in Procs : frame[q].conn = c => ~Answering(q)
    BY <1>3, <1>4 DEF Answering, Others
  <2>3. phase'[c] # "accepted" => phase[c] # "accepted"
    BY <1>1, <1>2 DEF Shape
  <2>4. QED
    BY <1>3, <1>5, <2>1, <2>2, <2>3 DEF Heard, Gone
<1>12. QED
  BY <1>8, <1>9, <1>10, <1>11 DEF Conversations

\* A child begins a conversation of which nothing has been read.
LEMMA ForkTalks ==
    ASSUME IInv, Conversations, NEW p \in Kids, Fork(p)
    PROVE  Conversations'
<1>1. /\ Shape /\ Listener \in Procs /\ p \in Procs /\ p # Listener /\ Listens
      /\ (Kind = "multistep" => Lifetimes)
  BY TcpAssumption DEF IInv, Procs, Conversations
<1>2. PICK d : d = frame[Listener].conn
  OBVIOUS
<1>3. /\ frame[Listener].pc = "fork" /\ frame[p].pc = "free" /\ d \in Conns
      /\ UNCHANGED <<declared, phase, peer, chunks, out>>
      /\ holders' = [holders EXCEPT ![d] = @ \cup {p}]
  BY <1>1, <1>2 DEF Fork, At, Shape, IsFrame, client, history
<1>4. Kind = "multistep" /\ phase[d] = "accepted" /\ chunks[d] = <<>> /\ frame[Listener].state = Initial
  <2>1. Kind = "multistep"
    BY <1>1, <1>3 DEF Listens
  <2>2. QED
    BY <1>1, <1>2, <1>3, <2>1, TcpAssumption DEF Listens, Lifetimes
<1>5. /\ \A q \in Procs : q # p /\ q # Listener => frame'[q] = frame[q]
      /\ frame'[p] = [frame[Listener] EXCEPT !.pc = "step", !.steps = 0]
      /\ frame'[Listener] = [frame[Listener] EXCEPT !.pc = "drop"]
  BY <1>1 DEF Fork, Shape
<1>6. /\ frame'[p].pc = "step" /\ frame'[p].steps = 0 /\ frame'[p].conn = d
      /\ frame'[p].state = Initial
      /\ frame'[Listener].pc = "drop" /\ frame'[Listener].conn = d
      /\ frame'[Listener].state = Initial
  BY <1>1, <1>2, <1>4, <1>5 DEF Shape, IsFrame, Fields
<1>7. Kind' = Kind /\ Program' = Program
  BY <1>3 DEF Kind, Program
<1>8. Histories'
  BY <1>3 DEF Histories, Conversations
<1>9. Listens'
  BY <1>4, <1>6, <1>7 DEF Listens
<1>10. ASSUME NEW q \in Procs, Talks(q)' PROVE Talk(q)'
  <2>1. CASE q = p
    <3>1. phase'[d] = "accepted" /\ q \in holders'[d] /\ chunks'[d] = <<>>
      BY <1>1, <1>3, <1>4, <2>1 DEF Shape
    <3>2. PICK P : P = Program
      OBVIOUS
    <3>3. Conversation(P, <<>>).whole /\ Conversation(P, <<>>).state = Initial
      <4>1. Conversation(P, <<>>) = Nothing
        BY ConversationStarts
      <4>2. QED
        BY <4>1 DEF Nothing
    <3>4. Len(<<>>) = 0
      OBVIOUS
    <3>5. QED
      BY <1>6, <1>7, <2>1, <3>1, <3>2, <3>3, <3>4 DEF Talk
  <2>2. CASE q # p
    <3>1. q # Listener
      BY <1>6, <1>10 DEF Talks, InStep
    <3>2. PICK c : c = frame[q].conn
      OBVIOUS
    <3>3. frame'[q] = frame[q] /\ Talks(q) /\ Talk(q) /\ c \in Conns
      BY <1>5, <1>10, <2>2, <3>1, <3>2 DEF Talks, Conversations
    <3>4. q \in holders[c] => q \in holders'[c]
      BY <1>1, <1>3, <3>3 DEF Shape
    <3>5. QED
      BY <1>3, <1>7, <3>2, <3>3, <3>4 DEF Talk, Gone
  <2>3. QED
    BY <2>1, <2>2
<1>11. ASSUME NEW c \in Conns PROVE Heard(c)'
  <2>1. Heard(c)
    BY DEF Conversations
  <2>2. (\A q \in Procs : frame'[q].conn = c => ~Answering(q)') =>
          \A q \in Procs : frame[q].conn = c => ~Answering(q)
    BY <1>3, <1>5 DEF Answering
  <2>3. QED
    BY <1>3, <1>7, <2>1, <2>2 DEF Heard, Gone
<1>12. QED
  BY <1>8, <1>9, <1>10, <1>11 DEF Conversations

\* The listener is not in a conversation either when it lets go of one.
LEMMA DropTalks ==
    ASSUME IInv, Conversations, ForkErrno \/ ForkFails \/ ParentClose
    PROVE  Conversations'
<1>1. /\ Shape /\ NoDescriptorLeak /\ Listener \in Procs /\ Listens
  BY DEF IInv, Procs, Conversations
<1>2. UNCHANGED <<declared, phase, peer, chunks, out>>
  BY DEF ForkErrno, ForkFails, ParentClose, client, history
<1>3. \/ /\ frame[Listener].pc = "fork" /\ holders' = holders /\ Go(Listener, "drop")
      \/ /\ frame[Listener].pc = "drop" /\ CloseSlot(Listener) /\ Go(Listener, "accept")
  BY DEF ForkErrno, ForkFails, ParentClose, At
<1>4. /\ Others(Listener) /\ frame'[Listener].conn = frame[Listener].conn
      /\ frame'[Listener].state = frame[Listener].state
      /\ frame'[Listener].pc \in {"drop", "accept"}
      /\ \A c \in Conns : holders'[c] \in {holders[c], holders[c] \ {Listener}}
  BY <1>1, <1>3, GoMoves, GoFrame, SlotCloses DEF Positions
<1>5. Kind' = Kind /\ Program' = Program
  BY <1>2 DEF Kind, Program
<1>6. Kind = "multistep"
  BY <1>1, <1>3 DEF Listens
<1>7. Histories'
  BY <1>2 DEF Histories, Conversations
<1>8. Listens'
  BY <1>1, <1>4, <1>5, <1>6 DEF Listens
<1>9. ASSUME NEW q \in Procs, Talks(q)' PROVE Talk(q)'
  <2>1. q # Listener
    BY <1>4, <1>9 DEF Talks, InStep
  <2>2. PICK c : c = frame[q].conn
    OBVIOUS
  <2>3. frame'[q] = frame[q] /\ Talks(q) /\ Talk(q) /\ c \in Conns
    BY <1>4, <1>9, <2>1, <2>2 DEF Others, Talks, Conversations
  <2>4. q \in holders[c] => q \in holders'[c]
    BY <1>4, <2>1, <2>3
  <2>5. QED
    BY <1>2, <1>5, <2>2, <2>3, <2>4 DEF Talk, Gone
<1>10. ASSUME NEW c \in Conns PROVE Heard(c)'
  <2>1. Heard(c)
    BY DEF Conversations
  <2>2. (\A q \in Procs : frame'[q].conn = c => ~Answering(q)') =>
          \A q \in Procs : frame[q].conn = c => ~Answering(q)
    BY <1>3, <1>4 DEF Answering, Others
  <2>3. QED
    BY <1>2, <1>5, <2>1, <2>2 DEF Heard, Gone
<1>11. QED
  BY <1>7, <1>8, <1>9, <1>10 DEF Conversations

LEMMA InitTalks == Init => Conversations
<1> SUFFICES ASSUME Init PROVE Conversations
  OBVIOUS
<1>1. \A q \in Procs : frame[q] = [Blank EXCEPT !.pc = "accept"] \/ frame[q] = Blank
  BY DEF Init
<1>2. \A q \in Procs : frame[q].pc \in {"accept", "free"} /\ frame[q].conn = NoConn
  BY <1>1 DEF Blank
<1>3. frame[Listener].pc = "accept" /\ frame[Listener].state = Initial
  <2>1. frame[Listener] = [Blank EXCEPT !.pc = "accept"]
    BY DEF Init, Procs
  <2>2. QED
    BY <2>1 DEF Blank
<1>4. \A q \in Kids : frame[q].pc = "free"
  <2>1. \A q \in Kids : frame[q] = Blank
    BY TcpAssumption DEF Init, Procs
  <2>2. QED
    BY <2>1 DEF Blank
<1>5. Listens
  BY <1>3, <1>4 DEF Listens
<1>6. Histories
  BY DEF Init, Histories
<1>7. \A q \in Procs : ~Talks(q)
  BY <1>2 DEF Talks, InStep
<1>8. ASSUME NEW c \in Conns PROVE Heard(c)
  <2>1. PICK P, s, o : P = Program /\ s = chunks[c] /\ o = out[c]
    OBVIOUS
  <2>2. s = <<>> /\ o = <<>>
    BY <2>1 DEF Init
  <2>3. Conversation(P, s).pieces = <<>>
    <3>1. Conversation(P, s) = Nothing
      BY <2>2, ConversationStarts
    <3>2. QED
      BY <3>1 DEF Nothing
  <2>4. Listed(<<>>) /\ Len(<<>>) = 0
    <3>1. <<>> \in Seq({})
      OBVIOUS
    <3>2. QED
      BY <3>1 DEF Listed
  <2>5. Told(o, Gone(c), <<>>)
    BY <2>2, <2>4 DEF Told, Begins
  <2>6. 0 <= MaxSteps
    BY TcpAssumption
  <2>7. QED
    BY <2>1, <2>2, <2>3, <2>4, <2>5, <2>6 DEF Heard
<1>9. QED
  BY <1>5, <1>6, <1>7, <1>8 DEF Conversations

\* Whatever happens next, the conversations follow the source program.
LEMMA StepTalks ==
    ASSUME IInv, Conversations, [Next]_vars
    PROVE  Conversations'
<1>1. CASE UNCHANGED vars
  <2>1. /\ chunks' = chunks /\ out' = out /\ declared' = declared /\ holders' = holders
        /\ phase' = phase /\ peer' = peer /\ frame' = frame
    BY <1>1 DEF vars, client, history
  <2>2. Histories'
    BY <2>1 DEF Histories, Conversations
  <2>3. QED
    BY <2>1, <2>2, StillTalks DEF Gone, IInv
<1>2. CASE Next
  BY <1>2, AcceptTalks, ForkTalks, DropTalks, ServeTalks, TickTalks, ClientTalks
  DEF Next, Dispatch
<1>3. QED
  BY <1>1, <1>2

\* An answer under way is a beginning, and its process has the connection open.
LEMMA AnswerBegins ==
    ASSUME IInv, Conversations, NEW q \in Procs, Answering(q),
           NEW c \in Conns, c = frame[q].conn,
           NEW next, next = Conversation(Program, chunks[c])
    PROVE  Begins(out[c], next.pieces) /\ holders[c] # {}
<1>1. PICK P, s, o, f, gone : P = Program /\ s = chunks[c] /\ o = out[c] /\ f = frame[q]
                              /\ gone = Gone(c)
  OBVIOUS
<1>2. Talks(q) /\ Talk(q) /\ Heard(c) /\ IsProgram(P)
  BY <1>1, KindShape DEF Conversations, Talks, Answering, InStep, IInv, Shape
<1>3. Listed(o) /\ q \in holders[c]
  BY <1>1, <1>2 DEF Heard, Talk
<1>4. PICK n : n = IF f.pc = "respond" THEN f.k - 1 ELSE Len(P.response)
  OBVIOUS
<1>5. Middle(P, s, o, gone, f, n)
  <2>1. CASE f.pc = "respond"
    BY <1>1, <1>2, <1>4, <2>1 DEF Talk
  <2>2. CASE f.pc = "after"
    BY <1>1, <1>2, <1>4, <2>2 DEF Talk
  <2>3. QED
    BY <1>1, <2>1, <2>2 DEF Answering
<1>6. n \in Nat
  <2>1. n \in 0..Len(P.response)
    BY <1>5 DEF Middle
  <2>2. QED
    BY <1>2, <2>1 DEF IsProgram
<1>7. Begins(o, next.pieces)
  <2>1. next = Conversation(P, s)
    BY <1>1
  <2>2. QED
    BY <1>2, <1>3, <1>5, <1>6, <2>1, MiddleEnds
<1>8. QED
  BY <1>1, <1>3, <1>7

LEMMA ConversationsFollow ==
    ASSUME IInv, Conversations
    PROVE  ConversationFollowsSource
<1>1. ASSUME NEW c \in Conns,
             NEW P, P = Program, NEW s, s = chunks[c], NEW o, o = out[c],
             NEW run, run = Conversation(P, s)
      PROVE  /\ IsPrefix(o, run.pieces)
             /\ Len(s) > 1 => Conversation(P, Front(s)).whole
             /\ phase[c] = "accepted" /\ holders[c] = {} /\ ~Gone(c) => o = run.pieces
             /\ declared.max_steps => Len(s) <= MaxSteps
  <2>1. Heard(c)
    BY <1>1 DEF Conversations
  <2>2. /\ Listed(s) /\ Listed(o) /\ Listed(run.pieces)
        /\ (Len(s) > 0 => Conversation(P, Front(s)).whole)
        /\ (Kind = "multistep" => Len(s) <= MaxSteps)
    BY <1>1, <2>1 DEF Heard
  <2>3. Told(o, Gone(c), run.pieces) \/ (Begins(o, run.pieces) /\ holders[c] # {})
    <3>1. CASE \A q \in Procs : frame[q].conn = c => ~Answering(q)
      BY <1>1, <2>1, <3>1 DEF Heard
    <3>2. CASE \E q \in Procs : frame[q].conn = c /\ Answering(q)
      BY <1>1, <3>2, AnswerBegins
    <3>3. QED
      BY <3>1, <3>2
  <2>4. IsPrefix(o, run.pieces)
    <3>1. PICK t : t = run.pieces
      OBVIOUS
    <3>2. Listed(t) /\ Begins(o, t)
      BY <2>2, <2>3, <3>1 DEF Told
    <3>3. QED
      BY <2>2, <3>1, <3>2, BeginsIsPrefix
  <2>5. ASSUME holders[c] = {}, ~Gone(c) PROVE o = run.pieces
    <3>1. PICK t : t = run.pieces
      OBVIOUS
    <3>2. Listed(t) /\ Begins(o, t) /\ Len(o) = Len(t)
      BY <2>2, <2>3, <2>5, <3>1 DEF Told
    <3>3. o = t
      BY <2>2, <3>2, SameElements DEF Begins
    <3>4. QED
      BY <3>1, <3>3
  <2>6. ASSUME declared.max_steps PROVE Len(s) <= MaxSteps
    <3>1. Kind = "multistep"
      BY <2>6, KindShape DEF IInv, Shape
    <3>2. QED
      BY <2>2, <3>1
  <2>7. Len(s) > 1 => Len(s) > 0
    BY <2>2, ListedShape
  <2>8. QED
    BY <2>2, <2>4, <2>5, <2>6, <2>7
<1>2. QED
  BY <1>1 DEF ConversationFollowsSource

\* What a client receives is what the source program answers to the chunks of this
\* connection alone, whichever reads, checks, forks and clients failed.
THEOREM ConversationExact == Spec => []ConversationFollowsSource
<1>1. IInv /\ Conversations /\ [Next]_vars => Conversations'
  BY StepTalks
<1>2. IInv /\ Conversations => ConversationFollowsSource
  BY ConversationsFollow
<1>3. QED
  BY <1>1, <1>2, InitTalks, Invariant, PTL DEF Spec

=============================================================================

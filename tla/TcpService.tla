----------------------------- MODULE TcpService -----------------------------
(***************************************************************************)
(* A raw TCP service (src/native.rs): compile_service picks one of three    *)
(* programs for a declaration, or refuses it,                               *)
(*                                                                         *)
(*   echo       read, write back, until read returns 0 or an error;         *)
(*   oneshot    read one chunk, stream the response, close;                 *)
(*   multistep  fork per accept; the child sets a receive timeout and       *)
(*              repeats read, response, `after:` sets, at most MaxSteps     *)
(*              times, then closes and exits.                               *)
(*                                                                         *)
(* The first two are served by the listener itself.  No write is checked:   *)
(* an error is ignored, and a write to a connection that was reset can      *)
(* deliver SIGPIPE, whose default action ends the writing process.  A       *)
(* failed accept leaves an errno in the client's slot and goes on.          *)
(*                                                                         *)
(* The clients and the kernel are the environment.  A `frame` is what a     *)
(* process keeps in its stack frame; fork copies it.                        *)
(***************************************************************************)
EXTENDS Integers, Sequences, SequencesExt

CONSTANTS
    Conns,        \* client connections
    Kids,         \* process slots for children
    Bytes,        \* byte values
    MaxBytes,     \* bound: bytes each client sends
    Moody,        \* connections whose client may shut down, reset or stop reading
    Offered,      \* service declarations that are compiled
    MaxRequest,   \* max_request
    MaxSteps,     \* max_steps
    ReadTimeout,  \* read_timeout, in ticks
    NoConn,       \* the client slot after a failed accept
    Initial,      \* initial value of each state field
    Stateful,     \* handler of a service with state: [lets, response, sets]
    Stateless     \* handler of a service without

Listener == "listener"
Procs == Kids \cup {Listener}

VARIABLES
    declared,  \* the service declaration
    frame,     \* per process: position, client slot, step counter, chunk, state
    phase,     \* per connection: "new", "queued" or "accepted"
    holders,   \* per connection: the processes with an open descriptor
    inbox,     \* per connection: bytes sent and not read yet
    sent,      \* per connection: how many bytes the client sent
    peer,      \* per connection: the client is "active", "finished" sending, "stopped"
               \* reading for good, or "gone" with a reset
    chunks,    \* history: chunks read from a connection
    out,       \* history: response pieces written to it
    waits      \* history: ticks spent waiting in its reads

client == <<phase, inbox, sent, peer>>
history == <<chunks, out, waits>>
vars == <<declared, frame, client, holders, history>>

-----------------------------------------------------------------------------
(* Which program a declaration compiles to.                                 *)

Declarations == [identity : BOOLEAN, max_steps : BOOLEAN, read_timeout : BOOLEAN,
                 state : BOOLEAN, concurrency : {"sequential", "forked", "pooled"}]

\* A response has a piece: the parser refuses concat() (src/parser.rs:1201).  A set
\* names a state field, so there is none without state (src/verifier.rs:1411).
ASSUME TcpAssumption ==
    /\ Listener \notin Kids /\ NoConn \notin Conns
    /\ MaxRequest \in Nat \ {0} /\ MaxSteps \in Nat \ {0} /\ ReadTimeout \in Nat \ {0}
    /\ Offered \subseteq Declarations /\ Moody \subseteq Conns
    /\ MaxBytes \in [Conns -> Nat]
    /\ \A p \in {Stateful, Stateless} :
          /\ DOMAIN p = {"lets", "response", "sets"}
          /\ \A part \in DOMAIN p : Len(p[part]) \in Nat /\ DOMAIN p[part] = 1..Len(p[part])
          /\ Len(p.response) > 0
    /\ Stateless.sets = <<>>

IsMultistep(d) == d.max_steps /\ d.read_timeout

OneShotStateless(d) ==
    ~d.max_steps /\ ~d.read_timeout /\ ~d.state /\ d.concurrency = "sequential"

Emitter(d) ==
    CASE d.identity /\ OneShotStateless(d) -> "echo"
      [] d.state /\ ~d.max_steps -> "refused"
      [] d.max_steps # d.read_timeout -> "refused"
      [] IsMultistep(d) # (d.concurrency = "forked") -> "refused"
      [] d.concurrency = "pooled" -> "refused"
      [] IsMultistep(d) -> "multistep"
      [] OTHER -> "oneshot"

Kind == Emitter(declared)

\* The handler: number lets, the pieces of the response, the after: sets.  The
\* identity handler answers with the chunk.
ProgramOf(d) ==
    LET p == IF d.state THEN Stateful ELSE Stateless
    IN  IF d.identity
        THEN [p EXCEPT !.lets = <<>>, !.response = <<[kind |-> "chunk"]>>]
        ELSE p
Program == ProgramOf(declared)

-----------------------------------------------------------------------------
(* Expressions: a sum of terms over the chunk, the state and the lets.      *)

\* byte_at(req, i) is checked against the length that read returned; the index is
\* a literal or a state field.
Index(t, state) == IF t.op = "at" THEN t.n ELSE state[t.n]
Fails(expr, chunk, state) ==
    \E i \in DOMAIN expr : expr[i].op \in {"at", "at_state"} /\ Index(expr[i], state) >= Len(chunk)

Term(t, chunk, state, lets) ==
    CASE t.op = "lit" -> t.n
      [] t.op = "length" -> Len(chunk)
      [] t.op \in {"at", "at_state"} -> chunk[Index(t, state) + 1]
      [] t.op = "state" -> state[t.n]
      [] t.op = "let" -> lets[t.n]

Value(expr, chunk, state, lets) ==
    FoldLeft(LAMBDA sum, t : sum + Term(t, chunk, state, lets), 0, expr)

Lets(p, chunk, state) ==
    FoldLeft(LAMBDA done, e : Append(done, Value(e, chunk, state, done)), <<>>, p.lets)
LetsFail(p, chunk, state) == \E i \in DOMAIN p.lets : Fails(p.lets[i], chunk, state)

PieceFails(piece, chunk, state) == piece.kind = "le32" /\ Fails(piece.expr, chunk, state)
Piece(piece, chunk, state, lets) ==
    IF piece.kind = "chunk" THEN chunk ELSE <<Value(piece.expr, chunk, state, lets)>>

\* Variant: every set reads the state the block started with.
RunSetsAtOnce(sets, chunk, state, lets) ==
    FoldLeft(LAMBDA run, set :
                IF ~run.ok \/ Fails(set.expr, chunk, state) THEN [run EXCEPT !.ok = FALSE]
                ELSE [run EXCEPT !.state[set.field] = Value(set.expr, chunk, state, lets)],
             [ok |-> TRUE, state |-> state], sets)

\* The after: block.  Each set is stored at once and the next one reads it; the
\* first check that fails leaves the block.
RunSets(sets, chunk, state, lets) ==
    FoldLeft(LAMBDA run, set :
                IF ~run.ok \/ Fails(set.expr, chunk, run.state) THEN [run EXCEPT !.ok = FALSE]
                ELSE [run EXCEPT !.state[set.field] = Value(set.expr, chunk, run.state, lets)],
             [ok |-> TRUE, state |-> state], sets)

-----------------------------------------------------------------------------
Blank == [pc |-> "free", conn |-> NoConn, steps |-> 0, waited |-> 0, chunk |-> <<>>,
          state |-> Initial, lets |-> <<>>, k |-> 1]

Init ==
    /\ declared \in {d \in Offered : Emitter(d) # "refused"}
    /\ frame = [p \in Procs |-> IF p = Listener THEN [Blank EXCEPT !.pc = "accept"] ELSE Blank]
    /\ phase = [c \in Conns |-> "new"]
    /\ holders = [c \in Conns |-> {}]
    /\ inbox = [c \in Conns |-> <<>>]
    /\ sent = [c \in Conns |-> 0]
    /\ peer = [c \in Conns |-> "active"]
    /\ chunks = [c \in Conns |-> <<>>]
    /\ out = [c \in Conns |-> <<>>]
    /\ waits = [c \in Conns |-> 0]

At(p, pc) == frame[p].pc = pc
Go(p, pc) == frame' = [frame EXCEPT ![p].pc = pc, ![p].k = 1]

\* Variant: the listener serves every program itself.
EntryInline == IF Kind = "multistep" THEN "step" ELSE "read"

\* Where a fresh connection goes: emit_fork_dispatch, or straight to the read.
Entry == IF Kind = "multistep" THEN "fork" ELSE "read"

-----------------------------------------------------------------------------
(* The listener.                                                            *)

Accept(c) ==
    /\ At(Listener, "accept") /\ phase[c] = "queued"
    /\ phase' = [phase EXCEPT ![c] = "accepted"]
    /\ holders' = [holders EXCEPT ![c] = {Listener}]
    /\ frame' = [frame EXCEPT ![Listener].pc = Entry, ![Listener].conn = c]
    /\ UNCHANGED <<declared, inbox, sent, peer, history>>

AcceptFails ==
    /\ At(Listener, "accept")
    /\ frame' = [frame EXCEPT ![Listener].pc = Entry, ![Listener].conn = NoConn]
    /\ UNCHANGED <<declared, client, holders, history>>

\* Descriptors of connection c that process p closes.
CloseSlot(p) ==
    holders' = [c \in Conns |-> IF frame[p].conn = c THEN holders[c] \ {p} ELSE holders[c]]

\* The process identifiers of children are interchangeable: fork takes one.
NewKid == CHOOSE p \in Kids : At(p, "free")

\* fork: the child has a copy of the frame and of the descriptor.  Its first acts
\* are setsockopt(SO_RCVTIMEO), whose result is not looked at, and steps = 0.
Fork(p) ==
    /\ At(Listener, "fork") /\ frame[Listener].conn # NoConn
    /\ At(p, "free") /\ p = NewKid
    /\ frame' = [frame EXCEPT ![p] = [frame[Listener] EXCEPT !.pc = "step", !.steps = 0],
                              ![Listener].pc = "drop"]
    /\ holders' = [holders EXCEPT ![frame[Listener].conn] = @ \cup {p}]
    /\ UNCHANGED <<declared, client, history>>

\* After a failed accept there is nothing to share: read and close of the child
\* fail on the errno and it exits with 0.
ForkErrno ==
    /\ At(Listener, "fork") /\ frame[Listener].conn = NoConn
    /\ Go(Listener, "drop")
    /\ UNCHANGED <<declared, client, holders, history>>

\* Variant: a failed fork goes straight back to accept.
ForkFailsKeeping ==
    /\ At(Listener, "fork")
    /\ Go(Listener, "accept")
    /\ UNCHANGED <<declared, client, holders, history>>

ForkFails ==
    /\ At(Listener, "fork")
    /\ Go(Listener, "drop")
    /\ UNCHANGED <<declared, client, holders, history>>

ParentClose ==
    /\ At(Listener, "drop")
    /\ CloseSlot(Listener)
    /\ Go(Listener, "accept")
    /\ UNCHANGED <<declared, client, history>>

-----------------------------------------------------------------------------
(* The process that serves a connection.                                    *)

\* The bound on steps is tested before the read.
StepTop(p) ==
    /\ At(p, "step")
    /\ frame' = IF frame[p].steps >= MaxSteps
                THEN [frame EXCEPT ![p].pc = "close"]
                ELSE [frame EXCEPT ![p].pc = "read", ![p].steps = @ + 1, ![p].waited = 0]
    /\ UNCHANGED <<declared, client, holders, history>>

Reading(p, c) == At(p, "read") /\ frame[p].conn = c
Gone(c) == peer[c] = "gone"
Idle(c) == inbox[c] = <<>> /\ peer[c] \in {"active", "stopped"}

\* read returns a chunk; its length is what later checks compare with.  Then the
\* handler's lets, in order; a failed check closes the connection.
Read(p, c) ==
    /\ Reading(p, c) /\ inbox[c] # <<>>
    /\ LET n == IF Len(inbox[c]) < MaxRequest THEN Len(inbox[c]) ELSE MaxRequest
           chunk == SubSeq(inbox[c], 1, n)
           fails == LetsFail(Program, chunk, frame[p].state)
       IN  /\ inbox' = [inbox EXCEPT ![c] = SubSeq(@, n + 1, Len(@))]
           /\ chunks' = [chunks EXCEPT ![c] = Append(@, chunk)]
           /\ frame' = [frame EXCEPT
                 ![p].pc = IF fails THEN "close" ELSE "respond",
                 ![p].chunk = chunk, ![p].waited = 0, ![p].k = 1,
                 ![p].lets = IF fails THEN <<>> ELSE Lets(Program, chunk, frame[p].state)]
    /\ UNCHANGED <<declared, phase, sent, peer, holders, out, waits>>

\* Variant: a read that timed out is taken up again.
ReadFailsRetrying(p) ==
    /\ At(p, "read")
    /\ \/ frame[p].conn = NoConn /\ Go(p, "close")
       \/ /\ frame[p].conn # NoConn
          /\ \/ Gone(frame[p].conn)
             \/ inbox[frame[p].conn] = <<>> /\ peer[frame[p].conn] = "finished"
          /\ Go(p, "close")
       \/ /\ frame[p].conn # NoConn
          /\ inbox[frame[p].conn] = <<>>
          /\ Kind = "multistep" /\ frame[p].waited = ReadTimeout
          /\ frame' = [frame EXCEPT ![p].waited = 0]
    /\ UNCHANGED <<declared, client, holders, history>>

\* Variant: only the end of the stream and a reset close the connection.
ReadFailsUntimed(p) ==
    /\ At(p, "read")
    /\ \/ frame[p].conn = NoConn
       \/ /\ frame[p].conn # NoConn
          /\ \/ Gone(frame[p].conn)
             \/ inbox[frame[p].conn] = <<>> /\ peer[frame[p].conn] = "finished"
    /\ Go(p, "close")
    /\ UNCHANGED <<declared, client, holders, history>>

\* 0 at the end of the stream, -EAGAIN after the timeout, or another error.
ReadFails(p) ==
    /\ At(p, "read")
    /\ \/ frame[p].conn = NoConn
       \/ /\ frame[p].conn # NoConn
          /\ \/ Gone(frame[p].conn)
             \/ inbox[frame[p].conn] = <<>> /\ peer[frame[p].conn] = "finished"
             \/ /\ inbox[frame[p].conn] = <<>>
                /\ Kind = "multistep" /\ frame[p].waited = ReadTimeout
    /\ Go(p, "close")
    /\ UNCHANGED <<declared, client, holders, history>>

\* Time passes while a read with a timeout waits.
Tick(p, c) ==
    /\ Reading(p, c) /\ Idle(c)
    /\ Kind = "multistep" /\ frame[p].waited < ReadTimeout
    /\ frame' = [frame EXCEPT ![p].waited = @ + 1]
    /\ waits' = [waits EXCEPT ![c] = @ + 1]
    /\ UNCHANGED <<declared, client, holders, chunks, out>>

\* Where the emitted code goes on after the k-th of n items of a block.
AfterResponse == CASE Kind = "echo" -> "read"
                   [] Kind = "oneshot" -> "close"
                   [] Kind = "multistep" /\ Program.sets = <<>> -> "step"
                   [] OTHER -> "after"
NextItem(p, n, following) ==
    IF frame[p].k < n THEN frame' = [frame EXCEPT ![p].k = @ + 1] ELSE Go(p, following)

Serving(p) == At(p, "respond") /\ frame[p].conn # NoConn
CurrentPiece(p) == Program.response[frame[p].k]

\* One write of the streamed response.  It waits for a client that does not read.
Respond(p) ==
    /\ Serving(p)
    /\ LET f == frame[p]
           c == f.conn
       IN  /\ ~PieceFails(CurrentPiece(p), f.chunk, f.state)
           /\ NextItem(p, Len(Program.response), AfterResponse)
           /\ \/ /\ peer[c] \in {"active", "finished"}
                 /\ out' = [out EXCEPT ![c] =
                              Append(@, Piece(CurrentPiece(p), f.chunk, f.state, f.lets))]
              \/ Gone(c) /\ UNCHANGED out
    /\ UNCHANGED <<declared, client, holders, chunks, waits>>

\* A check on the chunk fails between two writes: the connection is closed.
RespondAborts(p) ==
    /\ Serving(p) /\ PieceFails(CurrentPiece(p), frame[p].chunk, frame[p].state)
    /\ Go(p, "close")
    /\ UNCHANGED <<declared, client, holders, history>>

\* SIGPIPE is not ignored by this program: a write to a reset connection.
BrokenPipe(p) ==
    /\ Serving(p) /\ Gone(frame[p].conn)
    /\ ~PieceFails(CurrentPiece(p), frame[p].chunk, frame[p].state)
    /\ frame' = [frame EXCEPT ![p] = IF p = Listener THEN [@ EXCEPT !.pc = "dead"] ELSE Blank]
    /\ CloseSlot(p)
    /\ UNCHANGED <<declared, client, history>>

\* The state of a conversation that a failed check ends, ends with the process.
AfterBlock(p) ==
    /\ At(p, "after")
    /\ LET run == RunSets(Program.sets, frame[p].chunk, frame[p].state, frame[p].lets)
       IN  frame' = [frame EXCEPT ![p].pc = IF run.ok THEN "step" ELSE "close",
                                  ![p].state = run.state]
    /\ UNCHANGED <<declared, client, holders, history>>

\* close, then exit(0) in a child and the next accept in the listener.  SIGCHLD
\* is ignored, so the kernel reaps the child by itself.
Close(p) ==
    /\ At(p, "close")
    /\ CloseSlot(p)
    /\ frame' = [frame EXCEPT ![p] = IF p = Listener THEN [@ EXCEPT !.pc = "accept", !.k = 1]
                                     ELSE Blank]
    /\ UNCHANGED <<declared, client, history>>

-----------------------------------------------------------------------------
(* The clients.                                                             *)

Connect(c) ==
    /\ phase[c] = "new" /\ ~At(Listener, "dead")
    /\ phase' = [phase EXCEPT ![c] = "queued"]
    /\ UNCHANGED <<declared, frame, holders, inbox, sent, peer, history>>

\* What a client does after the server closed has no effect on the server.
Connected(c) == ~Gone(c) /\ (phase[c] = "queued" \/ holders[c] # {})

Send(c, b) ==
    /\ Connected(c) /\ peer[c] = "active" /\ sent[c] < MaxBytes[c]
    /\ inbox' = [inbox EXCEPT ![c] = Append(@, b)]
    /\ sent' = [sent EXCEPT ![c] = @ + 1]
    /\ UNCHANGED <<declared, frame, phase, holders, peer, history>>

Turn(c, from, to) ==
    /\ Connected(c) /\ c \in Moody /\ peer[c] \in from
    /\ peer' = [peer EXCEPT ![c] = to]
    /\ UNCHANGED <<declared, frame, phase, holders, inbox, sent, history>>

Finish(c) == Turn(c, {"active"}, "finished")
StopReading(c) == Turn(c, {"active"}, "stopped")
Reset(c) == Turn(c, {"active", "stopped"}, "gone")

ClientStep(c) ==
    \/ Connect(c) \/ Finish(c) \/ StopReading(c) \/ Reset(c)
    \/ \E b \in Bytes : Send(c, b)

-----------------------------------------------------------------------------
Serve(p) ==
    \/ StepTop(p)
    \/ \E c \in Conns : Read(p, c)
    \/ ReadFails(p) \/ Respond(p) \/ RespondAborts(p) \/ BrokenPipe(p)
    \/ AfterBlock(p) \/ Close(p)

Dispatch == ForkErrno \/ ForkFails \/ ParentClose \/ \E p \in Kids : Fork(p)

Next ==
    \/ \E c \in Conns : Accept(c) \/ ClientStep(c)
    \/ AcceptFails \/ Dispatch
    \/ \E p \in Procs : Serve(p)
    \/ \E p \in Procs, c \in Conns : Tick(p, c)

\* The kernel runs every process, lets time pass, and accept does not fail for
\* ever on a connection that waits.  Nothing is assumed of the clients.
Fairness ==
    /\ WF_vars(Dispatch \/ Serve(Listener))
    /\ \A c \in Conns : SF_vars(Accept(c))
    /\ \A p \in Kids : WF_vars(Serve(p) \/ \E c \in Conns : Tick(p, c))

Spec == Init /\ [][Next]_vars /\ Fairness

-----------------------------------------------------------------------------
(* Properties.                                                              *)

Positions == {"free", "accept", "fork", "drop", "step", "read", "respond", "after", "close",
              "dead"}

TypeOK ==
    /\ declared \in Declarations
    /\ \A p \in Procs :
          /\ frame[p].pc \in Positions
          /\ frame[p].conn \in Conns \cup {NoConn}
          /\ frame[p].steps \in 0..MaxSteps /\ frame[p].waited \in 0..ReadTimeout
          /\ Len(frame[p].chunk) <= MaxRequest
          /\ DOMAIN frame[p].state = DOMAIN Initial
    /\ holders \in [Conns -> SUBSET Procs]
    /\ \A c \in Conns : peer[c] \in {"active", "finished", "stopped", "gone"} /\ sent[c] \in 0..MaxBytes[c]

\* The step of the source program on one chunk, from the state at its entry: the
\* pieces it writes until a check fails, whether it completes, and the state it
\* leaves.  Each set is computed from the state that those before it left.
Sound(p, chunk, state) ==
    {n \in 0..Len(p.response) : \A i \in 1..n : ~PieceFails(p.response[i], chunk, state)}
Written(p, chunk, state) ==
    IF LetsFail(p, chunk, state) THEN 0
    ELSE CHOOSE n \in Sound(p, chunk, state) : \A i \in Sound(p, chunk, state) : i <= n

Later(p, chunk, state) ==
    LET later[i \in 0..Len(p.sets)] ==
            IF i = 0 THEN state
            ELSE [later[i - 1] EXCEPT ![p.sets[i].field] =
                    Value(p.sets[i].expr, chunk, later[i - 1], Lets(p, chunk, state))]
    IN  later
SetFails(p, chunk, state, i) == Fails(p.sets[i].expr, chunk, Later(p, chunk, state)[i - 1])
SetsFail(p, chunk, state) ==
    \E i \in DOMAIN p.sets :
        SetFails(p, chunk, state, i) /\ \A j \in 1..(i - 1) : ~SetFails(p, chunk, state, j)

StepOf(p, state, chunk) ==
    LET n == Written(p, chunk, state)
        whole == n = Len(p.response) /\ ~SetsFail(p, chunk, state)
        lets == Lets(p, chunk, state)
    IN  [pieces |-> [i \in 1..n |-> Piece(p.response[i], chunk, state, lets)],
         whole |-> whole,
         state |-> IF whole THEN Later(p, chunk, state)[Len(p.sets)] ELSE state]

\* The conversation the source program has on a sequence of chunks.
Answer(p, run, chunk) ==
    LET step == StepOf(p, run.state, chunk)
    IN  [pieces |-> run.pieces \o step.pieces,
         whole |-> run.whole /\ step.whole, state |-> step.state]
Conversation(p, seq) ==
    FoldLeft(LAMBDA run, chunk : Answer(p, run, chunk),
             [pieces |-> <<>>, whole |-> TRUE, state |-> Initial], seq)

\* What a client receives is what the source program answers to the chunks of
\* this connection alone, from the initial state: a conversation never sees the
\* state of another one, a set is seen by the next step and not by its own, a
\* failed check ends the conversation before anything else is read, and a
\* connection the server closes has received all of it, in at most max_steps
\* steps if the service declares them.
ConversationFollowsSource ==
    \A c \in Conns :
        LET run == Conversation(Program, chunks[c])
        IN  /\ IsPrefix(out[c], run.pieces)
            /\ Len(chunks[c]) > 1 => Conversation(Program, Front(chunks[c])).whole
            /\ phase[c] = "accepted" /\ holders[c] = {} /\ ~Gone(c) => out[c] = run.pieces
            /\ declared.max_steps => Len(chunks[c]) <= MaxSteps

\* The receive side of a connection lives at most max_steps * read_timeout: the
\* ceiling a declaration promises.
ReadLifetimeBounded ==
    declared.read_timeout => \A c \in Conns : waits[c] <= MaxSteps * ReadTimeout

\* A descriptor is open only in the process that serves it at that moment: the
\* listener that accepts again and the child that exited hold none, whichever
\* of accept, fork, read, write and the handler's checks failed.
NoDescriptorLeak ==
    \A c \in Conns : \A p \in holders[c] :
        frame[p].conn = c /\ frame[p].pc \notin {"accept", "free", "dead"}

\* The listener of a forked service outlives every client, and no client waits
\* behind the conversation of another one: again and again nobody is queued.
ForkedNeverMonopolised ==
    declared.concurrency = "forked" => []<>(\A c \in Conns : phase[c] # "queued")

\* The writer of connection c waits for a client that does not read.
Stalled(c) == \E p \in Procs : frame[p].conn = c /\ Serving(p) /\ peer[c] = "stopped"

\* With a timeout every conversation ends, unless the client stops reading: the
\* receive timeout does not cover the writes.
ConversationEnds ==
    declared.read_timeout => []<>(\A c \in Conns : holders[c] = {} \/ Stalled(c))
=============================================================================

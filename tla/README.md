# Verification of Verbose

Verbose is a compiler for a small declarative language.  A source file declares
concepts, pure rules, executions (batches of records run through phases of rules)
and services (HTTP or raw TCP servers).  `src/main.rs` runs a program with the
reference interpreter or emits a static x86-64 ELF, a WASM module, or reports.

Where the compiler itself is a sequential, pure function of a file, the programs it
emits are not: the emitted schedulers, fork supervisors and socket loops are
hand-written assembly in which threads, processes, signals, deadlines and failed
system calls interleave.  A unit test of the repository runs such a binary on one
schedule.  This project models what the emitted code does, operation by operation,
and checks it on every schedule of a small instance; the central invariants are
proved with TLAPS for every value of the constants.

`PROJECT.json` has the machine-readable side: components, runs, the source lines of
every definition (`map`), the variants each property is tested against (`mutants`),
hazards, findings and theorems.


## 1. Inventory

### Run-time parts (emitted code and the reference executor)

| Component | State it keeps | Operations | What makes it correct |
|---|---|---|---|
| Bounded admission, `src/native/admission.rs` | counter of admitted children, accepted descriptor | setup (SIGCHLD reset, non-blocking listener), drain of `wait4(-1, WNOHANG)`, `poll` with 100 ms, accept, refuse, fork, close | the counter is exactly the number of unreaped children; never more than `max_connections` handlers; nobody is refused while a slot is free; a freed slot is recovered although nothing wakes the parent |
| Native concurrent scheduler, `src/native/concurrent.rs`, `concurrent/emit.rs` | per lane: state word, status, batch cursor and buffer, thread id cleared by the kernel | coordinator: map, reset, clone, receive, write, consume, cancel, join, next wave; worker: start, next record, evaluate and serialise, publish, await, terminal, exit | buffer owned by one side at a time; no lost futex wake-up; lane memory reused only after a join; output equal to the sequential execution, whatever fails; the process ends |
| Interpreter concurrent mode, `src/interpreter/execution/concurrent.rs` | one bounded channel per phase, a start gate, a cancel flag | spawn, open gate, receive, emit, leave, drop receivers, join; worker: check, evaluate, send | same output order; bounded number of unpublished results; no worker left blocked |
| Pooled workers, `src/native/pool.rs` | table of worker PIDs | fork all, close the listener, wait, clean up; worker: `PR_SET_PDEATHSIG`, `getppid`, serve | a worker's death ends the pool; no orphan serves; a recycled PID is never signalled |
| Graceful shutdown, `src/native/pool/shutdown.rs` | signal mask, phase, deadline, `LIVE` | block signals, fork, `rt_sigtimedwait` loop, reap, kill and drain; worker: unblock TERM, finish the request, exit 0 | `LIVE` is exact; status 0 only after a complete drain; no kill before the deadline without cause; the shutdown ends |
| HTTP framing, `src/http_framing.rs` | automaton state, content length, target span | one transition per byte | accepts exactly the requests of the grammar, wherever `read` cuts the stream |
| Bounded HTTP transport, `src/native/http_io.rs` | receive buffer, cursor, deadline, response segment and offset | read, poll, scan, body check, parse, send, poll, close | no overrun; each response byte sent once and in order; two deadlines close any connection |
| HTTP service iteration, `src/native.rs` | state fields (buffer and length), lets, open descriptors | load resources, accept, receive, parse, fetch, draw entropy, handler, logs, respond, `after:` sets, close | no descriptor survives its request; state follows the source program |
| Raw TCP services and fork dispatch, `src/native.rs` | per process: step counter, chunk, state, client descriptor | accept, fork, set the receive timeout, read, respond, `after:` sets, count, close | a conversation is the source program's on its own chunks; its reads are bounded; nothing leaks; no client of a forked service waits for another |
| Compiled rules, `src/optimizer.rs`, `src/native.rs`, `src/native/bounded*`, `src/wasm.rs` | none at run time but registers, the frame and its buffers; the compiler keeps intervals, labels and life times | verify, optimize, emit (fold, shift, multiply, inline or call, place words and buffers), run on a record | the artifact computes what the interpreter computes for the source, faults included |
| Collection programs, `src/native.rs` | argument cursor, elements left, one word for the element, one per let and accumulator | load the record, evaluate lets, seed, load an element, evaluate, print or accumulate, next element, result, next record | one line per element or per record, in order, and the value the interpreter folds; no name, element or accumulator is taken for another |
| Record programs, `src/native.rs`, `src/native/sequential.rs`, `src/execution/pipeline.rs` | argument cursor, sticky exit flag, the half or the pair in hand, the phase | load and check a record, evaluate, print, next record, line or phase, exit; fork and wait of a parallel rule | records are answered in order, nothing is printed after a refusal, the exit status tells whether an answer was false, and no hint shows |

### Compile-time parts

Lexer, parser, verifier (`verifier.rs`, `bounds.rs`, `constructor_types.rs`), numeric
bounds (`numeric_bounds*`), text bounds, optimizer, stack budgets, storage planners
(`native/bounded*`, `native/bounded_text*`, `concurrent/layout.rs`), the sequential
interpreter, the x86 and WASM generators and the command line.  They keep no state
beyond one pass; what can go wrong is an algorithm's result: an interval that does
not contain a value, a buffer reused while it is live, an evaluator that disagrees
with another.  The paths of scalar rules, of rules with bounded text and of rules with
an overflow contract through their analyses and code generators are modelled,
pipelines of them, and rules over collections of numbers; the others are listed in `components` and section 8 says which are
worth adding.


### How they interact

An *execution* is a sequence of phases.  The verifier and the lane planner decide
whether it may run concurrently; then the interpreter and the native scheduler both
promise the output of the sequential mode.  A *service* is framed by transport code:
`listen`, then one of four process structures around the same iteration: sequential,
unbounded fork, admission (bounded fork), pool (with or without graceful shutdown).
Inside the iteration the bounded transport drives the framing automaton, and the
handler's rules and `after:` sets run on the parsed request.  All sharing is of three
kinds: memory between threads of one address space (scheduler), kernel process state
seen through `wait4`, `kill` and signals (admission, pool), and a socket (transport).

### What is hard here

* threads that agree through a word and a futex: a store between the load and the
  wait, a cancellation that races a publication, a thread that still runs when its
  stack is reused;
* `wait4(-1)`: it returns *any* child, stopped ones under a tracer, and children the
  process had before `exec`;
* signals that coalesce, deadlines against answers that arrive late, a second SIGTERM;
* PIDs that the kernel hands out again once reaped, a parent that dies before its
  child asks to be told;
* partial failures: `clone` or `fork` refused half way, a write that fails after some
  bytes, a request check that fails between two `set`s;
* short transfers and byte streams cut anywhere;
* analyses whose word is final: a check that a proof of bounds removes is not there at
  run time, and a buffer whose life was computed too short is overwritten in silence;
* several programs for one meaning: every hint and input mode has its own prologue,
  loop and exit.

`hazards` in `PROJECT.json` lists them at their lines with the properties that cover
them.


## 2. Modules

| Module | Models | Uses |
|---|---|---|
| `Admission` | the parent loop with a limit; children and the kernel as environment | |
| `OrderedPublication` | abstract: what a concurrent execution may print and how it may end | |
| `NativeConcurrent` | emitted coordinator and worker threads | implements `OrderedPublication` |
| `InterpreterConcurrent` | the reference concurrent executor | implements `OrderedPublication` |
| `PoolWorkers` | processes, signals and the worker's start | |
| `PoolSupervisor` | start, cleanup, and the loop without `shutdown_timeout` | extends `PoolWorkers` |
| `PoolShutdown` | the loop with `shutdown_timeout`; the whole pool in either mode | extends `PoolSupervisor` |
| `HttpFraming` | transition table, and a line-based definition of one request | |
| `HttpTransport` | receive and send of one connection | extends `HttpFraming` |
| `HttpService` | the iteration of a sequential service | |
| `TcpService` | raw TCP services: echo, one-shot and multi-step, with the fork dispatch | |
| `Intervals` | words, the interval arithmetic of the verifier, and comparisons decided by it | |
| `MagicDivision` | the multiplier of a division by a constant | extends `Intervals` |
| `ScalarSource` | scalar expressions: value, interval, rewriting | extends `Intervals` |
| `ScalarNative` | native code of scalar rules, and the machine it runs on | extends `ScalarSource`, `MagicDivision` |
| `ScalarWasm` | WebAssembly code of scalar rules, and its machine | extends `ScalarSource` |
| `TextSource` | rules with bounded text: value, and the bounds analysis | extends `ScalarSource` |
| `TextNative` | their code: descriptors, the placement of words and buffers, and the machine | extends `TextSource` |
| `ContractSource` | overflow contracts: domains, guards, and the folding that rests on them | extends `TextSource` |
| `ContractNative` | their code, with slots shared by liveness | extends `ContractSource`, `TextNative` |
| `Pipeline` | pipelines: acceptance, lowering to one rule, and what the interpreter does | extends `TextSource` |
| `RecordProgram` | the process around a rule: records, lines, hints, phases, exit status | extends the three `*Native` |
| `Collections` | rules over a collection or the bytes of a text: acceptance, offsets, loops, and what the interpreter promises | extends `RecordProgram` |
| `Compiler` | optimize, compile for a target, run on a record, on arguments, on lists or as an execution | extends `ScalarWasm`, `Collections`, `Pipeline` |
| `MC*` | instances for TLC | the module they name |
| `*_proofs` | theorems | the module they name, `TLAPS` |

Definitions whose comment begins with "Variant" (`ForkFailedCounted`,
`WorkerBlockBlindly`, ...) are not part of the model.  Each is a plausible mistake in
the code beside it; substituting it for the definition it varies makes a property
fail (`mutants`).

### Correspondence with the code

**Admission.**  One action per system call of the emitted loop and per arithmetic
step that another process can observe around.  `pc` is the position in the loop (`reap_top`,
`poll`, `accept`, `reap_full`, `admit`, `increment`, `close`), `count` the counter in the
parent's frame, `client` the accepted descriptor.  `Reaping` is the drain: it runs until
`wait4` returns 0 or ECHILD and goes on to wherever it was called from (before the
poll, and again before the capacity test).  A child is `starting` between the fork and the
end of its own set-up, then `serving`; it can die at any moment.
`TracerStop` is a child stopped under ptrace, whose wait status is not a death.
`Inherited` is the set of children that already exist at `exec`.

**NativeConcurrent.**  One action per access to a shared word or per system call.
`WorkerStep(l)` is the thread of lane `l`: load of the state word, compare and
exchange, wake, `futex_wait` entry and return.  A blocked thread is one that
`futex_wait` accepted, i.e. whose word still held the expected value in the same
atomic step; `Interrupted` is the spurious return.  The rule bodies are reduced to
whether a record is valid for a phase (`input`, chosen once, `NativeInputs`), and a
serialised result to `Units` separately written pieces, so that a short write and a
failing write between two pieces are different behaviours.  Waves, lanes and the lane
of a phase are computed as the planner does (`Phase`, `LastLane`).

**InterpreterConcurrent.**  Same inputs, with `sync_channel(result_batch - 1)` modelled
as a bounded queue with rendezvous at capacity 0 (`SendBlocks`, `Send`, `Take`), the
start gate, the cancel flag, `spawn` errors, panics and an `emit` that fails.  `recv` and
`emit` are two steps (`ReceiveValue`, then `Emit` or `EmitFails`): between them the
coordinator holds one value (`index`) that is in no channel, and the worker may already
fill the place it has left.

**OrderedPublication.**  Output is a growing prefix of the sequential `Reference` of
the input.  It can finish only after all of it, and stop early for three reasons: a
faulty record after everything that precedes it, a failed write, or a refused
resource.  The refinement maps bytes written to `out` and the exit to its `status`.

**PoolWorkers / PoolSupervisor / PoolShutdown.**  A process identifier is free,
starting (before `prctl`, before `getppid`), serving, a zombie or somebody else's; a
freed identifier can be handed to an unrelated process (`Reuse`), and a child from
before `exec` may exist.  `pdeathsig` takes effect only after `Protect`; `Confirm` is the
comparison of `getppid` with the PID saved before the fork.  Whether the service declares
`shutdown_timeout` (`graceful`) is chosen at the start.  Both kinds of supervisor share
the set-up, the forks and the failure boundary (`KillNext` ... `DrainFails`), which the
two source files spell out separately with the same code; their loops are apart.
`PoolShutdown` adds pending and blocked signals, the clock (`Tick`) and the worker's side
of a shutdown (`AcceptShut`).

**HttpFraming / HttpTransport.**  `Edge(state, byte)` is the transition table; a
byte of the model stands for a class of bytes the table treats alike.  `reference` says
independently, over lines and positions, what the first request of a byte string is:
`More`, `Invalid`, or its length.  The transport keeps the buffer, the scan cursor and
the deadline of the emitted code and lets `read`, `poll` and `write` return any count
the kernel may return.

**HttpService.**  One action per stage or per item of a stage, in the emitted order,
with the two error exits of the code: close the connection (through `r15_close_stub`
when a file or upstream socket is open), and `exit(1)`.  A text field is a buffer of
its declared capacity plus a length; a handler `let` of a field is the address of that
buffer plus the length at that time, as `emit` stores it.

**TcpService.**  `Emitter` is the choice and the refusals of `compile_service`.  A process
has a `frame` (position, client slot, step counter, chunk, state) that `fork` copies; a
connection has its queue of bytes, the client's mood, and the set of processes that hold
a descriptor for it.  Reads return any non-empty part of what is queued, 0 after a half
close, an error after a reset or when the receive timeout expired; `SO_RCVTIMEO` counts
the ticks of one read.  Writes are not checked, as in the code: an error is ignored, a
reset connection can end the writer with SIGPIPE, and a client that stops reading holds
it.  A failed `accept` puts its errno into the client slot and is served like a client.

**ScalarSource / ScalarNative / ScalarWasm.**  Rules over a concept
with one number field and without lets.  `Eval` is `eval_expr` of a release build (sums
and products wrap; MIN / -1 panics).  `ComputeRange`, `CanDiscard`, `StaticTruth` and
`Optimized` are the verifier's and the optimizer's functions case by case.  `Emit`
follows `emit_eval_expr`: which special case takes an operator (`Strategy`), where the
left operand waits (`rcx`, the stack, or `r15` inside a recursive rule), whether a call is
a `call` or the callee's body (`EmitCall`); `Callable` is the frame of a recursive rule.
An instruction is a tuple, not its bytes, and a forward jump holds the block it jumps
over.  The machines are external: the operations of x86-64 and WebAssembly that the
emitted code uses, with their faults.  The word has `Bits` bits (64 in the program).
The native program checks the declared range of the record it reads and nothing else;
arguments of recursive calls are not checked, nor is a call of a WASM module.

**TextSource / TextNative.**  Programs of rules over concepts with text and number
fields; a rule has an input concept, lets, a value and, for text, a capacity.
`Participating` and `ActiveRules` decide which rules the bounded path takes.  `EvalText`
is the interpreter, `BoundOf` the analysis: an interval for a number, a capacity for a
text, component by component for a record.  `EmitText` follows the emitter with its
descriptors: a text is (pointer word, length word, capacity, owner), a name is an alias
of a descriptor, a condition joins the descriptors of its branches.  `WordLayout` and
`BufferLayout` are the two planners: life times from first to last use, propagated
through aliases (`LastUse`), a free list for the places, and branches of a condition
overlaid in one region.  The machine keeps bytes per address, so that a placement that
lets two live values overlap shows as a wrong result, and a store outside every buffer
as `Stray`.

**ContractSource / ContractNative.**  A domain is a union of at most a few intervals
(`Collect` merges as the code does); `Assume` is what a condition teaches about a field or
a local, in either branch; `RepeatedArithmetic` handles `x - x` and the like.  `FoldExpr`
is the folding the generator does with the same facts.  `ExactRule` is the value over the
integers, without any word, for comparison.  `EmitValue` allocates and frees slots as
`liveness.rs` does.

**Pipeline.**  `Lowered` makes one rule of the phases, each a let of a record handed to
the next; `Piped` is the interpreter, which checks the record before each phase.

**RecordProgram.**  `Turn` is one turn of the record loop: the declared range is checked
first, a fault ends the process, a false answer of a bool rule sets the sticky flag.  The
vectorized program compares pairs (`Mask`), the parallel one splits the array and waits
for its child before it prints; `RunStream` starts every line with a clear flag;
`EndOfPhase` leaves a sequential execution after a phase with a false answer.  A process
is described by what it printed and its exit status.

**Collections.**  A rule whose record ends with a collection, or that folds the bytes of a
text.  `Form` is the emitter the rule gets, `Desugared` and `Extracted` turn quantifiers
into folds.  The offsets are the part that decides: each scope (lets, body, final
expression) has its own table from names to words of the frame, built in the order the
emitters insert into it (`WithLetOffsets`, `BodyOffsets`, `FinalOffsets`), and a leaf is
looked up in it by `NameOf`, which like the code sees the name of a field only.  The
image is the code between the loops (lets, seeds, body, result), from the same `Emit` as
scalar rules; `OneElement`, `Elements` and `RecordsOf` are the loops, with the counters in
the registers the code uses (`r15`, and `rcx` and `rsi` for bytes).  A word keeps its value
from one element and one record to the next until something stores there.
`PromisedCollection` is the interpreter: names bound to values, a quantifier that stops at
the first element that decides.


## 3. Runs

| Run | Instance | Question |
|---|---|---|
| `admission` | 3 PIDs, limit 2 | exact counter, bound, no refused client without cause, no leaked descriptor, recovered slots |
| `admission_inherited` | 4 PIDs, one inherited | *violation*: the bound does not hold with an inherited child |
| `native_concurrent` | 3 phases on 2 lanes, batches of 1 and 2, up to 3 records, at most 1 false result | hand-off, wake-ups, joins, cancellation, output and termination; full, partial and cut batches; nothing of a lane's first user shows in the output of the second |
| `interpreter_waves` | 3 phases, 2 in flight, batch 1 (rendezvous) and 2, up to 2 records, 2 pieces | bounded results, whole waves, output, termination |
| `pool` | with and without `shutdown_timeout`: 2 workers, 3 PIDs, one of which may be inherited, 1 tracer stop, grace 2 ticks | PID table, orphans never serve, nothing is left behind, fail-fast, LIVE, clean exit, deadline, completion |
| `http_transport` | about 40 byte streams, buffer of 25, deadlines of 2 and 1 ticks, 3 response segments | framing, exact response, end of every connection |
| `http_service` | 2 fields, 4 sets, 2 logs, 2 fetches, 1 resource of each kind, 1 draw | descriptors, state |
| `http_service_let` | 2 sets, a let read after its field is set | *violation*: the let changes |
| `tcp_service` | 2 clients, 2 child slots, every declaration the compiler is offered, 2 steps, chunks of up to 2 bytes, timeout 1 | conversations, bounded reads, descriptors, no monopoly, end of conversations |
| `lowering` | words of 4 bits: 9709 scalar programs, 1001 with bounded text, 1288 with contracts, 480 pipelines, 96 hinted batches, 150 sequential executions, 182 rules over a collection | the analyses are right, native and WASM results and whole processes against the interpreter |
| `lowering_inline` | 2 programs with an inlined call | *violation*: the native result differs |
| `lowering_hints` | one rule with and without hints; rules over a collection with a name used twice; a fold over bytes with a let | *violation*: a hint drops the range check, a field is read for another, a let changes the number of bytes |

The type invariants of `Admission` and `NativeConcurrent` are proved (section 6) and not
repeated in the runs; those of the other modules are part of their documentation, except
`HttpTransport`'s, which holds the buffer arithmetic and is checked.

### Why the bounds are enough

* *admission*: three identifiers with two slots are the least that hold a full pool
  plus a candidate and a reused identifier.  Clients are not numbered: the loop has at
  most one in hand.
* *native*: three phases on two lanes give two waves, so lanes are reused, the last
  wave is partial and a failing first wave must stop the second.  The size of a batch is
  chosen at the start; with up to three records a batch of two is full, partial at the
  end, and partial before a false result.  One false result (`MaxFalse`) cuts any phase
  at any record; a second one would come after the end.
* *interpreter*: the same reasoning.  `result_batch` is chosen at the start; with 1
  every send is a rendezvous, with 2 the channel has one place, so that of two values
  and the final message a worker computes one ahead and blocks on the next.  Both
  bounds of `ResultsBounded` are met: a phase that waits for its turn holds
  `result_batch` results, the one being published `result_batch + 1`.
* *pool*: a spare identifier beyond the two workers, so that a reaped worker's PID can
  come back as somebody else's.  One stop (`MaxStops`) shows what a stop does; grace 2
  separates "before", "at" and "after" the deadline.  The third identifier is, in half of
  the initial states, a child from before `exec`.
* *transport*: methods and targets are cut to 2 bytes, reserved names to 2 letters and
  the version prefix to 1; what matters is the limit's two sides and names that are
  prefixes of each other's continuations.  `MCStreams` holds, for every edge of the
  grammar, a stream that takes it and one that is off by one; `Tight` fills the buffer
  exactly, overruns it, and leaves too little room for the declared body.  TLC cuts
  each of them in every possible way.
* *service*: the four sets of `MCSets` read a request, a let before its field is set,
  a checked substring, and a field changed by an earlier set.  Requests of 1, 2 and 3
  bytes make the check pass and fail, and make a shorter value overwrite a longer one.

* *tcp*: two clients are the least for a monopoly, two child slots let both be served at
  once; one of the clients may half-close, reset or stop reading at any time, the other
  only sends.  Two steps and a timeout of one tick reach both ends of a conversation.  The
  handler of `Stateful` reads a field that its own sets change, in an order that matters,
  and whose check fails in the second step; the stateless handler fails between two writes.
* *lowering, scalars*: with words of four bits every pair of an operator's operands
  occurs, MIN and -1 included, division by a power of two meets the largest power (4),
  and 3 and 5 are divisors with a multiplier.  The families of `MCCompiler` are: one
  operator; an operator over an operator on the left, on the right and on both sides;
  conditions and short circuits, with operands that fail; rules inlined into another; two
  recursive calls combined with each other and with operators that hold a value across
  them; two mutually recursive rules.  The ranges (all words, 0..7, 1..5, 0..5, 2..5,
  0..4) decide some comparisons, leave others open, and exclude or include a zero
  divisor.  Recursive programs keep their argument inside the declared range.
* *lowering, text*: words of two bytes and texts of up to 7, so that alignment leaves gaps
  and a free region is split and merged; a frame limit of 100 bytes, which refuses some
  of the programs.  The families put a text through lets, conditions, concatenations,
  comparisons, calls, records and names for parts of records, read early or late; 16
  records hold empty and full texts and the ends of the number range.
* *lowering, contracts*: conditions of every comparison, negated and combined, in front of
  a division or a difference that is safe only under them, over 49 records; about half of
  the programs are accepted, and a program is run only if it is.
* *lowering, pipelines*: two to four phases; 334 of the 480 hand on a record that fits
  always and are accepted.
* *lowering, processes*: none to three records for a bool, a number, a failing and a
  recursive rule under each hint and mode, in and out of range, so that both halves and
  both elements of a pair, and the odd one, see every answer; streams of up to two lines
  of up to three values, the empty line included; executions of two and three phases out
  of five rules of all types, with 0 to 2 records.
* *lowering, collections*: every form, with a let of the record's number and with two lets
  of which the second reads the first and may fail; predicates and bodies that fail for some element; a range for the element
  that lets the emitter shift and one that does not; zero, one or two quantifiers below an
  expression.  51 lists of up to two records with up to three elements: an empty
  collection between two others, an element equal to its predecessor, a second record
  that meets the words the first one left.

`CHECK_DEADLOCK FALSE` appears only in the `http_service` and `http_service_let`
configurations, where `exit(1)` ends the system, in `tcp_service`, whose clients may all
be gone for good, and in the three of `MCCompiler`, where a run has one result.  In the other modules an ended system stutters explicitly
or can always do something, so a deadlock there is an error.


## 4. Properties

**Admission.**  `CountIsExact`: between a fork and its increment the counter is one
behind, everywhere else it is the number of unreaped children.  `AdmittedWithinLimit`:
live handlers never exceed the limit.  `RefusedOnlyWhenFull`: a client is
turned away only while `Limit` children are unreaped, so a death seen by the second
drain makes room for the client in hand.  `NoClientLeak`: the parent is back at its poll without a client descriptor.
`SlotRecovered`: a dead child is eventually reaped even if nobody connects.

**Native scheduler.**  `BufferExclusive`: while the coordinator writes a lane's buffer
its worker is parked.  `NoLostWakeup`: a thread blocked on a word whose value has
changed always has a wake on its way.  `JoinBeforeReuse`: a lane is reset, handed on or
unmapped only when the kernel has cleared its thread id.
`PartialWavePublishesNothing`: a wave whose threads could not all be created prints
nothing.  `CancelIsFinal`: no thread takes a lane out of CANCEL.  `RefinesPublication`:
standard output and the exit status are those of `OrderedPublication`.  `Termination`:
the process ends on every schedule.

**Interpreter.**  `ResultsBounded`: the results a phase holds, evaluated and not yet
published, never exceed `result_batch`, or `result_batch + 1` for the phase being published,
whose last received value the coordinator is still writing; this is what the comment in
`concurrent.rs` says, "B-1 queued values plus one blocked send, in addition to the single
value currently being published".  `PublishesOnlyWholeWaves`, `RefinesPublication`, `Termination`
as above; termination includes that every worker blocked in a send is released by the
drop of its receiver before it is joined.

**Pool.**  `TableNamesChildren`: up to the last kill, every entry of the table names a
child that has not been reaped, so a recycled identifier is never signalled.  `OrphanNeverServes`: a
worker whose parent died before `prctl` sees it at `getppid`.  `OrphansVanish`: once the
supervisor is gone every worker ends.
`ExitLeavesNoService`: when the supervisor gives up, after a partial start included,
every worker it created has been killed.
`WorkerDeathEndsPool`: fail-fast, with and without graceful shutdown; all that can hold a
pool back is a child that is no worker, and only in the last `wait4(-1)`.  `LiveIsExact`:
`LIVE` agrees with the process tree although SIGCHLDs coalesce and stops are reported.
`CleanExitMeansDrained`: status 0 only if every worker exited cleanly after SIGTERM.
`NoEarlyKill`: SIGKILL only after the deadline or after an error.
`ShutdownCompletes`: after SIGTERM the supervisor exits, however many signals follow
and although a request never ends, with the same exception.

**Transport.**  `FramedAsReference`: if the receive loop accepts, the reference finds a
complete request of the same length in the bytes read; if it calls the request
malformed, the reference finds no complete request that fits the buffer in the whole
stream.  `TypeOK` includes that the cursor and every write
position stay inside the buffer.  `ResponseIsExact`: what the peer got is a prefix of
the response, and the whole of it if the send succeeded.  `ConnectionEnds`: every
connection is closed whatever the peer does or does not do.

**Service.**  `DescriptorsBalanced`: at accept, nothing but the listener is open.
`StateFollowsSource`: the text state is the one the source program prescribes for the
sets completed so far; no set runs for an unsent response; a request that passes its
checks completes all sets.

**Raw TCP.**  `ConversationFollowsSource`: what a client receives is what the source
program answers to the chunks of its own connection from the initial state; a set is seen
by the next step and not by its own; a failed check ends the conversation.
`ReadLifetimeBounded`: all reads of a conversation together wait no longer than
`max_steps` times `read_timeout`.  `NoDescriptorLeak`: a client is open only in the process
that serves it, whichever call failed.  `ForkedNeverMonopolised`: again and again nobody
is queued.  `ConversationEnds`: every conversation with a timeout ends, unless its client
stops reading, since no write has a deadline.

**Compiled rules.**  `IntervalsSound`: no analysis claims too much.  For scalar rules every
part evaluates to a value of its interval and what may be dropped cannot fail; an accepted
bounded rule never fails and stays within its bounds; an accepted contract gives the
result over the integers; an accepted pipeline never fails between phases.
`NativeAgrees`: same value as the interpreter's, a fault exactly where the rule fails, and
no evaluation for a record outside its range; this is where a wrong register, a stale
operand, a buffer placed over a live one, a branch deleted too early or a rounding error
shows.  `WasmAgrees`: the same for WASM, except for `MIN % -1`.  `ProcessAgrees`: a process
prints and exits as the source promises, whatever hint, mode or phase; for a rule over a
collection a line per element or the folded value per record, so that a counter, element,
let or accumulator that is lost or mixed up shows.  Excepted is what finding 4 and the
observations below are about; for collections that is `ListRegular`: elements in their
declared range, predicates that fail for no element, all names different, and no operator
in a let of a rule over bytes.  `PromiseKept` is the property without these exceptions but
the first, for arguments and successful forks.


## 5. Fairness

Only of what the code or the kernel guarantees, and weak fairness but for one action.

* `Admission`: each step of the parent that is not waiting for someone, the reaping of
  a dead child while the drain runs, and `PollAgain`, which is the 100 ms timeout of
  `poll`.  Nothing is assumed of clients or of children: `SlotRecovered` is about a
  child that did die.
* `NativeConcurrent`, `InterpreterConcurrent`: the coordinator and each worker, i.e. a
  runnable thread is scheduled.  Failures, interrupts and panics are never forced.
* `PoolShutdown`: the supervisor of either kind, delivery of a pending SIGKILL
  (`Dies`) and the steps of a starting worker (`Setup`), which does not block.  A
  serving worker is under no obligation to finish, so the deadline has to.  The clock
  (`Tick`) advances.
* `HttpTransport`: the emitted code (`Step`) and the clock.  Nothing of the peer.
* `TcpService`: the listener and each child, i.e. a runnable process is scheduled and the
  receive timeout of a blocked read comes (`Tick`); and strong fairness of `Accept(c)`: the
  backlog is a queue, so a connection that could be accepted again and again is.  Nothing
  of the clients.
* `HttpService`, `Compiler`: none; they have no liveness property.


## 6. Proofs

**`Admission_proofs`** assumes `AdmissionAssumption` (a finite set of identifiers,
`Limit` at least 1) and, as hypothesis of the theorems, `Inherited = {}`.  The bound
itself is not inductive: it depends on the counter, the counter on which children
exist, and both are off by one between `fork` and the increment.  The inductive
invariant is the conjunction of

* `TypeOK` and `CountIsExact` (the counter against `Cardinality` of the unreaped
  children, with the one-step lag),
* `AccountingNeverContradicted`: the emitted error exits of the drain, a death at
  counter 0 and ECHILD at a counter that is not 0, are not reached,
* `DeathsAreWaitable`: a dead child of this process stays visible to `wait4`,
* `SlotsAvailable`: past the capacity test the counter is below `Limit`.

From it: `AdmissionAccounting`, `AdmissionBound` (handlers are among the unreaped
children) and the action property `RefusalsJustified`.  `ClientsClosed` (no client socket
is open when the parent is back at its poll) needs none of this and no hypothesis.

**`NativeConcurrent_proofs`** assumes only `ConcurrentAssumption` (positive counts).
`Handoff` is the inductive invariant, in six parts: `Control` (which wave and lane the
coordinator's position implies), `LaneProtocol` (for each position of a worker, the
values its state word can have, and who put them there), `Coordination` (what the
coordinator may rely on at each of its positions), `LiveThreads` (where a thread
exists), `Cancellation` and `BatchRoom` (the batch cursor is below `ResultBatch` when
a result is added).  Each is needed by the others: that a buffer is not written while
it is read rests on the state word being READY only while the worker waits, which
rests on a cancelled word never being overwritten, which rests on the compare and
exchange failing after the coordinator's exchange.  From it: `BuffersExclusive`,
`WakeupsKept`, `LanesJoined`, `HandoffNeverBroken` (the defensive branches of the
emitted code are dead) and the action property `CancellationFinal`, for every number
of phases, lanes, records, results per batch and pieces.

The second half proves that the emitted scheduler implements `OrderedPublication`.
`Ordered`, inductive together with `Handoff` (`PublicationInvariant`), says

* `Content`: the output is the first `Len(out)` units of the reference;
* `Found`, for each lane of the wave: what its worker has learnt is what the request
  determines.  No false record lies behind the one it is at (`Scanned`), it is not past the
  faulty record (`Working`), its batch is the records just before it, in order (`Batched`),
  and its verdict is the phase's (`Concluded`).  `Handoff` is what keeps a batch true between
  its publication and its consumption;
* `Pending`: the coordinator's place in the output.  While it receives lane `l`, the next
  unit of the reference is the first of the records that lane has not handed over, no
  earlier phase fails, and nothing of a later lane was consumed.  After a cancellation either
  a host fault was recorded, or the output is complete up to a phase that fails;
* `Admission`: nothing of a wave is out before all its lanes have a thread.

A unit's position in the reference is a number to the base of pieces and records
(`Digits`); `ReferenceUnit` and `ReferenceEnd` say which unit is where and where the
reference stops.  Each action is then a step of `OrderedPublication` or a stutter
(`StepOrdered`), which gives `PublicationIsOrdered`; `PartialWavesAreSilent` follows from
`Admission`.

**`HttpService_proofs`** assumes `ServiceAssumption`, in which the last conjunct is the
verifier's overflow gate.  `Account` relates the number of open descriptors to the
client slot, to r15 and to the stage; r15 is open only inside a fetch or a log.  From
it: `DescriptorsReturned`.

`StateCommitted` is `StateFollowsSource` for every program in which no set reads a let
after an earlier set has stored into the field the let came from (`NoLateLets`).  The
hypothesis is not a convenience: without it the property is false (finding 2, run
`http_service_let`), and the program of `http_service` satisfies it with a let that is read
just before its field is set.  The inductive invariant `Stored` has four parts: the shape of
the buffers (`Typed`: a text never outgrows its buffer, which is what the overflow gate is
for); `Progress` (sets run in order, only for a served request, and stop early only at a
check that fails); `LetsHold` (a let, which is an address and a length, still has the
value found at entry while nothing was stored into its field); and `Follows` (the buffers hold
what the source leaves after the sets completed so far).  `Overwritten` says what one copy
leaves in a buffer, the old bytes behind the new text included.  `Committed` is a recursive
function over the sets; `StatesExist` shows by induction on their number that it is defined,
and `CommittedIs` unfolds it set by set.

**`Intervals_proofs`** assumes only `Half` positive, so it holds for words of any width.
`AddSound`, `SubSound`, `MulSound`, `DivSound`, `ModSound`, `NegSound` and `JoinSound`: if
the operands are words within their intervals and the resulting interval is known, the
operation does not wrap or fail and its value lies in the interval.  Products need that
a product of two bounded factors lies between the extreme corner products
(`CornerProducts`, from the monotonicity of one factor at a time); quotients the same for
`Quot`, which is monotone in the dividend for a fixed divisor and, on a divisor range
without zero, in the divisor (`QuotDividend`, `QuotDivisor`).  `MagicExact`: with
magic = ceil(2^(w+p) / d) and 2^p <= d < 2^(p+1), multiplying and shifting gives the
exact quotient for every x < 2^(w-1).  The error of the multiplier is below d / 2^(w+p),
which x cannot lift over the next quotient.  The compiler's own test of the multiplier
samples seven dividends; the theorem shows that it need not do more for nonnegative ones.
`PowerExact` is the other division by a constant: adding 2^k - 1 to a negative dividend before
the arithmetic shift gives the quotient rounded toward zero, and the sum stays a word for
every k up to w - 1 (the emitter uses it up to w - 2).  `BranchesSound`: a comparison that
two intervals decide has that outcome for all their values, which is why a deleted branch is
never missed.

**`PoolShutdown_proofs`** assumes `PoolAssumption` (finitely many identifiers, none 0,
at least one worker) and `GraceAssumption`; it holds for any number of workers,
identifiers, inherited children, stops and ticks of grace, and for both supervisors.
The inductive invariant says of a supervisor that is still there:

* `Table`: filled entries name children that were not reaped, each child once, and the
  fork loop fills them in order.  Without "each once" reaping a worker would leave a
  second entry with an identifier the kernel may hand out again;
* `Recorded`: every worker is in the table, nobody is dying of SIGKILL before the failure
  boundary, and the kill loop has no worker behind it.  The last part is what
  `ExitLeavesNoService` comes to, a fork that fails half way included;
* `Counted`: LIVE is the number of filled entries (`FS_RemoveElement` for the reap);
* `Modes`: which positions belong to the graceful supervisor, and that the listener is
  shut exactly while it drains;
* `Troubles`: SIGCHLD has its default disposition after setup, so deaths stay waitable;
  and before the boundary there is a trouble exactly while a failed worker is still to be
  reaped.  That makes the last reap the place where status 0 is decided correctly.

The proof is organised by what a step touches: deaths (`DeathKeeps`), start
(`StartKeeps`), the plain loop (`PlainKeeps`), the graceful loop (`GracefulKeeps`), the
failure boundary (`EndKeeps`), and everybody else (`OthersKeep`).  From it come
`TypeOK`, the four invariants of the pool run and its two action properties.

**`TcpService_proofs`** assumes `TcpAssumption`: the identifiers are apart, the limits are
positive, a handler is a record of three finite sequences whose response has a piece (the
parser refuses an empty `concat`), and without state there are no sets (the verifier
refuses a set of an unknown field).  `NoDescriptorLeak` (who holds a descriptor
of which connection) is inductive as soon as frames have their shape (`Shape`), which is
`DescriptorsClosed`.  `ReadLifetimeBounded` is not: that
a connection waits no longer than `max_steps * read_timeout` rests on `Lifetimes`: a
connection is forked for once, its waits are those of the child that has it, and this child
counts a step before each read, so that after `steps` steps the waits are at most
`(steps - 1) * read_timeout` and the time of the read in progress.  With `max_steps` steps counted it closes
instead of reading.  `Products` and `Slack` are the arithmetic of that bound.  From it:
`LifetimeBounded`, for every declaration.

`ConversationExact` compares a client's output with a fold of the source program over the
chunks that were read from it.  `Conversations` relates every frame to that fold: a process
about to read holds the state which the fold leaves (`Talk`), one in the middle of an answer
has written as many pieces as its counter says and will find the same lets and state as
the source (`Middle`), between answers a client has been told everything (`Heard`), and
the listener never loses the initial state nor serves beside its children (`Listens`).
`Told` allows a beginning only to a client that has gone.  It is inductive only together with
`Lifetimes`, from which follows that no two processes talk to one client (`Alone`): another
process could append to the output between two pieces.  The folds that the model takes
from the community modules are unfolded step by step (`ConversationGoesOn`, `RunSetsIs`,
`LaterIs`).  `BlockFollowsSource` is the statement about `after:` blocks: the emitted block,
which stores set by set and leaves at the first check that fails, fails exactly when a set
of the source does, and otherwise leaves the state the source leaves.

**`HttpTransport_proofs`** assumes `FramingAssumption` and `TransportAssumption`.  `TypeOK` is
inductive because the transition table is closed (`TableIsClosed`: from each state each class
of byte leads to a state, and a digit is added to the length only for a byte that is one).  It contains the bounds that the emitted code has
to keep: what was received stays within `Capacity`, the scan within what was received, the
target within its limit and the declared length within the buffer (`BufferBounded`).

`ResponseExact` rests on `Exact`: the bytes taken are the sum of the segments before the
current one and the part of it that is gone, a response is over only in its last segment,
and a closed connection is never touched again.  The sum is a fold over a set, whose
definition fixes no order; `SumsExist` and `SegmentsAdd` show, by induction on the number
of segments, that it grows by exactly the next segment.

`FramedExactly` is `FramedAsReference` for every capacity, limit, set of names and stream: the
byte-by-byte automaton and the line-based reference of `src/http_framing.rs:135` agree on what
a complete request is, however the reads cut it.  The one assumption added for it is that the
expected version has no space, CR or LF in it; the constant of the source is `HTTP/1.`.
Neither description is a good starting point for the other: the automaton knows only
prefixes, and the reference looks for the end of the head first and splits it afterwards.  The
proof goes through a third one.  `RequestAt(w, e, v)` says position by position that in
the bytes `w` a head ends at `e` and declares a body of `v` bytes: a request line
(`RequestLineAt`), lines that are plain or carry the length (`PlainLine`, `LengthLine`), at most
one of the latter (`Counted`), and `NumberAt` for its digits.  Then

* `OpeningStep` and `HeaderStep`: for each state there is a form that the bytes read so far
  have (`InOpening`, `InHeaders`), and an accepted byte leads from it to the form of the next
  state, at the end to `RequestAt`;
* `OpeningFine` and `HeadersFine`: no byte of a request is refused; in particular a second
  Content-Length, a number that does not fit and a target over its limit are not in one;
* `RequestReferenced` and `ReferencedRequest`: the reference says "complete" exactly when there
  is a `RequestAt` whose head and body are within the capacity and the bytes;
* `RequestMoves`: whether the bytes at a place are a request depends on those bytes only, so
  that one found in the buffer is one of the stream;
* `RequestParses`: a framed request passes `emit_http_parse_method_path` and the body scan, so
  nothing is refused after it was framed;
* `FullRight`: a full buffer without a complete request stays without one.

The inductive invariant is `TypeOK /\ Understood /\ Framing`.  `Understood` says that the state
of the automaton is true of the bytes scanned; `Framing` relates the position of the handler to the
automaton, and a connection closed as malformed to the reference refusing the whole stream.
The decimal number is a fold in the model and is shown to grow digit by digit (`DecimalWorth`,
`RangeGrows`), by the same induction as elsewhere.

**`InterpreterConcurrent_proofs`** assumes `InterpreterAssumption`.  The inductive invariant
has `Position` (what the coordinator's place says of the wave: at `receive` and `emit`
every phase of it was admitted and the outcome is still Ok(0)), `Waves` (phases after those
admitted have not started; phases of earlier waves are over and their receivers dropped, and
a dropped receiver keeps no messages) and `Room` (a worker that is not waiting finds the
channel with less than `result_batch` messages).  `WaveBounds` is the arithmetic of the
waves: they cover the phases without a gap and none is empty.  From it: `Backpressure`,
whose `+ 1` for the phase being published is the value the coordinator holds at `emit`, and
the action property `WholeWavesOnly`.

`PublicationIsOrdered` is the refinement of `OrderedPublication`, as for the native
scheduler but with channels instead of batches.  Its `Ordered` has `Produced` (what a worker
has computed is true of the input), `Queue` (the messages of a phase's channel continue
where publication stopped, without a gap, and the final message is the last) and `Pending`
(the coordinator is at a phase before which none fails, the outcome says what was published,
and at `emit` the value it holds is the one that is `Due`, so that the queue continues
behind it).  `PhaseEnds` and `EndReceived` are the delicate places: a final message is
received only after all values of its phase, so a failure is reported after everything
that precedes it.

### Only model-checked

* liveness (`SlotRecovered`, `Termination`, `ShutdownCompletes`, `ConnectionEnds`,
  `WorkerDeathEndsPool`, `OrphansVanish`, `ForkedNeverMonopolised`, `ConversationEnds`):
  fairness and ENABLED are outside the prover;
* `StateFollowsSource` for programs with late lets is not only unproved but false: that is
  finding 2, which `http_service_let` shows;
* `IntervalsSound` for whole expressions, `NativeAgrees`, `WasmAgrees`, `ProcessAgrees`:
  these are about programs, by induction over expressions, through `Bitwise` and operators
  declared RECURSIVE, which the prover cannot handle; the theorems of `Intervals_proofs`
  are their steps at one operator.

Induction on a number is within reach although the library's induction rules are not
usable: a set of numbers that contains 0 and successors contains all (`Induction`),
because its complement has no least element (`WFMin` of `WellFoundedInduction`).  The values
of a fold, which the community modules define by CHOOSE over recursive functions, are
obtained by first showing that such a function exists for every length (`AnswersExist`,
`BlocksExist`, `LaterExists`, `SumsExist`, `StatesExist`).  Some modules repeat a few lemmas of arithmetic
and induction (`Quotient`, `Digits`, `Least`, `Induction`), since a further module of theorems would serve only them.


## 7. Findings

1. `admission_inherited` (documentation).  The drain charges the death of any child to
   a handler slot.  A process executed by a launcher that had already started a child
   can end up with one live handler more than `max_connections`;
   `docs/bounded-service-concurrency.md:35` states the bound without this condition.
2. `http_service_let` (code).  `let seen = state.last` stores the address of the
   persistent buffer.  In `set last = req.path` followed by `set prev = seen` the second
   set copies the new bytes, cut to the old length.  `docs/text-let-shadowing.md:9`: "An
   earlier alias keeps the value it captured."
3. `lowering_inline` (code).  Inside a recursive rule of one number field, the left
   operand of an operator waits in `r15` while the right one is evaluated.  If the right
   one is a call of a rule that is inlined (not recursive, same concept, no lets), and
   that rule's body has an operator with a compound right operand, the body takes `r15`
   too (`use_r15_save`, `src/native.rs:16054`, looks at the argument of the call only).
   `main(C { v: n.v - 1 }) - aux(n)` with `aux = m.v * (m.v - 1)` returns a wrong number.
   The comment above that function says such an operand falls through to push and pop.
   The run's second program shows another defect of the inlining
   (`src/native.rs:17019`, and likewise `src/wasm.rs:1828`): the argument of an inlined
   call is never evaluated.  `aux(C { v: n.v + 1 })` computes `aux(n)`; the interpreter
   passes the new record (`src/interpreter.rs:841`).  Each program alone violates
   `NativeAgrees`.
4. `lowering_hints` (code).  The record loop compares a field with its declared range
   before the rule can read it (`src/native.rs:5551`); the vectorized and the parallel
   program parse their arguments into an array without that check.  For `v: number [0, 4]`
   and the argument 5, `n.v > 0` exits with 1, and under a hint prints `true` and exits
   with 0.  `src/native.rs:5544` promises the check or an exit, and `src/native.rs:5848`
   says of an earlier case: "An optimization hint decided observable behaviour, which the
   project's own rules forbid."  The same run has two defects of rules over collections.
   A field is looked up by its name whatever stands before the dot
   (`src/native.rs:16182`), so in `filter(w.items, e => e.v > w.v)` both are the element's,
   and a let named `v` is the element's field as well; the comment above the look-up says
   why record lets have composite keys: "so `p.a` cannot silently resolve to an input field
   also called `a`".  And a fold over bytes evaluates its lets after the length was put
   into `rcx` (`src/native.rs:13571`, `13582`): `let a = w.k + 1` leaves another number of
   bytes to fold.  The body of the same loop is wrapped in "Save rsi/rcx across body
   (emit_eval_expr may clobber)" (`src/native.rs:13616`).  Each family alone violates
   `PromiseKept`.

Observations without a run:

* in the cleanup of a pool the blocking `wait4(-1)` (`src/native/pool/shutdown.rs:195`)
  also waits for a child the process had before `exec` and does not kill, so the
  `exit(1)` of `docs/http-pool-shutdown.md:27` may be late or never come; `ShutdownCompletes`
  and `WorkerDeathEndsPool` name it as the only exception;
* the verifier's `decreasing` check accepts a recursive argument `n.v - k` that leaves the
  declared range, while optimizer and emitter delete branches under that range;
* a parallel rule takes a refused `fork` for the parent (`src/native.rs:20114`): the first
  half of the records is skipped and the exit status is that of the second;
* its `wait4(-1)` may report a child from before `exec` instead, as in finding 1, and a
  number rule does not look at the status of its child at all, so a fault in the first
  half ends with status 0;
* `--stream` ends with status 0 whatever the answers were (`src/native.rs:21099`), unlike
  the contract of `emit_bool_arms`;
* the programs over collections never compare an element, or a number of the record,
  with its declared range, which the emitter nevertheless divides by shifts under;
* they evaluate every predicate for every element and every quantifier before the
  expression around it, while the interpreter stops at the element that decides: a
  predicate that fails later, or in a branch that is not taken, ends the program only;
* a fold over bytes handles one record and ignores the others, and its resource words
  (`idx_slot - 8` and below) are those of its lets;
* a client of a raw TCP service that stops reading holds its process in `write` for ever,
  since `read_timeout` covers reads only.

The sets of an `after:` block are not a transaction: a check that fails in a later set
leaves the earlier ones stored.  `docs/bounded-text-state.md:58` says so (the comment at
`src/native.rs:24428` is looser), and `StateFollowsSource` is stated accordingly.


## 8. Not modelled, and the plan

The map covers a small share of the repository's lines, and the share cannot become large.
`src/native.rs` alone is 63850 of the 102536 lines; from line 25773 on it is tests, and most
of the rest are byte sequences of instructions, one emitter per shape of output, and
comments.  What decides behaviour in them (which emitter, which check, which exit) is
modelled once for the shapes above.

Left out for good: x86 encoding, the transport assembler and the decoder
(`validate_x86.rs`), which are byte tables; the command line; the parser's grammar;
the self-hosted compiler and examples, which are inputs; the generation tools.

Left out of a modelled component:

* the HTTP transport without deadlines (`read` and `write` results barely checked, no
  promise stated);
* start-up of a sequential service, whose `socket`, `bind` and `listen` results the code
  does not check and about which nothing is documented;
* the duration of a fetch, which has no deadline in the source;
* the contents of log files; short log writes are declared out of scope by the comment
  at `src/native.rs:10509`;
* number state fields of an HTTP service (one 8-byte store), and text fields of a raw TCP
  service, whose buffers are those of `HttpService`;
* in the scalar path: lets, several fields, unbounded text, and WASM for a recursive rule,
  which the compiler would inline without end;
* in the bounded paths: the limits on nodes, depth and calls (100000, 256 and 128), the
  64 MiB of code and the `native_stack` reservation, text fields carried over from a
  recursive caller, the result mode and the worker body of `bounded.rs`, and all
  diagnostics;
* in record programs: records of several fields, and so a partial last record; the token
  reader of `--stdin` and `--stdin-raw`; the cut of a line after 65534 bytes; malformed
  numbers, which the bounded programs refuse and the others read as far as they go;
* in collection programs: texts and further fields of a record or element with their
  bound checks, maps to records or text (their printing is the record printer),
  `emit_text_fold_program`, resources, the clock, and argument lists that end in the middle
  of a record, where the code reads a null pointer;
* `compile_native_multi`, the older composition of several rules in one file.

Worth adding, in this order:

1. `LaneLayout`: offsets, alignment and graph validation of the lane planner; regions
   of different lanes are disjoint (a theorem).
2. The verifier's termination checks, so that recursion outside a declared range is
   covered, and its dependency and purity checks.
3. Expressions beyond scalars of one field in the plain path: lets and their propagation,
   records with several fields, aggregate returns, `match`; text elements and text folds
   over collections.
4. `StackBudget` and lexer indentation, as pure algorithms against reference definitions.
5. `Admission` composed with the handlers of `TcpService`.
6. Theorems: the disjointness of 1; and, if the expressions of `Compiler` are rewritten from
   operators declared RECURSIVE to recursive functions over numbered nodes, `IntervalsSound` by
   induction on the number of a node, from the lemmas of `Intervals_proofs`.

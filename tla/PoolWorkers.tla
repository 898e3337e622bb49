---------------------------- MODULE PoolWorkers ----------------------------
(***************************************************************************)
(* The processes of a `concurrency: pooled` HTTP service, below its         *)
(* supervisor (PoolSupervisor, PoolShutdown).  A worker asks for            *)
(* a parent-death SIGKILL, compares getppid with the recorded supervisor,   *)
(* and then accepts and serves one connection after another                 *)
(* (src/native/pool.rs, child_setup and accept).  The kernel's part - who   *)
(* is a child of whom, zombies, SIGKILL, signals sent to the supervisor and *)
(* the reuse of identifiers - is modelled from the calls the code makes.    *)
(***************************************************************************)
EXTENDS Integers, FiniteSets

CONSTANTS
    Pids,       \* the process identifiers the kernel can hand out
    Workers,    \* workers: N
    Inherited,  \* the ones that may be children of it when it is executed
    MaxStops    \* bound on the stops a tracer inflicts

ASSUME PoolAssumption ==
    /\ IsFiniteSet(Pids) /\ 0 \notin Pids
    /\ Workers \in Nat \ {0}
    /\ Inherited \subseteq Pids
    /\ MaxStops \in Nat

VARIABLES
    proc,      \* life of every process identifier
    stopped,   \* children with a tracer stop that wait4 has not reported yet
    stops,     \* stops so far
    slot,      \* the supervisor's PID table, 0 for an empty entry
    exit,      \* "none" while the supervisor runs, then how it ended
    listener,  \* the shared listening socket: "open", or "shut" for reading
    sigchld,   \* the supervisor's SIGCHLD disposition: "dfl" or "ign"
    blocked,   \* signals the supervisor has blocked
    pending,   \* blocked signals that wait for it
    trouble    \* "yes" once a child has failed or the host refused a call

procVars == <<proc, stopped, stops>>
signalVars == <<sigchld, blocked, pending>>
poolVars == <<procVars, slot, exit, listener, signalVars, trouble>>

Slots == 1..Workers
Signals == {"TERM", "CHLD"}
Starting == {"starting", "protected"}    \* before and after PR_SET_PDEATHSIG
Serving == {"idle", "busy"}              \* in accept, with a connection
Remains == {"ended", "failed"}           \* a dead worker: exit status 0, any other
Zombies == Remains \cup {"foreign"}      \* or a dead child that is no worker
Lives == {"free", "stranger", "inherited", "doomed"} \cup Starting \cup Serving \cup Zombies

Running(p) == proc[p] \in Starting \cup Serving \cup {"doomed"}
Child(p) == Running(p) \/ proc[p] \in Zombies \cup {"inherited"}

PoolTypeOK ==
    /\ proc \in [Pids -> Lives]
    /\ stopped \subseteq Pids
    /\ stops \in 0..MaxStops
    /\ slot \in [Slots -> Pids \cup {0}]
    /\ exit \in {"none", "ok", "fail", "killed"}
    /\ listener \in {"open", "shut"}
    /\ sigchld \in {"dfl", "ign"}
    /\ blocked \subseteq Signals /\ pending \subseteq blocked
    /\ trouble \in {"no", "yes"}

PoolInit ==
    /\ \E old \in SUBSET Inherited :
          proc = [p \in Pids |-> IF p \in old THEN "inherited" ELSE "free"]
    /\ stopped = {} /\ stops = 0
    /\ slot = [n \in Slots |-> 0]
    /\ exit = "none"
    /\ listener = "open"
    /\ sigchld \in {"dfl", "ign"}
    /\ blocked = {} /\ pending = {}
    /\ trouble = "no"

-----------------------------------------------------------------------------
(* The kernel. *)

\* A blocked signal stays pending; SIGCHLD otherwise has no effect.
Notify == pending' = pending \cup ({"CHLD"} \cap blocked)

\* A process ends.  Its parent can wait for it, unless the parent is gone or
\* ignores SIGCHLD.
Ends(p, how) ==
    /\ proc' = [proc EXCEPT ![p] = IF exit = "none" /\ sigchld = "dfl" THEN how ELSE "free"]
    /\ stopped' = stopped \ {p}
    /\ IF exit = "none" THEN Notify ELSE UNCHANGED pending
    /\ UNCHANGED <<stops, slot, exit, listener, sigchld, blocked>>

ExitsCleanly(p) == Ends(p, "ended") /\ UNCHANGED trouble
Fails(p) == Ends(p, "failed") /\ trouble' = IF exit = "none" THEN "yes" ELSE trouble

\* The supervisor ends.  Parent-death signals reach the workers that asked for
\* one; init reaps the zombies.
SupervisorEnds(how) ==
    /\ exit' = how
    /\ proc' = [p \in Pids |->
                  CASE proc[p] \in {"protected"} \cup Serving -> "doomed"
                    [] proc[p] \in Zombies -> "free"
                    [] OTHER -> proc[p]]
    /\ stopped' = {}

\* SIGKILL of whatever process has the identifier.
Kill(p) == proc' = [proc EXCEPT ![p] = IF Running(p) \/ @ \in {"stranger", "inherited"}
                                      THEN "doomed" ELSE @]

\* A process that was sent SIGKILL dies.
Dies(p) == proc[p] = "doomed" /\ Ends(p, "failed") /\ UNCHANGED trouble

\* A worker crashes, or an operator kills it.
Crashes(p) == proc[p] \in Starting \cup Serving /\ Fails(p)

\* The supervisor is killed, at any time.
SupervisorKilled ==
    /\ exit = "none"
    /\ SupervisorEnds("killed")
    /\ UNCHANGED <<stops, slot, listener, signalVars, trouble>>

\* A child from before exec ends.
InheritedEnds(p) == proc[p] = "inherited" /\ Ends(p, "foreign") /\ UNCHANGED trouble

\* Another program gets, or gives back, an unused identifier.
Reuse(p) ==
    /\ \/ proc[p] = "free" /\ proc' = [proc EXCEPT ![p] = "stranger"]
       \/ proc[p] = "stranger" /\ proc' = [proc EXCEPT ![p] = "free"]
    /\ UNCHANGED <<stopped, stops, slot, exit, listener, signalVars, trouble>>

\* A tracer stops a worker: wait4 will report it, with status byte 0x7f.
TracerStop(p) ==
    /\ exit = "none" /\ proc[p] \in Serving /\ stops < MaxStops
    /\ stopped' = stopped \cup {p}
    /\ stops' = stops + 1
    /\ Notify
    /\ UNCHANGED <<proc, slot, exit, listener, sigchld, blocked, trouble>>

-----------------------------------------------------------------------------
(* The workers. *)

WorkerGoes(p, where) ==
    /\ proc' = [proc EXCEPT ![p] = where]
    /\ UNCHANGED <<stopped, stops, slot, exit, listener, signalVars, trouble>>

\* child_setup: PR_SET_PDEATHSIG; a refusal ends the worker with status 1.
Protect(p) ==
    /\ proc[p] = "starting"
    /\ WorkerGoes(p, "protected") \/ Fails(p)

\* Variant: getppid is not compared with the recorded supervisor.
ConfirmBlindly(p) ==
    /\ proc[p] = "protected"
    /\ WorkerGoes(p, "idle")

\* child_setup: a supervisor that died before PR_SET_PDEATHSIG sends no signal.
Confirm(p) ==
    /\ proc[p] = "protected"
    /\ IF exit = "none" THEN WorkerGoes(p, "idle") ELSE Fails(p)

\* accept; EINTR and transient network errors are retried.
Accept(p) == proc[p] = "idle" /\ listener = "open" /\ WorkerGoes(p, "busy")

\* The connection is served, timed out or refused; the frame is reused.
Serve(p) == proc[p] = "busy" /\ WorkerGoes(p, "idle")

\* A permanent accept error or an operational failure ends the worker.
WorkerFails(p) == proc[p] \in Serving /\ Fails(p)

Setup(p) == Protect(p) \/ Confirm(p)

Environment ==
    \/ SupervisorKilled
    \/ \E p \in Pids : \/ Crashes(p) \/ InheritedEnds(p) \/ Reuse(p) \/ TracerStop(p)
                       \/ Accept(p) \/ Serve(p) \/ WorkerFails(p)

Kernel == \E p \in Pids : Dies(p) \/ Setup(p)

-----------------------------------------------------------------------------
(* What both kinds of supervisor guarantee. *)

\* Parent-death protection (child_setup): once the supervisor is gone, for
\* whatever reason and at whatever point of a worker's start, no worker is in
\* accept or serving a request, except one that SIGKILL has already been sent to.
OrphanNeverServes == exit # "none" => \A p \in Pids : proc[p] \notin Serving

\* An entry of the PID table is empty or names a child that was not reaped.
NamesChild(n) == slot[n] = 0 \/ Running(slot[n]) \/ proc[slot[n]] \in Remains

\* Nobody outlives the supervisor: once it is gone every worker, even one that
\* was only being started, ends.
OrphansVanish == exit # "none" ~> \A p \in Pids : ~Running(p)

=============================================================================

---------------------------- MODULE PoolShutdown ----------------------------
(***************************************************************************)
(* A worker pool, with or without shutdown_timeout.  This module adds to    *)
(* PoolSupervisor the loop of src/native/pool/shutdown.rs: SIGTERM and      *)
(* SIGCHLD are blocked before the first fork and consumed by                *)
(* rt_sigtimedwait; children are reaped with wait4(WNOHANG).  The first     *)
(* SIGTERM fixes a deadline and shuts the shared listener; workers then     *)
(* leave one by one.  A death while serving, a bad exit status, a refused   *)
(* call or the deadline kills and drains the rest.                          *)
(***************************************************************************)
EXTENDS PoolSupervisor

CONSTANTS
    Grace  \* shutdown_timeout, in ticks of the monotonic clock

ASSUME GraceAssumption == Grace \in Nat \ {0}

VARIABLES
    live,      \* LIVE: workers not reaped yet
    draining,  \* DRAINING
    left       \* time to DEADLINE, once it is set

control == <<live, draining, left>>
vars == <<poolVars, placeVars, control>>

TypeOK ==
    /\ PoolTypeOK
    /\ graceful \in {"no", "yes"}
    /\ ppc \in {"setup", "fork", "supervise", "kill", "drain"}
              \cup {"mask", "term", "reap", "poll", "wait", "sleep"}
    /\ k \in 1..(Workers + 1)
    /\ live \in 0..Workers
    /\ draining \in {"no", "yes"}
    /\ left \in 0..Grace

Init == SupervisorInit /\ live = 0 /\ draining = "no" /\ left = Grace

-----------------------------------------------------------------------------
(* Start. *)

\* Variant: only SIGTERM is blocked.
BlockTermOnly ==
    /\ Runs("mask")
    /\ blocked' = {"TERM"}
    /\ live' = Workers /\ draining' = "no" /\ left' = Grace
    /\ Goto("term")
    /\ UNCHANGED <<procVars, slot, listener, sigchld, pending, trouble, k>>

\* shutdown::setup: the control words are initialised and the signals blocked.
BlockSignals ==
    /\ Runs("mask")
    /\ \/ /\ blocked' = Signals
          /\ live' = Workers /\ draining' = "no" /\ left' = Grace
          /\ Goto("term")
          /\ UNCHANGED <<procVars, slot, listener, sigchld, pending, trouble, k>>
       \/ Exits("fail") /\ UNCHANGED control

\* shutdown::setup: SIGTERM reset to SIG_DFL.
ResetTerm ==
    /\ Runs("term")
    /\ \/ Goto("fork") /\ UNCHANGED <<procVars, slot, listener, signalVars, trouble, k, control>>
       \/ Exits("fail") /\ UNCHANGED control

\* The supervisor keeps its copy of the listener.
ForkDone ==
    /\ Runs("fork") /\ k > Workers /\ graceful = "yes"
    /\ Goto("reap")
    /\ UNCHANGED <<procVars, slot, listener, signalVars, trouble, k, control>>

-----------------------------------------------------------------------------
(* The supervision loop. *)

\* Variant: the deadline is checked with one tick to go.
ExpiredEarly == draining = "yes" /\ left <= 1

\* remaining: the deadline has passed.
Expired == draining = "yes" /\ left = 0

\* reap: all workers gone, deadline expired, or children to look for.
Reap ==
    /\ Runs("reap")
    /\ IF draining = "yes" /\ live = 0
       THEN Exits("ok") /\ UNCHANGED control
       ELSE /\ IF Expired THEN Failure ELSE Goto("poll") /\ UNCHANGED k
            /\ UNCHANGED <<procVars, slot, listener, signalVars, trouble, control>>

\* Variant: a worker's exit status is not looked at while draining.
PollReapsAnyStatus(p) ==
    /\ Runs("poll") /\ proc[p] \in Zombies
    /\ proc' = [proc EXCEPT ![p] = "free"]
    /\ slot' = [n \in Slots |-> IF slot[n] = p THEN 0 ELSE slot[n]]
    /\ live' = live - 1
    /\ IF draining = "no" THEN Failure ELSE Goto("reap") /\ UNCHANGED k
    /\ UNCHANGED <<stopped, stops, listener, signalVars, trouble, draining, left>>

\* wait4 returns a dead child.  One that is not in the table, one that dies while
\* the pool serves and one with a bad status are failures.
PollReaps(p) ==
    /\ Runs("poll") /\ proc[p] \in Zombies
    /\ proc' = [proc EXCEPT ![p] = "free"]
    /\ IF \E n \in Slots : slot[n] = p
       THEN /\ slot' = [n \in Slots |-> IF slot[n] = p THEN 0 ELSE slot[n]]
            /\ live' = live - 1
            /\ IF draining = "no" \/ proc[p] = "failed"
               THEN Failure
               ELSE Goto("reap") /\ UNCHANGED k
            /\ UNCHANGED trouble
       ELSE Failure /\ trouble' = "yes" /\ UNCHANGED <<slot, live>>
    /\ UNCHANGED <<stopped, stops, listener, signalVars, draining, left>>

\* Variant: a stop is counted as an exit.
PollStoppedAsExit(p) ==
    /\ Runs("poll") /\ p \in stopped
    /\ stopped' = stopped \ {p}
    /\ live' = live - 1
    /\ Goto("reap")
    /\ UNCHANGED <<proc, stops, slot, listener, signalVars, trouble, k, draining, left>>

\* wait4 returns a traced stop.
PollStopped(p) ==
    /\ Runs("poll") /\ p \in stopped
    /\ stopped' = stopped \ {p}
    /\ Goto("reap")
    /\ UNCHANGED <<proc, stops, slot, listener, signalVars, trouble, k, control>>

\* wait4 returns 0, nothing to report; with ECHILD the supervisor exits at once.
PollNothing ==
    /\ Runs("poll") /\ stopped = {}
    /\ \A p \in Pids : proc[p] \notin Zombies
    /\ IF \E p \in Pids : Child(p)
       THEN Goto("wait") /\ UNCHANGED <<procVars, slot, listener, signalVars, trouble, k, control>>
       ELSE Exits("fail") /\ UNCHANGED control

\* wait4, the clock or the signal wait is refused.
PollFails == (Runs("poll") \/ Runs("wait")) /\ CallFails /\ UNCHANGED control

\* wait_signal: no limit while serving, what remains of the grace while draining.
WaitSignal ==
    /\ Runs("wait")
    /\ IF Expired THEN Failure ELSE Goto("sleep") /\ UNCHANGED k
    /\ UNCHANGED <<procVars, slot, listener, signalVars, trouble, control>>

\* rt_sigtimedwait returns a child notification.
TakeChild ==
    /\ Runs("sleep") /\ "CHLD" \in pending
    /\ pending' = pending \ {"CHLD"}
    /\ Goto("reap")
    /\ UNCHANGED <<procVars, slot, listener, sigchld, blocked, trouble, k, control>>

\* rt_sigtimedwait times out at the deadline.
TakeTimeout ==
    /\ Runs("sleep") /\ Expired
    /\ Goto("reap")
    /\ UNCHANGED <<procVars, slot, listener, signalVars, trouble, k, control>>

\* Variant: every SIGTERM starts the grace period anew.
TakeTermAgain ==
    /\ Runs("sleep") /\ "TERM" \in pending
    /\ pending' = pending \ {"TERM"}
    /\ draining' = "yes" /\ left' = Grace
    /\ listener' = "shut"
    /\ Goto("reap")
    /\ UNCHANGED <<procVars, slot, sigchld, blocked, trouble, k, live>>

\* rt_sigtimedwait returns SIGTERM.  The first one fixes the deadline and shuts
\* the listener, which may be refused; later ones change nothing.
TakeTerm ==
    /\ Runs("sleep") /\ "TERM" \in pending
    /\ pending' = pending \ {"TERM"}
    /\ IF draining = "yes"
       THEN Goto("reap") /\ UNCHANGED <<draining, left, listener, trouble, k>>
       ELSE /\ draining' = "yes" /\ left' = Grace
            /\ \/ listener' = "shut" /\ Goto("reap") /\ UNCHANGED <<trouble, k>>
               \/ trouble' = "yes" /\ Failure /\ UNCHANGED listener
    /\ UNCHANGED <<procVars, slot, sigchld, blocked, live>>

-----------------------------------------------------------------------------
(* The rest of the world. *)

\* accept on the shut listener: SO_ACCEPTCONN is 0, the worker exits with 0; if
\* it cannot be read, with 1.
AcceptShut(p) ==
    /\ proc[p] = "idle" /\ listener = "shut"
    /\ ExitsCleanly(p) \/ Fails(p)

\* SIGTERM for the supervisor: pending once it is blocked, before that deadly.
Terminate ==
    /\ exit = "none" /\ "TERM" \in blocked \ pending
    /\ pending' = pending \cup {"TERM"}
    /\ UNCHANGED <<procVars, slot, exit, listener, sigchld, blocked, trouble>>

Tick ==
    /\ exit = "none" /\ draining = "yes" /\ left > 0
    /\ left' = left - 1
    /\ UNCHANGED <<poolVars, placeVars, live, draining>>

Steps ==
    \/ Supervisor /\ UNCHANGED control
    \/ BlockSignals \/ ResetTerm \/ ForkDone
    \/ Reap \/ PollNothing \/ WaitSignal \/ TakeChild \/ TakeTimeout \/ TakeTerm
    \/ \E p \in Pids : PollReaps(p) \/ PollStopped(p)

Others ==
    /\ Environment \/ Kernel \/ Terminate \/ \E p \in Pids : AcceptShut(p)
    /\ UNCHANGED <<placeVars, control>>

Next == Steps \/ (SupervisorMayFail /\ UNCHANGED control) \/ PollFails \/ Tick \/ Others

\* The supervisor and a starting worker are scheduled, SIGKILL is delivered and
\* time passes; nothing is assumed of a worker in accept or in a request, and a
\* blocking call need not fail.
Fairness ==
    /\ WF_vars(Steps)
    /\ WF_vars(Tick)
    /\ \A p \in Pids : WF_vars((Dies(p) \/ Setup(p)) /\ UNCHANGED <<placeVars, control>>)

Spec == Init /\ [][Next]_vars /\ Fairness

-----------------------------------------------------------------------------
(* Properties. *)

\* "so a recycled PID cannot be signalled" (docs/pooled-http-workers.md): up to
\* the last kill, the table holds only children that have not been reaped.
TableNamesChildren == exit = "none" /\ ppc # "drain" => \A n \in Slots : NamesChild(n)

\* On every failure path, a partial start included, the supervisor exits only
\* after SIGKILL has been sent to each worker it created.
ExitLeavesNoService ==
    [][exit = "none" /\ exit' = "fail" =>
         \A p \in Pids : proc[p] \notin Starting \cup Serving]_vars

Own == {p \in Pids : Running(p) \/ proc[p] \in Remains}
Supervising == exit = "none" /\ ppc \in {"reap", "poll", "wait", "sleep"}

\* LIVE, the PID table and the process tree agree whenever the graceful supervisor
\* is in its loop: LIVE is the number of entries, and the entries are its workers.
LiveIsExact ==
    Supervising => /\ live = Cardinality({n \in Slots : slot[n] # 0})
                   /\ Own = {slot[n] : n \in {m \in Slots : slot[m] # 0}}
                   /\ Cardinality(Own) = live

\* "0 means all workers finished normally" (docs/http-pool-shutdown.md): status 0
\* is reported only after a shutdown request, with the listener shut, every
\* worker gone and none of them failed.
CleanExitMeansDrained ==
    exit = "ok" => /\ draining = "yes" /\ listener = "shut"
                   /\ trouble = "no"
                   /\ \A p \in Pids : ~Running(p)

\* Accepted requests get the whole grace period: workers are killed only after
\* the deadline, a failed worker, a child that is no worker or a refused call.
NoEarlyKill ==
    [][ppc # "kill" /\ ppc' = "kill" =>
         (draining = "yes" /\ left = 0) \/ trouble' = "yes"]_vars

\* The last wait4(-1) of the cleanup also waits for children older than the program.
HeldByStranger == ppc = "drain" /\ \E p \in Pids : proc[p] = "inherited"

\* A shutdown request ends the supervisor, whatever the workers do and however
\* often the request is repeated: only a child that is no worker can hold it, and
\* only in the drain after a failure.
ShutdownCompletes == ("TERM" \in pending) ~> (exit # "none" \/ HeldByStranger)

\* A worker that fails ends the whole pool: its SIGCHLD is never lost between wait4
\* and the signal wait, and the same child is all that can hold the drain.
WorkerDeathEndsPool ==
    (\E p \in Pids : proc[p] = "failed") ~> (exit # "none" \/ HeldByStranger)

=============================================================================

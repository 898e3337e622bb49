----------------------------- MODULE Admission -----------------------------
(***************************************************************************)
(* The admission loop of a `concurrency: forked` HTTP service that declares *)
(* max_connections (src/native/admission.rs).  One parent owns the listener *)
(* and a counter in its frame; it forks one handler child per admitted      *)
(* connection and learns of their deaths only through wait4(WNOHANG).       *)
(* Every system call of the parent is one step, so that children may be     *)
(* scheduled, die or be stopped by a tracer between any two of them.        *)
(***************************************************************************)
EXTENDS Integers, FiniteSets

CONSTANTS
    Pids,       \* the process identifiers the kernel can hand out
    Inherited,  \* children the process already has when it is executed
    Limit       \* max_connections (the parser admits 1..65535)

ASSUME AdmissionAssumption ==
    /\ IsFiniteSet(Pids)
    /\ Inherited \subseteq Pids
    /\ Limit \in Nat \ {0}

VARIABLES
    pc,       \* where the parent is in setup / dispatch
    count,    \* [rbp+count]: children the parent believes it has
    client,   \* the accepted socket at rbp-48: "none", or "open"
    cause,    \* why the parent left the loop
    sigchld,  \* disposition of SIGCHLD: "dfl", or "ign" as an exec may inherit
    proc,     \* life of every process identifier
    stopped,  \* children with a tracer stop that wait4 has not reported yet
    origin    \* "fork" for a handler, "exec" for a child older than the program

vars == <<pc, count, client, cause, sigchld, proc, stopped, origin>>
parentVars == <<pc, count, client, cause, sigchld>>

PcLabels == {"setup", "reap_top", "poll", "accept", "reap_full", "admit",
             "increment", "close", "exited"}
Lives == {"free", "starting", "serving", "zombie"}

TypeOK ==
    /\ pc \in PcLabels
    /\ count \in 0..Limit
    /\ client \in {"none", "open"}
    /\ cause \in {"none", "syscall", "accounting"}
    /\ sigchld \in {"dfl", "ign"}
    /\ proc \in [Pids -> Lives]
    /\ stopped \subseteq Pids
    /\ origin \in [Pids -> {"fork", "exec"}]

Alive(p) == proc[p] \in {"starting", "serving"}
Unreaped == {p \in Pids : proc[p] # "free"}       \* what wait4 can still return
Handlers == {p \in Pids : origin[p] = "fork" /\ Alive(p)}

Init ==
    /\ pc = "setup"
    /\ count = 0
    /\ client = "none"
    /\ cause = "none"
    /\ sigchld \in {"dfl", "ign"}
    /\ proc = [p \in Pids |-> IF p \in Inherited THEN "serving" ELSE "free"]
    /\ stopped = {}
    /\ origin = [p \in Pids |-> IF p \in Inherited THEN "exec" ELSE "fork"]

-----------------------------------------------------------------------------
(* The parent. *)

\* Label 0 of the emitted block: the service's exit(1) tail.
Exit(why) ==
    /\ pc' = "exited"
    /\ cause' = why
    /\ UNCHANGED <<count, client, sigchld, proc, stopped, origin>>

Goto(label) == pc' = label /\ UNCHANGED cause

\* setup: counter zeroed, listener made O_NONBLOCK, SIGCHLD reset to SIG_DFL.
Setup ==
    /\ pc = "setup"
    /\ \/ /\ count' = 0
          /\ sigchld' = "dfl"
          /\ Goto("reap_top")
          /\ UNCHANGED <<client, proc, stopped, origin>>
       \/ Exit("syscall")

Reaping == pc \in {"reap_top", "reap_full"}

\* Where the block `reap` falls through to: dispatch inlines it twice.
AfterReap == IF pc = "reap_top" THEN "poll" ELSE "admit"

\* wait4 reports a dead child: its slot is released, then the drain continues.
ReapTerminated(p) ==
    /\ Reaping
    /\ proc[p] = "zombie"
    /\ proc' = [proc EXCEPT ![p] = "free"]
    /\ origin' = [origin EXCEPT ![p] = "fork"]
    /\ IF count <= 0
       THEN pc' = "exited" /\ cause' = "accounting" /\ UNCHANGED count
       ELSE count' = count - 1 /\ UNCHANGED <<pc, cause>>
    /\ UNCHANGED <<client, sigchld, stopped>>

\* Variant: the status word is not inspected, so a stop releases a slot.
ReapStoppedAsExit(p) ==
    /\ Reaping
    /\ p \in stopped /\ Alive(p) /\ count > 0
    /\ stopped' = stopped \ {p}
    /\ count' = count - 1
    /\ UNCHANGED <<pc, cause, client, sigchld, proc, origin>>

\* wait4 reports a tracer stop: no slot is released, the drain continues.
ReapStopped(p) ==
    /\ Reaping
    /\ p \in stopped /\ Alive(p)
    /\ stopped' = stopped \ {p}
    /\ UNCHANGED <<parentVars, proc, origin>>

\* wait4 returns 0: children exist and none has anything to report.
ReapNothing ==
    /\ Reaping
    /\ Unreaped # {}
    /\ \A p \in Unreaped : Alive(p) /\ p \notin stopped
    /\ Goto(AfterReap)
    /\ UNCHANGED <<count, client, sigchld, proc, stopped, origin>>

\* wait4 fails with ECHILD: legitimate only when the counter agrees.
ReapNoChild ==
    /\ Reaping
    /\ Unreaped = {}
    /\ IF count # 0
       THEN Exit("accounting")
       ELSE /\ Goto(AfterReap)
            /\ UNCHANGED <<count, client, sigchld, proc, stopped, origin>>

\* wait4 fails with anything but EINTR (retried in place) and ECHILD.
ReapFailed == Reaping /\ Exit("syscall")

\* poll with a 100 ms timeout: readiness, or back to the drain (timeout, EINTR,
\* no POLLIN), or a listener error that ends the parent.
PollReady ==
    /\ pc = "poll"
    /\ Goto("accept")
    /\ UNCHANGED <<count, client, sigchld, proc, stopped, origin>>

\* Variant: the timeout loops to poll instead of to the drain.
PollAgainWithoutReap ==
    /\ pc = "poll"
    /\ Goto("poll")
    /\ UNCHANGED <<count, client, sigchld, proc, stopped, origin>>

PollAgain ==
    /\ pc = "poll"
    /\ Goto("reap_top")
    /\ UNCHANGED <<count, client, sigchld, proc, stopped, origin>>

PollFailed == pc = "poll" /\ Exit("syscall")

\* accept on the nonblocking listener: a client, a retryable errno, or death.
AcceptClient ==
    /\ pc = "accept"
    /\ client' = "open"
    /\ Goto("reap_full")
    /\ UNCHANGED <<count, sigchld, proc, stopped, origin>>

AcceptRetry ==
    /\ pc = "accept"
    /\ Goto("reap_top")
    /\ UNCHANGED <<count, client, sigchld, proc, stopped, origin>>

AcceptFailed == pc = "accept" /\ Exit("syscall")

\* Variants: the comparison admits one child too many, or one too few.
FullOffByOne == count > Limit
FullEarly == count >= Limit - 1

\* The counter, compared as an unsigned word, refuses the client when full.
Full == count >= Limit \/ count < 0

\* Variant: a refused client is not closed.
RefuseWithoutClose ==
    /\ pc = "admit"
    /\ Full
    /\ Goto("reap_top")
    /\ UNCHANGED <<count, client, sigchld, proc, stopped, origin>>

Refuse ==
    /\ pc = "admit"
    /\ Full
    /\ Goto("close")
    /\ UNCHANGED <<count, client, sigchld, proc, stopped, origin>>

\* fork: the child starts with its copy of the client socket.
Fork(p) ==
    /\ pc = "admit"
    /\ ~Full
    /\ proc[p] = "free"
    /\ proc' = [proc EXCEPT ![p] = "starting"]
    /\ origin' = [origin EXCEPT ![p] = "fork"]
    /\ Goto("increment")
    /\ UNCHANGED <<count, client, sigchld, stopped>>

\* Variant: the counter is incremented before fork's result is known.
ForkFailedCounted ==
    /\ pc = "admit"
    /\ ~Full
    /\ count' = count + 1
    /\ Goto("close")
    /\ UNCHANGED <<client, sigchld, proc, stopped, origin>>

ForkFailed ==
    /\ pc = "admit"
    /\ ~Full
    /\ Goto("close")
    /\ UNCHANGED <<count, client, sigchld, proc, stopped, origin>>

\* Only the parent's successful return from fork counts the child.
Increment ==
    /\ pc = "increment"
    /\ count' = count + 1
    /\ Goto("close")
    /\ UNCHANGED <<client, sigchld, proc, stopped, origin>>

CloseClient ==
    /\ pc = "close"
    /\ client' = "none"
    /\ Goto("reap_top")
    /\ UNCHANGED <<count, sigchld, proc, stopped, origin>>

-----------------------------------------------------------------------------
(* The children and the kernel. *)

\* A dead child is waitable unless SIGCHLD is ignored, when it vanishes.
Dies(p) ==
    /\ proc' = [proc EXCEPT ![p] = IF sigchld = "dfl" THEN "zombie" ELSE "free"]
    /\ stopped' = stopped \ {p}
    /\ UNCHANGED <<parentVars, origin>>

\* The child closes its inherited listener; failing that it exits at once.
ChildStart(p) ==
    /\ proc[p] = "starting"
    /\ \/ /\ proc' = [proc EXCEPT ![p] = "serving"]
          /\ UNCHANGED <<parentVars, stopped, origin>>
       \/ Dies(p)

\* A handler ends: response sent, client error, deadline, or a signal.
ChildExit(p) == proc[p] = "serving" /\ Dies(p)

\* A tracer stops a child, which wait4 reports even without WUNTRACED.
TracerStop(p) ==
    /\ Alive(p)
    /\ stopped' = stopped \cup {p}
    /\ UNCHANGED <<parentVars, proc, origin>>

-----------------------------------------------------------------------------
Parent ==
    \/ Setup
    \/ \E p \in Pids : ReapTerminated(p) \/ ReapStopped(p)
    \/ ReapNothing
    \/ ReapNoChild
    \/ ReapFailed
    \/ PollReady
    \/ PollAgain
    \/ PollFailed
    \/ AcceptClient
    \/ AcceptRetry
    \/ AcceptFailed
    \/ Refuse
    \/ \E p \in Pids : Fork(p)
    \/ ForkFailed
    \/ Increment
    \/ CloseClient

Child == \E p \in Pids : ChildStart(p) \/ ChildExit(p) \/ TracerStop(p)

\* Nothing is left to happen once the parent and all its children are gone.
Quiet == pc = "exited" /\ (\A p \in Pids : ~Alive(p)) /\ UNCHANGED vars

Next == Parent \/ Child \/ Quiet

\* The parent keeps running: each system call it is in returns, poll at the
\* latest when its timeout expires, and wait4 gets to every waitable child.
\* Nothing makes a child, a client or a tracer act.
Fairness ==
    /\ WF_vars(Setup)
    /\ \A p \in Pids : WF_vars(ReapTerminated(p))
    /\ WF_vars(ReapNothing \/ ReapNoChild)
    /\ WF_vars(PollAgain)
    /\ WF_vars(AcceptClient \/ AcceptRetry \/ AcceptFailed)
    /\ WF_vars(Refuse \/ ForkFailed \/ \E p \in Pids : Fork(p))
    /\ WF_vars(Increment)
    /\ WF_vars(CloseClient)

Spec == Init /\ [][Next]_vars
FairSpec == Spec /\ Fairness

-----------------------------------------------------------------------------
(* Properties. *)

\* "At most N admitted handler children": whatever the interleaving of forks,
\* deaths, tracer stops and failed calls, live handlers never exceed Limit.
AdmittedWithinLimit == Cardinality(Handlers) <= Limit

\* The counter in the parent's frame is exact: it differs from the number of
\* children not yet reaped only between fork's return and the increment.
CountIsExact ==
    /\ pc = "increment" => Cardinality(Unreaped) = count + 1
    /\ pc \notin {"setup", "increment", "exited"} => Cardinality(Unreaped) = count

\* The two "invariant error" exits of reap (underflow, ECHILD with children
\* counted) are never taken: SIGCHLD was reset before the first fork.
AccountingNeverContradicted == cause # "accounting"

\* The parent never accepts a client while it still holds the previous one: on
\* every path back to the drain the socket at rbp-48 has been closed.
NoClientLeak == pc \in {"reap_top", "poll", "accept"} => client = "none"

\* A client is turned away for want of a slot only while Limit handlers are
\* unreaped; a slot freed by a death seen in the second drain is usable.
RefusedOnlyWhenFull ==
    [][pc = "admit" /\ Refuse => Cardinality(Unreaped) = Limit]_vars

\* A dead child's slot is recovered without needing another client: the drain
\* before every poll gets to it, unless the parent itself has stopped.
SlotRecovered ==
    \A p \in Pids : proc[p] = "zombie" ~> (proc[p] # "zombie" \/ pc = "exited")

=============================================================================

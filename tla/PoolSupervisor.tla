--------------------------- MODULE PoolSupervisor ---------------------------
(***************************************************************************)
(* The supervisor of a worker pool (src/native/pool.rs): it creates the     *)
(* workers and looks after them; any worker's death while the pool serves,  *)
(* and any failed call, kills and drains the rest and exits with status 1.  *)
(* A pool without shutdown_timeout closes its own copy of the listener and  *)
(* blocks in wait4: that loop is here.  The loop of a pool with             *)
(* shutdown_timeout is in PoolShutdown, which also has the properties.      *)
(***************************************************************************)
EXTENDS PoolWorkers

VARIABLES
    graceful,  \* "yes" when the service declares shutdown_timeout
    ppc,       \* where the supervisor is
    k          \* the table entry the fork and the kill loops are at

placeVars == <<graceful, ppc, k>>

SupervisorInit == PoolInit /\ graceful \in {"no", "yes"} /\ ppc = "setup" /\ k = 1

Runs(where) == exit = "none" /\ ppc = where
Goto(where) == ppc' = where /\ UNCHANGED <<graceful, exit>>
Keeps == UNCHANGED <<slot, listener, signalVars, trouble>>

\* exit(status)
Exits(how) ==
    /\ SupervisorEnds(how)
    /\ Keeps /\ UNCHANGED <<stops, placeVars>>

\* The parent's failure boundary: kill and drain.
Failure == Goto("kill") /\ k' = 1

\* A call that should not fail was refused.
CallFails ==
    /\ Failure
    /\ trouble' = "yes"
    /\ UNCHANGED <<procVars, slot, listener, signalVars>>

-----------------------------------------------------------------------------
(* Start, with and without shutdown_timeout. *)

\* setup: the table is zeroed and SIGCHLD reset to SIG_DFL.
SetupPool ==
    /\ Runs("setup")
    /\ \/ /\ sigchld' = "dfl"
          /\ slot' = [n \in Slots |-> 0]
          /\ Goto(IF graceful = "yes" THEN "mask" ELSE "fork")
          /\ UNCHANGED <<procVars, listener, blocked, pending, trouble, k>>
       \/ Exits("fail")

\* One worker is created and its identifier recorded.
Fork ==
    /\ Runs("fork") /\ k <= Workers
    /\ \E p \in Pids :
        /\ proc[p] = "free"
        /\ proc' = [proc EXCEPT ![p] = "starting"]
        /\ slot' = [slot EXCEPT ![k] = p]
    /\ k' = k + 1
    /\ UNCHANGED <<stopped, stops, exit, listener, signalVars, trouble, graceful, ppc>>

\* Variant: a refused fork leaves through the service's abort path.
ForkFailsAborts == Runs("fork") /\ k <= Workers /\ Exits("fail")

ForkFails == Runs("fork") /\ k <= Workers /\ CallFails

-----------------------------------------------------------------------------
(* The loop without shutdown_timeout. *)

\* The workers, not the supervisor, own the accepting descriptors.
CloseListener ==
    /\ Runs("fork") /\ k > Workers /\ graceful = "no"
    /\ \/ Goto("supervise") /\ Keeps /\ UNCHANGED <<procVars, k>>
       \/ CallFails

\* Variant: the reaped identifier stays in the table.
WaitKeepsPid(p) ==
    /\ Runs("supervise") /\ proc[p] \in Zombies
    /\ proc' = [proc EXCEPT ![p] = "free"]
    /\ Failure
    /\ Keeps /\ UNCHANGED <<stopped, stops>>

\* wait4 returns a dead child: it leaves the table before anyone is signalled.
WaitReaps(p) ==
    /\ Runs("supervise") /\ proc[p] \in Zombies
    /\ proc' = [proc EXCEPT ![p] = "free"]
    /\ slot' = [n \in Slots |-> IF slot[n] = p THEN 0 ELSE slot[n]]
    /\ trouble' = IF proc[p] = "foreign" THEN "yes" ELSE trouble
    /\ Failure
    /\ UNCHANGED <<stopped, stops, listener, signalVars>>

\* wait4 returns a traced stop: the supervisor waits again.
WaitStopped(p) ==
    /\ Runs("supervise") /\ p \in stopped
    /\ stopped' = stopped \ {p}
    /\ Keeps /\ UNCHANGED <<proc, stops, exit, placeVars>>

\* wait4 fails: with ECHILD nobody is left to signal.
WaitFails ==
    /\ Runs("supervise")
    /\ IF \A p \in Pids : ~Child(p) THEN Exits("fail") ELSE CallFails

-----------------------------------------------------------------------------
(* The failure boundary, with and without shutdown_timeout. *)

\* kill(pid, SIGKILL) for every recorded worker; an empty entry is skipped.
KillNext ==
    /\ Runs("kill") /\ k <= Workers
    /\ IF slot[k] = 0 THEN UNCHANGED proc ELSE Kill(slot[k])
    /\ k' = k + 1
    /\ Keeps /\ UNCHANGED <<stopped, stops, exit, graceful, ppc>>

KillDone ==
    /\ Runs("kill") /\ k > Workers
    /\ Goto("drain")
    /\ Keeps /\ UNCHANGED <<procVars, k>>

\* The cleanup's wait4 reaps whoever is dead, and is called again.
DrainReaps(p) ==
    /\ Runs("drain") /\ proc[p] \in Zombies
    /\ proc' = [proc EXCEPT ![p] = "free"]
    /\ Keeps /\ UNCHANGED <<stopped, stops, exit, placeVars>>

\* No child is left: exit(1).
DrainDone == Runs("drain") /\ (\A p \in Pids : ~Child(p)) /\ Exits("fail")

\* An unexpected error of the cleanup's wait4 ends it as well.
DrainFails == Runs("drain") /\ Exits("fail")

Supervisor ==
    \/ SetupPool \/ Fork \/ ForkFails \/ CloseListener
    \/ KillNext \/ KillDone \/ DrainDone
    \/ \E p \in Pids : WaitReaps(p) \/ WaitStopped(p) \/ DrainReaps(p)

\* Calls that need not ever fail.
SupervisorMayFail == WaitFails \/ DrainFails

=============================================================================

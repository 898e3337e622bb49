------------------------ MODULE PoolShutdown_proofs ------------------------
(***************************************************************************)
(* A worker pool of any size, with any process identifiers, children from  *)
(* before exec, stops and grace period.                                     *)
(*                                                                         *)
(* No property is inductive by itself.  That a recycled identifier is never *)
(* signalled rests on the table naming every worker once, on deaths being   *)
(* waitable (SIGCHLD reset before the first fork) and on nobody being       *)
(* killed before the failure boundary; that LIVE is exact rests on the same *)
(* table; and status 0 on LIVE being exact and on a failure that is still   *)
(* to be reaped for every trouble there was.                                *)
(***************************************************************************)
EXTENDS PoolShutdown, FiniteSetTheorems, TLAPS

Starts == {"setup", "mask", "term"}
Boundary == {"kill", "drain"}
Filled == {n \in Slots : slot[n] # 0}

\* Each entry of the table is filled once, and what it names is a child.
Table ==
    /\ ppc \in Starts => k = 1 /\ \A n \in Slots : slot[n] = 0
    /\ ppc = "fork" => \A n \in Slots : slot[n] # 0 <=> n < k
    /\ ppc # "drain" => \A n \in Slots : NamesChild(n)
    /\ \A m, n \in Slots : slot[m] = slot[n] /\ slot[m] # 0 => m = n

\* Every worker is in the table, and the kill loop has not passed one by.
Recorded ==
    /\ ppc \notin Boundary =>
          \A p \in Pids : /\ proc[p] # "doomed"
                          /\ p \in Own => \E n \in Slots : slot[n] = p
    /\ ppc = "kill" =>
          \A p \in Pids : proc[p] \in Starting \cup Serving =>
              \E n \in Slots : n >= k /\ slot[n] = p
    /\ ppc = "drain" => \A p \in Pids : proc[p] \notin Starting \cup Serving

\* LIVE counts the filled entries.
Counted ==
    /\ graceful = "yes" /\ ppc \in {"term", "fork"} => live = Workers
    /\ Supervising => live = Cardinality(Filled)

\* Only the graceful supervisor shuts the listener, and only to drain.
Modes ==
    /\ ppc \in {"mask", "term", "reap", "poll", "wait", "sleep"} => graceful = "yes"
    /\ ppc \in Starts \cup {"fork", "supervise"} => draining = "no"
    /\ draining = "no" => listener = "open"
    /\ Supervising /\ draining = "yes" => listener = "shut"

\* Before the failure boundary there is trouble exactly while a worker that
\* failed waits to be reaped, and only a shut listener lets one end well.
Troubles ==
    /\ ppc # "setup" => sigchld = "dfl"
    /\ ppc \notin Boundary =>
          /\ trouble = "yes" <=> \E p \in Pids : proc[p] = "failed"
          /\ \A p \in Pids : proc[p] = "ended" => listener = "shut"

IInv ==
    /\ TypeOK
    /\ exit = "none" => Table /\ Recorded /\ Counted /\ Modes /\ Troubles
    /\ OrphanNeverServes
    /\ CleanExitMeansDrained

-----------------------------------------------------------------------------
(* What the table implies. *)

\* The table is finite, so LIVE can be compared with its filled entries.
LEMMA FilledFinite == IsFiniteSet(Filled) /\ Cardinality(Filled) \in Nat
<1>1. Filled \subseteq 1..Workers
  BY DEF Filled, Slots
<1>2. IsFiniteSet(1..Workers)
  BY PoolAssumption, FS_Interval
<1>3. QED
  BY <1>1, <1>2, FS_Subset, FS_CardinalityType

\* LIVE 0 means an empty table, so there is no worker left, nor one that failed.
LEMMA NobodyLeft ==
    ASSUME TypeOK, Recorded, Counted, ppc = "reap", exit = "none", live = 0
    PROVE  \A p \in Pids : ~Running(p) /\ proc[p] # "failed"
<1>1. Filled = {}
  BY FilledFinite, FS_EmptySet DEF Counted, Supervising
<1>2. \A n \in Slots : slot[n] \notin Pids
  BY <1>1, PoolAssumption DEF Filled
<1>3. QED
  BY <1>2 DEF Recorded, Own, Boundary, Remains

\* When the fork loop is through (ForkDone), every entry is filled.
LEMMA DoneForking ==
    ASSUME TypeOK, Table, ppc = "fork", k > Workers
    PROVE  Cardinality(Filled) = Workers
<1>1. Filled = 1..Workers
  BY PoolAssumption DEF Filled, Slots, Table, TypeOK
<1>2. QED
  BY <1>1, PoolAssumption, FS_Interval

\* Reaping empties the one entry that names the worker.
LEMMA OneEntryLess ==
    ASSUME TypeOK, Table, NEW p \in Pids, NEW n \in Slots, slot[n] = p,
           slot' = [m \in Slots |-> IF slot[m] = p THEN 0 ELSE slot[m]]
    PROVE  Cardinality(Filled') = Cardinality(Filled) - 1 /\ Cardinality(Filled) > 0
<1>1. n \in Filled
  BY PoolAssumption DEF Filled
<1>2. Filled' = Filled \ {n}
  BY PoolAssumption DEF Filled, Table, Slots
<1>3. QED
  BY <1>1, <1>2, FilledFinite, FS_RemoveElement, FS_EmptySet

\* The ways for a process to die, and what each does to the pool's account.
Death(p, how) ==
    \/ proc[p] = "inherited" /\ how = "foreign" /\ trouble' = trouble
    \/ proc[p] = "doomed" /\ how = "failed" /\ trouble' = trouble
    \/ proc[p] \in Starting \cup Serving /\ how = "failed"
       /\ trouble' = IF exit = "none" THEN "yes" ELSE trouble
    \/ proc[p] = "idle" /\ listener = "shut" /\ how = "ended" /\ trouble' = trouble

\* Whoever dies, and whether or not the supervisor is still there, the account
\* stays right.
LEMMA DeathKeeps ==
    ASSUME IInv, NEW p \in Pids, NEW how \in Zombies, Ends(p, how), Death(p, how),
           UNCHANGED <<placeVars, control>>
    PROVE  IInv'
<1> USE PoolAssumption DEF Running, Starting, Serving, Remains, Zombies
<1>1. /\ slot' = slot /\ Filled' = Filled /\ exit' = exit /\ listener' = listener
      /\ UNCHANGED <<sigchld, ppc, k, graceful, live, draining>>
  BY DEF Ends, Filled, placeVars, control
<1>2. /\ proc \in [Pids -> Lives] /\ proc' \in [Pids -> Lives]
      /\ \A q \in Pids : q # p => proc'[q] = proc[q]
      /\ proc'[p] = how \/ proc'[p] = "free"
      /\ exit = "none" /\ sigchld = "dfl" => proc'[p] = how
  BY DEF IInv, TypeOK, PoolTypeOK, Ends, Lives
<1>3. TypeOK'
  <2>1. trouble' \in {"no", "yes"}
    BY DEF IInv, TypeOK, PoolTypeOK, Death
  <2>2. pending' \subseteq blocked' /\ blocked' \subseteq Signals
    BY DEF IInv, TypeOK, PoolTypeOK, Ends, Notify
  <2>3. stopped' \subseteq Pids /\ stops' = stops
    BY DEF IInv, TypeOK, PoolTypeOK, Ends
  <2>4. QED
    BY <1>1, <1>2, <2>1, <2>2, <2>3 DEF IInv, TypeOK, PoolTypeOK, placeVars, control
<1>4. CASE exit # "none"
  <2>1. OrphanNeverServes'
    BY <1>1, <1>2, <1>4 DEF IInv, OrphanNeverServes
  <2>2. CleanExitMeansDrained'
    BY <1>1, <1>2, <1>4 DEF IInv, CleanExitMeansDrained, Death
  <2>3. QED
    BY <1>1, <1>3, <1>4, <2>1, <2>2 DEF IInv
<1>5. CASE exit = "none" /\ sigchld # "dfl"
  <2>1. ppc = "setup" /\ \A n \in Slots : slot[n] = 0
    BY <1>5 DEF IInv, Troubles, Table, Starts
  <2>2. \A q \in Pids : q \notin Own /\ proc[q] # "doomed"
    BY <1>5, <2>1 DEF IInv, Recorded, Boundary
  <2>3. proc[p] = "inherited" /\ trouble' = trouble
    BY <2>2 DEF Own, Death
  <2>4. proc'[p] = "free"
    BY <1>2, <1>5, <2>3 DEF Ends, IInv, TypeOK, PoolTypeOK
  <2>5. Table' /\ Recorded' /\ Troubles'
    BY <1>1, <1>2, <1>5, <2>1, <2>2, <2>3, <2>4
    DEF IInv, Table, Recorded, Troubles, NamesChild, Own, Starts, Boundary
  <2>6. Counted' /\ Modes'
    BY <1>1, <1>5 DEF IInv, Counted, Modes, Supervising
  <2>7. QED
    BY <1>1, <1>3, <1>5, <2>5, <2>6 DEF IInv, OrphanNeverServes, CleanExitMeansDrained
<1>6. CASE exit = "none" /\ sigchld = "dfl"
  <2>1. proc'[p] = how
    BY <1>2, <1>6
  <2>2. Table'
    BY <1>1, <1>2, <1>6, <2>1 DEF IInv, Table, NamesChild, Death, TypeOK, PoolTypeOK
  <2>3. Recorded'
    BY <1>1, <1>2, <1>6, <2>1 DEF IInv, Recorded, Own, Boundary, Death
  <2>4. Troubles'
    BY <1>1, <1>2, <1>6, <2>1 DEF IInv, Troubles, Recorded, Boundary, Death
  <2>5. Counted' /\ Modes'
    BY <1>1, <1>6 DEF IInv, Counted, Modes, Supervising
  <2>6. QED
    BY <1>1, <1>3, <1>6, <2>2, <2>3, <2>4, <2>5 DEF IInv, OrphanNeverServes, CleanExitMeansDrained
<1>7. QED
  BY <1>4, <1>5, <1>6

-----------------------------------------------------------------------------
(* The supervisor's steps, and everybody else's. *)

\* setup and the fork loop (src/native/pool.rs, shutdown::setup): the table fills
\* from its first entry on, and deaths have become waitable before.
LEMMA StartKeeps ==
    ASSUME IInv,
           \/ (SetupPool \/ Fork \/ ForkFails \/ CloseListener) /\ UNCHANGED control
           \/ BlockSignals \/ ResetTerm \/ ForkDone
    PROVE  IInv'
<1> USE PoolAssumption, GraceAssumption
<1> USE DEF TypeOK, PoolTypeOK, Table, Recorded, Counted, Modes, Troubles,
           OrphanNeverServes, CleanExitMeansDrained, Starts, Boundary, Own, Supervising,
               NamesChild, Slots, Signals,
           Running, Starting, Serving, Remains, Zombies, Lives, Child
<1> USE DEF Runs, Goto, Keeps, Exits, Failure, CallFails, SupervisorEnds, Kill, Notify,
            WorkerGoes,
           procVars, signalVars, placeVars, control
<1>1. ASSUME SetupPool, UNCHANGED control PROVE IInv'
  BY <1>1, SMTT(20) DEF IInv, SetupPool
<1>2. ASSUME BlockSignals PROVE IInv'
  BY <1>2, SMTT(20) DEF IInv, BlockSignals
<1>3. ASSUME ResetTerm PROVE IInv'
  BY <1>3, SMTT(20) DEF IInv, ResetTerm
<1>4. ASSUME ForkDone PROVE IInv'
  <2>1. Filled' = Filled /\ Cardinality(Filled) = Workers
    BY <1>4, DoneForking DEF ForkDone, Filled, IInv
  <2>2. QED
    BY <1>4, <2>1 DEF IInv, ForkDone
<1>5. ASSUME Fork, UNCHANGED control PROVE IInv'
  BY <1>5, SMTT(20) DEF IInv, Fork
<1>6. ASSUME ForkFails, UNCHANGED control PROVE IInv'
  BY <1>6, SMTT(20) DEF IInv, ForkFails
<1>7. ASSUME CloseListener, UNCHANGED control PROVE IInv'
  <2>1. ASSUME Goto("supervise"), Keeps, UNCHANGED <<procVars, k>> PROVE IInv'
    BY <1>7, <2>1 DEF IInv, CloseListener
  <2>2. ASSUME CallFails PROVE IInv'
    BY <1>7, <2>2 DEF IInv, CloseListener
  <2>3. QED
    BY <1>7, <2>1, <2>2 DEF CloseListener
<1> QED
  BY <1>1, <1>2, <1>3, <1>4, <1>5, <1>6, <1>7

\* The loop without shutdown_timeout reaps one child and gives up; the failure
\* boundary (kill, then wait4) passes nobody by.
LEMMA PlainKeeps ==
    ASSUME IInv, UNCHANGED control,
           \/ WaitFails \/ DrainFails \/ KillNext \/ KillDone \/ DrainDone
           \/ \E p \in Pids : WaitReaps(p) \/ WaitStopped(p) \/ DrainReaps(p)
    PROVE  IInv'
<1> USE PoolAssumption, GraceAssumption
<1> USE DEF TypeOK, PoolTypeOK, Table, Recorded, Counted, Modes, Troubles,
           OrphanNeverServes, CleanExitMeansDrained, Starts, Boundary, Own, Supervising,
               NamesChild, Slots, Signals,
           Running, Starting, Serving, Remains, Zombies, Lives, Child
<1> USE DEF Runs, Goto, Keeps, Exits, Failure, CallFails, SupervisorEnds, Kill, Notify,
            WorkerGoes,
           procVars, signalVars, placeVars, control
<1>1. ASSUME WaitFails, UNCHANGED control PROVE IInv'
  BY <1>1, SMTT(20) DEF IInv, WaitFails
<1>2. ASSUME DrainFails, UNCHANGED control PROVE IInv'
  BY <1>2, SMTT(20) DEF IInv, DrainFails
<1>3. ASSUME KillNext, UNCHANGED control PROVE IInv'
  BY <1>3, SMTT(20) DEF IInv, KillNext
<1>4. ASSUME KillDone, UNCHANGED control PROVE IInv'
  BY <1>4, SMTT(20) DEF IInv, KillDone
<1>5. ASSUME DrainDone, UNCHANGED control PROVE IInv'
  BY <1>5, SMTT(20) DEF IInv, DrainDone
<1>6. ASSUME NEW p \in Pids, WaitReaps(p), UNCHANGED control PROVE IInv'
  BY <1>6, SMTT(20) DEF IInv, WaitReaps
<1>7. ASSUME NEW p \in Pids, WaitStopped(p), UNCHANGED control PROVE IInv'
  <2>1. Filled' = Filled
    BY <1>7 DEF WaitStopped, Filled
  <2>2. QED
    BY <1>7, <2>1, SMTT(20) DEF IInv, WaitStopped
<1>8. ASSUME NEW p \in Pids, DrainReaps(p), UNCHANGED control PROVE IInv'
  BY <1>8, SMTT(20) DEF IInv, DrainReaps
<1> QED
  BY <1>1, <1>2, <1>3, <1>4, <1>5, <1>6, <1>7, <1>8

\* The loop of src/native/pool/shutdown.rs and its clock: an entry is emptied and
\* LIVE lowered together, and the listener is shut when draining starts.
LEMMA GracefulKeeps ==
    ASSUME IInv,
           \/ Reap \/ PollNothing \/ PollFails \/ WaitSignal \/ TakeChild
           \/ TakeTimeout \/ TakeTerm \/ Tick
           \/ \E p \in Pids : PollReaps(p) \/ PollStopped(p)
    PROVE  IInv'
<1> USE PoolAssumption, GraceAssumption
<1> USE DEF TypeOK, PoolTypeOK, Table, Recorded, Counted, Modes, Troubles,
           OrphanNeverServes, CleanExitMeansDrained, Starts, Boundary, Own, Supervising,
               NamesChild, Slots, Signals,
           Running, Starting, Serving, Remains, Zombies, Lives, Child
<1> USE DEF Runs, Goto, Keeps, Exits, Failure, CallFails, SupervisorEnds, Kill, Notify,
            WorkerGoes,
           procVars, signalVars, placeVars, control
<1>1. ASSUME Reap PROVE IInv'
  <2>1. Filled' = Filled
    BY <1>1 DEF Reap, Filled
  <2>2. CASE draining = "yes" /\ live = 0
    <3>1. \A p \in Pids : ~Running(p) /\ proc[p] # "failed"
      BY <1>1, <2>2, NobodyLeft DEF Reap, IInv
    <3>2. QED
      BY <1>1, <2>2, <3>1 DEF IInv, Reap
  <2>3. CASE ~(draining = "yes" /\ live = 0)
    BY <1>1, <2>1, <2>3 DEF IInv, Reap
  <2>4. QED
    BY <2>2, <2>3
<1>2. ASSUME PollNothing PROVE IInv'
  <2>1. Filled' = Filled
    BY <1>2 DEF PollNothing, Filled
  <2>2. QED
    BY <1>2, <2>1, SMTT(20) DEF IInv, PollNothing
<1>3. ASSUME PollFails PROVE IInv'
  <2>1. Filled' = Filled
    BY <1>3 DEF PollFails, Filled
  <2>2. QED
    BY <1>3, <2>1, SMTT(20) DEF IInv, PollFails
<1>4. ASSUME WaitSignal PROVE IInv'
  <2>1. Filled' = Filled
    BY <1>4 DEF WaitSignal, Filled
  <2>2. QED
    BY <1>4, <2>1, SMTT(20) DEF IInv, WaitSignal
<1>5. ASSUME TakeChild PROVE IInv'
  <2>1. Filled' = Filled
    BY <1>5 DEF TakeChild, Filled
  <2>2. QED
    BY <1>5, <2>1, SMTT(20) DEF IInv, TakeChild
<1>6. ASSUME TakeTimeout PROVE IInv'
  <2>1. Filled' = Filled
    BY <1>6 DEF TakeTimeout, Filled
  <2>2. QED
    BY <1>6, <2>1, SMTT(20) DEF IInv, TakeTimeout
<1>7. ASSUME TakeTerm PROVE IInv'
  <2>1. Filled' = Filled
    BY <1>7 DEF TakeTerm, Filled
  <2>2. QED
    BY <1>7, <2>1, SMTT(20) DEF IInv, TakeTerm
<1>8. ASSUME Tick PROVE IInv'
  <2>1. Filled' = Filled
    BY <1>8 DEF Tick, poolVars, Filled
  <2>2. QED
    BY <1>8, <2>1, SMTT(20) DEF IInv, Tick, poolVars
<1>9. ASSUME NEW p \in Pids, PollReaps(p) PROVE IInv'
  <2>1. CASE \E n \in Slots : slot[n] = p
    <3>1. PICK n \in Slots : slot[n] = p
      BY <2>1
    <3>2. Cardinality(Filled') = Cardinality(Filled) - 1 /\ Cardinality(Filled) > 0
      BY <1>9, <2>1, <3>1, OneEntryLess DEF IInv, PollReaps
    <3>3. QED
      BY <1>9, <2>1, <3>2, FilledFinite, SMTT(30) DEF IInv, PollReaps
  <2>2. CASE ~\E n \in Slots : slot[n] = p
    <3>1. Filled' = Filled
      BY <1>9, <2>2 DEF PollReaps, Filled
    <3>2. QED
      BY <1>9, <2>2, <3>1, SMTT(30) DEF IInv, PollReaps
  <2>3. QED
    BY <2>1, <2>2
<1>10. ASSUME NEW p \in Pids, PollStopped(p) PROVE IInv'
  <2>1. Filled' = Filled
    BY <1>10 DEF PollStopped, Filled
  <2>2. QED
    BY <1>10, <2>1, SMTT(20) DEF IInv, PollStopped
<1> QED
  BY <1>1, <1>2, <1>3, <1>4, <1>5, <1>6, <1>7, <1>8, <1>9, <1>10

\* Every other end of a process is one of the deaths above.
LEMMA EndKeeps ==
    ASSUME IInv, NEW p \in Pids, UNCHANGED <<placeVars, control>>,
           \/ Crashes(p) \/ WorkerFails(p) \/ InheritedEnds(p) \/ Dies(p) \/ AcceptShut(p)
           \/ proc[p] \in Starting /\ Fails(p)
    PROVE  IInv'
<1>1. PICK how \in Zombies : Ends(p, how) /\ Death(p, how)
  BY DEF Crashes, WorkerFails, InheritedEnds, Dies, AcceptShut, Fails, ExitsCleanly, Death,
         Zombies, Remains, Starting, Serving
<1>2. QED
  BY <1>1, DeathKeeps

\* The workers' setup, accept and end, and SIGKILL, SIGTERM, stops and the reuse of
\* identifiers, at any moment.
LEMMA OthersKeep ==
    ASSUME IInv, Others
    PROVE  IInv'
<1> USE PoolAssumption, GraceAssumption
<1> USE DEF TypeOK, PoolTypeOK, Table, Recorded, Counted, Modes, Troubles,
           OrphanNeverServes, CleanExitMeansDrained, Starts, Boundary, Own, Supervising,
               NamesChild, Slots, Signals,
           Running, Starting, Serving, Remains, Zombies, Lives, Child
<1> USE DEF Runs, Goto, Keeps, Exits, Failure, CallFails, SupervisorEnds, Kill, Notify,
            WorkerGoes,
           procVars, signalVars, placeVars, control
<1>1. ASSUME SupervisorKilled, UNCHANGED <<placeVars, control>> PROVE IInv'
  <2>1. Filled' = Filled
    BY <1>1 DEF SupervisorKilled, Filled
  <2>2. QED
    BY <1>1, <2>1, SMTT(20) DEF IInv, SupervisorKilled
<1>2. ASSUME Terminate, UNCHANGED <<placeVars, control>> PROVE IInv'
  <2>1. Filled' = Filled
    BY <1>2 DEF Terminate, Filled
  <2>2. QED
    BY <1>2, <2>1, SMTT(20) DEF IInv, Terminate
<1>3. ASSUME NEW p \in Pids, Reuse(p), UNCHANGED <<placeVars, control>> PROVE IInv'
  <2>1. Filled' = Filled
    BY <1>3 DEF Reuse, Filled
  <2>2. QED
    BY <1>3, <2>1, SMTT(20) DEF IInv, Reuse
<1>4. ASSUME NEW p \in Pids, TracerStop(p), UNCHANGED <<placeVars, control>> PROVE IInv'
  <2>1. Filled' = Filled
    BY <1>4 DEF TracerStop, Filled
  <2>2. QED
    BY <1>4, <2>1, SMTT(20) DEF IInv, TracerStop
<1>5. ASSUME NEW p \in Pids, Accept(p), UNCHANGED <<placeVars, control>> PROVE IInv'
  <2>1. Filled' = Filled
    BY <1>5 DEF Accept, Filled
  <2>2. QED
    BY <1>5, <2>1, SMTT(20) DEF IInv, Accept
<1>6. ASSUME NEW p \in Pids, Serve(p), UNCHANGED <<placeVars, control>> PROVE IInv'
  <2>1. Filled' = Filled
    BY <1>6 DEF Serve, Filled
  <2>2. QED
    BY <1>6, <2>1, SMTT(20) DEF IInv, Serve
<1>7. ASSUME NEW p \in Pids, Setup(p), UNCHANGED <<placeVars, control>> PROVE IInv'
  <2>1. ASSUME WorkerGoes(p, "protected"), proc[p] = "starting" PROVE IInv'
    <3>1. Filled' = Filled
      BY <2>1 DEF Filled
    <3>2. QED
      BY <1>7, <2>1, <3>1, SMTT(20) DEF IInv
  <2>2. ASSUME WorkerGoes(p, "idle"), proc[p] = "protected", exit = "none" PROVE IInv'
    <3>1. Filled' = Filled
      BY <2>2 DEF Filled
    <3>2. QED
      BY <1>7, <2>2, <3>1, SMTT(20) DEF IInv
  <2>3. ASSUME Fails(p), proc[p] \in Starting PROVE IInv'
    BY <1>7, <2>3, EndKeeps
  <2>4. QED
    BY <1>7, <2>1, <2>2, <2>3 DEF Setup, Protect, Confirm
<1>8. ASSUME NEW p \in Pids, UNCHANGED <<placeVars, control>>,
             Crashes(p) \/ WorkerFails(p) \/ InheritedEnds(p) \/ Dies(p) \/ AcceptShut(p)
      PROVE IInv'
  BY <1>8, EndKeeps
<1> QED
  BY <1>1, <1>2, <1>3, <1>4, <1>5, <1>6, <1>7, <1>8 DEF Others, Environment, Kernel

\* At exec there is no worker, an empty table and no trouble.
LEMMA InitHolds == Init => IInv
<1> SUFFICES ASSUME Init PROVE IInv
  OBVIOUS
<1> USE PoolAssumption, GraceAssumption DEF Init, SupervisorInit, PoolInit
<1>1. TypeOK
  BY DEF TypeOK, PoolTypeOK, Slots, Lives, Signals
<1>2. Table /\ Recorded
  BY DEF Table, Recorded, Starts, Boundary, NamesChild, Own, Running, Starting, Serving, Remains
<1>3. Counted /\ Modes /\ Troubles
  BY DEF Counted, Modes, Troubles, Supervising, Starts, Boundary
<1>4. QED
  BY <1>1, <1>2, <1>3 DEF IInv, OrphanNeverServes, CleanExitMeansDrained

\* Every step of the supervisor, its children, the kernel and the clock keeps the
\* account.
LEMMA StepHolds == IInv /\ [Next]_vars => IInv'
<1> SUFFICES ASSUME IInv, [Next]_vars PROVE IInv'
  OBVIOUS
<1>1. CASE Steps
  <2>1. CASE Supervisor /\ UNCHANGED control
    <3>1. CASE SetupPool \/ Fork \/ ForkFails \/ CloseListener
      BY <2>1, <3>1, StartKeeps
    <3>2. CASE KillNext \/ KillDone \/ DrainDone
      BY <2>1, <3>2, PlainKeeps
    <3>3. CASE \E p \in Pids : WaitReaps(p) \/ WaitStopped(p) \/ DrainReaps(p)
      BY <2>1, <3>3, PlainKeeps
    <3>4. QED
      BY <2>1, <3>1, <3>2, <3>3 DEF Supervisor
  <2>2. CASE BlockSignals \/ ResetTerm \/ ForkDone
    BY <2>2, StartKeeps
  <2>3. CASE Reap \/ PollNothing \/ WaitSignal \/ TakeChild \/ TakeTimeout \/ TakeTerm
    BY <2>3, GracefulKeeps
  <2>4. CASE \E p \in Pids : PollReaps(p) \/ PollStopped(p)
    BY <2>4, GracefulKeeps
  <2>5. QED
    BY <1>1, <2>1, <2>2, <2>3, <2>4 DEF Steps
<1>2. CASE SupervisorMayFail /\ UNCHANGED control
  BY <1>2, PlainKeeps DEF SupervisorMayFail
<1>3. CASE PollFails \/ Tick
  BY <1>3, GracefulKeeps
<1>4. CASE Others
  BY <1>4, OthersKeep
<1>5. CASE UNCHANGED vars
  <2>1. Filled' = Filled
    BY <1>5 DEF vars, poolVars, Filled
  <2>2. QED
    BY <1>5, <2>1 DEF vars, poolVars, procVars, signalVars, placeVars, control, IInv, TypeOK,
       PoolTypeOK, Table, Recorded, Counted, Modes, Troubles, OrphanNeverServes,
       CleanExitMeansDrained, Own, Supervising, NamesChild, Running
<1>6. QED
  BY <1>1, <1>2, <1>3, <1>4, <1>5 DEF Next

\* The account of table, LIVE, signals and troubles is never wrong.
THEOREM Invariant == Spec => []IInv
BY InitHolds, StepHolds, PTL DEF Spec

-----------------------------------------------------------------------------
\* Every variable keeps its type; in particular LIVE stays between 0 and Workers.
THEOREM PoolTyped == Spec => []TypeOK
<1>1. IInv => TypeOK
  BY DEF IInv
<1> QED
  BY Invariant, <1>1, PTL

\* child_setup compares getppid after PR_SET_PDEATHSIG: a worker whose supervisor
\* died between the fork and the comparison never serves.
THEOREM OrphansNeverServe == Spec => []OrphanNeverServes
<1>1. IInv => OrphanNeverServes
  BY DEF IInv
<1> QED
  BY Invariant, <1>1, PTL

\* "so a recycled PID cannot be signalled": up to the last kill the table names
\* children that were not reaped, also while stopped and foreign children are
\* reported and identifiers are handed out again.
THEOREM RecycledNeverSignalled == Spec => []TableNamesChildren
<1>1. IInv => TableNamesChildren
  BY DEF IInv, Table, TableNamesChildren
<1> QED
  BY Invariant, <1>1, PTL

\* In the graceful loop LIVE, the table and the process tree agree.
THEOREM LiveExact == Spec => []LiveIsExact
<1>1. ASSUME IInv, Supervising PROVE LiveIsExact
  <2> DEFINE named == [n \in Filled |-> slot[n]]
  <2>1. TypeOK /\ Table /\ Recorded /\ Counted /\ ppc \notin Boundary
    BY <1>1 DEF IInv, Supervising, Boundary
  <2>2. Own = {slot[n] : n \in Filled}
    BY <2>1, PoolAssumption
    DEF Recorded, Table, NamesChild, Own, Filled, TypeOK, PoolTypeOK, Boundary
  <2>3. named \in Bijection(Filled, Own)
    <3>1. named \in [Filled -> Own] /\ \A m, n \in Filled : named[m] = named[n] => m = n
      BY <2>1, <2>2 DEF Table, Filled
    <3>2. \A p \in Own : \E n \in Filled : named[n] = p
      BY <2>2
    <3>3. QED
      BY <3>1, <3>2 DEF Bijection, Injection, Surjection, IsInjective
  <2>4. Cardinality(Own) = Cardinality(Filled)
    BY <2>3, FilledFinite, FS_Bijection DEF ExistsBijection
  <2>5. live = Cardinality(Filled)
    BY <1>1, <2>1 DEF Counted
  <2>6. QED
    BY <2>2, <2>4, <2>5 DEF LiveIsExact, Filled
<1>2. IInv => LiveIsExact
  BY <1>1 DEF LiveIsExact
<1> QED
  BY Invariant, <1>2, PTL

\* Status 0: a shutdown was asked for, the listener is shut, every worker ended
\* and none failed, nor did any call.
THEOREM CleanExit == Spec => []CleanExitMeansDrained
<1>1. IInv => CleanExitMeansDrained
  BY DEF IInv
<1> QED
  BY Invariant, <1>1, PTL

\* However it comes to the failure boundary, a partial start included, the
\* supervisor exits with 1 only when every worker was sent SIGKILL.
THEOREM NoServiceLeft == Spec => ExitLeavesNoService
<1>1. ASSUME IInv, [Next]_vars, exit = "none", exit' = "fail"
      PROVE  \A p \in Pids : proc[p] \notin Starting \cup Serving
  <2>1. \/ ppc = "drain" \/ ppc \in Starts \/ \A p \in Pids : ~Child(p)
    BY <1>1 DEF Next, Steps, Supervisor, SupervisorMayFail, Others, Environment, Kernel, Setup,
       SetupPool, Fork, ForkFails, CloseListener, KillNext, KillDone, DrainDone, WaitReaps,
       WaitStopped, DrainReaps, WaitFails, DrainFails, BlockSignals, ResetTerm, ForkDone, Reap,
       PollNothing, PollFails, WaitSignal, TakeChild, TakeTimeout, TakeTerm, PollReaps,
           PollStopped,
       Tick, Terminate, SupervisorKilled, Crashes, InheritedEnds, Reuse, TracerStop, Accept,
           Serve,
       WorkerFails, Dies, Protect, Confirm, AcceptShut, Runs, Goto, Failure, CallFails,
           Exits, Ends,
       Fails, ExitsCleanly, WorkerGoes, SupervisorEnds, Starts, vars, poolVars
  <2>2. CASE ppc = "drain"
    BY <1>1, <2>2 DEF IInv, Recorded
  <2>3. CASE ppc \in Starts
    BY <1>1, <2>3, PoolAssumption DEF IInv, Table, Recorded, Own, Running, Starts, Boundary
  <2>4. CASE \A p \in Pids : ~Child(p)
    BY <2>4 DEF Child, Running
  <2>5. QED
    BY <2>1, <2>2, <2>3, <2>4
<1>2. IInv /\ [Next]_vars =>
        [exit = "none" /\ exit' = "fail" => \A p \in Pids : proc[p] \notin Starting \cup Serving]_vars
  BY <1>1
<1> QED
  BY Invariant, <1>2, PTL DEF Spec, ExitLeavesNoService

\* Requests that were accepted get the whole grace period: SIGKILL starts only
\* after the deadline, or when a worker failed, a child was no worker, or a call
\* was refused.
THEOREM KillsJustified == Spec => NoEarlyKill
<1>1. ASSUME IInv, [Next]_vars, ppc # "kill", ppc' = "kill"
      PROVE  (draining = "yes" /\ left = 0) \/ trouble' = "yes"
  <2>1. \/ Expired
        \/ trouble' = "yes"
        \/ \E p \in Pids : WaitReaps(p) \/ PollReaps(p)
    BY <1>1 DEF Next, Steps, Supervisor, SupervisorMayFail, Others, placeVars,
       SetupPool, Fork, ForkFails, CloseListener, KillNext, KillDone, DrainDone,
       WaitStopped, DrainReaps, WaitFails, DrainFails, BlockSignals, ResetTerm, ForkDone, Reap,
       PollNothing, PollFails, WaitSignal, TakeChild, TakeTimeout, TakeTerm, PollStopped,
       Tick, Runs, Goto, Failure, CallFails, Exits, vars
  <2>2. ASSUME NEW p \in Pids, WaitReaps(p) PROVE trouble' = "yes"
    BY <1>1, <2>2 DEF IInv, WaitReaps, Runs, Troubles, Modes, Boundary, Zombies, Remains, Starts,
       TypeOK, PoolTypeOK
  <2>3. ASSUME NEW p \in Pids, PollReaps(p) PROVE trouble' = "yes"
    BY <1>1, <2>3, PoolAssumption DEF IInv, PollReaps, Runs, Goto, Troubles, Modes,
                                      Boundary, Zombies, Remains, Starts,
       TypeOK, PoolTypeOK, Failure, Table, NamesChild, Running, Starting, Serving
  <2>4. QED
    BY <2>1, <2>2, <2>3 DEF Expired
<1>2. IInv /\ [Next]_vars =>
        [ppc # "kill" /\ ppc' = "kill" => (draining = "yes" /\ left = 0) \/ trouble' = "yes"]_vars
  BY <1>1
<1> QED
  BY Invariant, <1>2, PTL DEF Spec, NoEarlyKill
=============================================================================

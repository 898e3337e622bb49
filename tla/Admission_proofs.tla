-------------------------- MODULE Admission_proofs --------------------------
(***************************************************************************)
(* The admission bound for every Limit and every finite set of process      *)
(* identifiers, when the process is executed without children of its own.   *)
(*                                                                         *)
(* The bound on live handlers is not inductive: it needs the counter to be  *)
(* exact, which needs every death to be waitable (SIGCHLD reset before the  *)
(* first fork) and fork to be reached only below Limit.                     *)
(***************************************************************************)
EXTENDS Admission, FiniteSetTheorems, TLAPS

\* Every death since the first fork has left a zombie for the drain to count.
DeathsAreWaitable ==
    /\ pc \notin {"setup", "exited"} => sigchld = "dfl"
    /\ sigchld = "dfl" \/ Unreaped = {}

\* No child exists before the loop, and a fork is only in flight below Limit.
SlotsAvailable ==
    /\ pc = "setup" => Unreaped = {}
    /\ pc = "increment" => count < Limit
    /\ Cardinality(Unreaped) <= Limit

\* The inductive strengthening of AdmittedWithinLimit.
IInv ==
    /\ TypeOK
    /\ CountIsExact
    /\ AccountingNeverContradicted
    /\ DeathsAreWaitable
    /\ SlotsAvailable

-----------------------------------------------------------------------------
\* The children wait4 can return form a finite set with a natural cardinality.
LEMMA UnreapedFinite ==
    IsFiniteSet(Unreaped) /\ Cardinality(Unreaped) \in Nat
<1>1. Unreaped \subseteq Pids
  BY DEF Unreaped
<1>2. QED
  BY <1>1, AdmissionAssumption, FS_Subset, FS_CardinalityType

\* A process identifier leaving or entering the kernel's table of children
\* changes their number by one.
LEMMA UnreapedRemove ==
    ASSUME NEW p \in Pids, p \in Unreaped, Unreaped' = Unreaped \ {p}
    PROVE  Cardinality(Unreaped') = Cardinality(Unreaped) - 1
BY UnreapedFinite, FS_RemoveElement

LEMMA UnreapedAdd ==
    ASSUME NEW p \in Pids, p \notin Unreaped, Unreaped' = Unreaped \cup {p}
    PROVE  Cardinality(Unreaped') = Cardinality(Unreaped) + 1
BY UnreapedFinite, FS_AddElement

\* A drained table means a zero count, and a reapable child a positive one.
LEMMA UnreapedEmpty == Unreaped = {} <=> Cardinality(Unreaped) = 0
BY UnreapedFinite, FS_EmptySet

\* The program starts with no children, so with an exact zero counter.
LEMMA InitIInv == ASSUME Inherited = {} PROVE Init => IInv
<1> SUFFICES ASSUME Init PROVE IInv
  OBVIOUS
<1>1. Unreaped = {}
  BY DEF Init, Unreaped
<1>2. Cardinality(Unreaped) = 0
  BY <1>1, UnreapedEmpty
<1> QED
  BY <1>1, <1>2, AdmissionAssumption
  DEF Init, IInv, TypeOK, CountIsExact, AccountingNeverContradicted,
      DeathsAreWaitable, SlotsAvailable, PcLabels, Lives

-----------------------------------------------------------------------------
\* Steps of the parent that leave every child alone preserve the invariant.
LEMMA ParentAloneStep ==
    ASSUME IInv, UNCHANGED <<proc, stopped, origin>>,
           \/ Setup \/ ReapNothing \/ ReapNoChild \/ ReapFailed
           \/ PollReady \/ PollAgain \/ PollFailed
           \/ AcceptClient \/ AcceptRetry \/ AcceptFailed
           \/ Refuse \/ ForkFailed \/ Increment \/ CloseClient
    PROVE  IInv'
<1>1. Unreaped' = Unreaped
  BY DEF Unreaped
<1>2. Cardinality(Unreaped) \in Nat /\ (Unreaped = {} <=> Cardinality(Unreaped) = 0)
  BY UnreapedFinite, UnreapedEmpty
<1> USE <1>1, <1>2, AdmissionAssumption
  DEF IInv, TypeOK, CountIsExact, AccountingNeverContradicted,
      DeathsAreWaitable, SlotsAvailable, PcLabels, Goto, Exit
<1>3. CASE Setup
  BY <1>3 DEF Setup
<1>4. CASE ReapNothing
  BY <1>4 DEF ReapNothing, Reaping, AfterReap
<1>5. CASE ReapNoChild
  BY <1>5 DEF ReapNoChild, Reaping, AfterReap
<1>6. CASE ReapFailed \/ PollFailed \/ AcceptFailed
  BY <1>6 DEF ReapFailed, PollFailed, AcceptFailed, Reaping
<1>7. CASE PollReady \/ PollAgain
  BY <1>7 DEF PollReady, PollAgain
<1>8. CASE AcceptClient \/ AcceptRetry
  BY <1>8 DEF AcceptClient, AcceptRetry
<1>9. CASE Refuse \/ ForkFailed
  BY <1>9 DEF Refuse, ForkFailed
<1>10. CASE Increment
  BY <1>10 DEF Increment
<1>11. CASE CloseClient
  BY <1>11 DEF CloseClient
<1> QED
  BY <1>3, <1>4, <1>5, <1>6, <1>7, <1>8, <1>9, <1>10, <1>11

\* Reaping a dead child releases exactly the slot it held.
LEMMA ReapStep ==
    ASSUME IInv, NEW p \in Pids, ReapTerminated(p)
    PROVE  IInv'
<1>1. p \in Unreaped /\ Unreaped' = Unreaped \ {p}
  BY DEF ReapTerminated, IInv, TypeOK, Lives, Unreaped
<1>2. Cardinality(Unreaped') = Cardinality(Unreaped) - 1
  BY <1>1, UnreapedRemove
<1>3. Cardinality(Unreaped) = count /\ pc # "exited" /\ pc # "setup"
  BY DEF ReapTerminated, Reaping, IInv, CountIsExact, TypeOK
<1>4. count \in Nat /\ count > 0
  BY <1>1, <1>3, UnreapedFinite, UnreapedEmpty
<1>5. pc' = pc /\ cause' = cause /\ count' = count - 1 /\ sigchld' = sigchld
  BY <1>4 DEF ReapTerminated
<1>6. TypeOK'
  BY <1>4, <1>5, AdmissionAssumption DEF ReapTerminated, IInv, TypeOK, Lives
<1>7. CountIsExact' /\ AccountingNeverContradicted'
  BY <1>2, <1>3, <1>4, <1>5
  DEF ReapTerminated, Reaping, IInv, CountIsExact, AccountingNeverContradicted
<1>8. DeathsAreWaitable'
  BY <1>3, <1>5 DEF IInv, DeathsAreWaitable
<1>9. SlotsAvailable'
  BY <1>2, <1>3, <1>4, <1>5, AdmissionAssumption
  DEF ReapTerminated, Reaping, IInv, SlotsAvailable
<1> QED
  BY <1>6, <1>7, <1>8, <1>9 DEF IInv

\* fork happens below Limit and the child it adds is the one about to be counted.
LEMMA ForkStep ==
    ASSUME IInv, NEW p \in Pids, Fork(p)
    PROVE  IInv'
<1>1. p \notin Unreaped /\ Unreaped' = Unreaped \cup {p}
  BY DEF Fork, IInv, TypeOK, Lives, Unreaped
<1>2. Cardinality(Unreaped') = Cardinality(Unreaped) + 1
  BY <1>1, UnreapedAdd
<1>3. /\ Cardinality(Unreaped) = count /\ count \in Nat /\ count < Limit
      /\ pc' = "increment" /\ UNCHANGED <<count, cause, sigchld>>
  BY AdmissionAssumption DEF Fork, Goto, Full, IInv, CountIsExact, TypeOK
<1>4. TypeOK'
  BY <1>3, AdmissionAssumption DEF Fork, Goto, IInv, TypeOK, Lives, PcLabels
<1>5. CountIsExact' /\ AccountingNeverContradicted' /\ DeathsAreWaitable'
  BY <1>2, <1>3
  DEF Fork, IInv, CountIsExact, AccountingNeverContradicted, DeathsAreWaitable
<1>6. SlotsAvailable'
  BY <1>2, <1>3, AdmissionAssumption DEF SlotsAvailable
<1> QED
  BY <1>4, <1>5, <1>6 DEF IInv

\* What children and tracers do changes no slot: a dead child is still waitable.
LEMMA ChildStep ==
    ASSUME IInv, NEW p \in Pids,
           ChildStart(p) \/ ChildExit(p) \/ TracerStop(p) \/ ReapStopped(p)
    PROVE  IInv'
<1>1. UNCHANGED parentVars
  BY DEF ChildStart, ChildExit, TracerStop, ReapStopped, Dies
<1>2. sigchld = "dfl"
  <2>1. p \in Unreaped
    BY DEF ChildStart, ChildExit, TracerStop, ReapStopped, Alive, Unreaped
  <2> QED
    BY <2>1 DEF IInv, DeathsAreWaitable
<1>3. Unreaped' = Unreaped
  BY <1>2 DEF ChildStart, ChildExit, TracerStop, ReapStopped, Dies, Alive,
              Unreaped, IInv, TypeOK, Lives
<1>4. TypeOK'
  BY <1>1 DEF ChildStart, ChildExit, TracerStop, ReapStopped, Dies, Alive,
              IInv, TypeOK, Lives, parentVars
<1> QED
  BY <1>1, <1>3, <1>4
  DEF IInv, CountIsExact, AccountingNeverContradicted, DeathsAreWaitable,
      SlotsAvailable, parentVars

\* Every step of the service preserves the invariant.
LEMMA NextIInv == IInv /\ [Next]_vars => IInv'
<1> SUFFICES ASSUME IInv, [Next]_vars PROVE IInv'
  OBVIOUS
<1>1. CASE UNCHANGED vars
  BY <1>1 DEF vars, IInv, TypeOK, CountIsExact, AccountingNeverContradicted,
              DeathsAreWaitable, SlotsAvailable, Unreaped
<1>2. CASE Child
  BY <1>2, ChildStep DEF Child
<1>3. CASE Parent
  <2>1. CASE \E p \in Pids : ReapTerminated(p) \/ ReapStopped(p)
    BY <2>1, ReapStep, ChildStep
  <2>2. CASE \E p \in Pids : Fork(p)
    BY <2>2, ForkStep
  <2>3. CASE \/ Setup \/ ReapNothing \/ ReapNoChild \/ ReapFailed
             \/ PollReady \/ PollAgain \/ PollFailed
             \/ AcceptClient \/ AcceptRetry \/ AcceptFailed
             \/ Refuse \/ ForkFailed \/ Increment \/ CloseClient
    <3>1. UNCHANGED <<proc, stopped, origin>>
      BY <2>3 DEF Setup, ReapNothing, ReapNoChild, ReapFailed, PollReady,
         PollAgain, PollFailed, AcceptClient, AcceptRetry, AcceptFailed,
         Refuse, ForkFailed, Increment, CloseClient, Exit
    <3> QED
      BY <3>1, <2>3, ParentAloneStep
  <2> QED
    BY <1>3, <2>1, <2>2, <2>3 DEF Parent
<1> QED
  BY <1>1, <1>2, <1>3 DEF Next, Quiet

-----------------------------------------------------------------------------
\* The parent's variables keep their types and its counter stays in 0..Limit,
\* the counter equals the number of children not yet reaped, and neither
\* accounting error of reap is reachable.
THEOREM AdmissionAccounting ==
    ASSUME Inherited = {}
    PROVE  Spec => [](TypeOK /\ CountIsExact /\ AccountingNeverContradicted)
<1>1. Init => IInv
  BY InitIInv
<1>2. IInv => TypeOK /\ CountIsExact /\ AccountingNeverContradicted
  BY DEF IInv
<1> QED
  BY <1>1, <1>2, NextIInv, PTL DEF Spec

\* max_connections holds: at most Limit handler children are ever alive.
THEOREM AdmissionBound ==
    ASSUME Inherited = {}
    PROVE  Spec => []AdmittedWithinLimit
<1>1. Init => IInv
  BY InitIInv
<1>2. IInv => AdmittedWithinLimit
  <2> SUFFICES ASSUME IInv PROVE Cardinality(Handlers) <= Limit
    BY DEF AdmittedWithinLimit
  <2>1. Handlers \subseteq Unreaped
    BY DEF Handlers, Unreaped, Alive
  <2>2. Cardinality(Handlers) <= Cardinality(Unreaped)
    BY <2>1, UnreapedFinite, FS_Subset
  <2>3. Cardinality(Handlers) \in Nat
    BY <2>1, UnreapedFinite, FS_Subset, FS_CardinalityType
  <2> QED
    BY <2>2, <2>3, UnreapedFinite, AdmissionAssumption DEF IInv, SlotsAvailable
<1> QED
  BY <1>1, <1>2, NextIInv, PTL DEF Spec

\* No client is turned away while a slot is free: the refusal that the emitted
\* comparison takes implies that Limit children have not been reaped.
THEOREM RefusalsJustified ==
    ASSUME Inherited = {}
    PROVE  Spec => RefusedOnlyWhenFull
<1>1. Init => IInv
  BY InitIInv
<1>2. IInv /\ [Next]_vars => [pc = "admit" /\ Refuse => Cardinality(Unreaped) = Limit]_vars
  <2> SUFFICES ASSUME IInv, pc = "admit", Refuse
               PROVE  Cardinality(Unreaped) = Limit
    OBVIOUS
  <2>1. Cardinality(Unreaped) = count /\ count \in 0..Limit
    BY DEF IInv, CountIsExact, TypeOK
  <2>2. QED
    BY <2>1, AdmissionAssumption DEF Refuse, Full
<1> QED
  BY <1>1, <1>2, NextIInv, PTL DEF Spec, RefusedOnlyWhenFull

\* The parent polls and accepts with an empty client slot: whatever it did with a
\* client, refusals and failed forks included, it passes `close` on the way back.
\* Nothing is assumed of inherited children.
THEOREM ClientsClosed == Spec => []NoClientLeak
<1> DEFINE Closed == pc = "setup" => client = "none"
<1>1. Init => NoClientLeak /\ Closed
  BY DEF Init, NoClientLeak
<1>2. NoClientLeak /\ Closed /\ [Next]_vars => (NoClientLeak /\ Closed)'
  BY DEF NoClientLeak, Next, Parent, Child, Quiet, Setup, ReapTerminated, ReapStopped,
         ReapNothing, ReapNoChild, ReapFailed, PollReady, PollAgain, PollFailed,
         AcceptClient, AcceptRetry, AcceptFailed, Refuse, Fork, ForkFailed, Increment,
         CloseClient, ChildStart, ChildExit, Dies, TracerStop, Exit, Goto, Reaping,
         AfterReap, vars, parentVars
<1> QED
  BY <1>1, <1>2, PTL DEF Spec

=============================================================================

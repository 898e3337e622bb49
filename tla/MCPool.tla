------------------------------- MODULE MCPool -------------------------------
(* Both supervisors with two workers.  A third process identifier is there   *)
(* for another program, so that a reaped identifier can be taken while a     *)
(* sibling is still to be killed, or for a child older than the service.     *)
EXTENDS PoolShutdown
=============================================================================

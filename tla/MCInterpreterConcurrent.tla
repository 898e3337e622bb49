---------------------- MODULE MCInterpreterConcurrent ----------------------
(* Model checking of the interpreter's concurrent mode. *)
EXTENDS InterpreterConcurrent
=============================================================================

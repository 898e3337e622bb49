------------------------ MODULE MCNativeConcurrent ------------------------
(* The emitted scheduler on a small instance: two waves over two lanes, the  *)
(* second wave not full, batches of one and of two, of which the last one may *)
(* be partial, and inputs with at most MaxFalse false results.               *)
EXTENDS NativeConcurrent, FiniteSets

CONSTANT MaxFalse  \* bound: false results of an input

MCInit == Init /\ Cardinality(input.falsy) <= MaxFalse

MCSpec == MCInit /\ [][Next]_vars /\ Fairness
=============================================================================

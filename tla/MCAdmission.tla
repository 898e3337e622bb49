---------------------------- MODULE MCAdmission ----------------------------
(* Admission on small instances.  The process identifiers are interchangeable *)
(* but carry a leads-to property, so no symmetry is declared.                 *)
EXTENDS Admission
=============================================================================

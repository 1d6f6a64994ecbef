----------------------------- MODULE MCJobRecord -----------------------------
(* A small instance of JobRecord. *)
EXTENDS JobRecord, TLC
=============================================================================

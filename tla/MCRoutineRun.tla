---------------------------- MODULE MCRoutineRun ----------------------------
(* A small instance of RoutineRun: one run with a deliberation, one without. *)
EXTENDS RoutineRun, TLC

CONSTANTS r1, r2

MCPlan == r1 :> <<"delib">> @@ r2 :> <<"tools">>
MCRunCalls == r1 :> 3 @@ r2 :> 1
=============================================================================

--------------------------- MODULE MCDelibEngine ---------------------------
(***************************************************************************)
(* A small instance of one deliberation: its engine (DelibEngine, two      *)
(* seats, jobs with and without lookups, reports and further stages), or   *)
(* the board that the calls of an external seat wait on (ExternalBoard,    *)
(* two questions to one user's workflow).                                  *)
(***************************************************************************)
EXTENDS DelibEngine, ExternalBoard

CONSTANTS s1, s2, t1, t2, u1

SeatsVal == {s1, s2}
Job(plan, looks, save, wiki, stop, lives, full) ==
    [plan |-> plan, looks |-> looks, save |-> save, wiki |-> wiki, stop |-> stop,
     lives |-> lives, full |-> full]
Main == <<"main">>
Sim == <<"sim-1", "sim-2", "sim-3">>
JobsVal ==
    {Job(Main, TRUE, TRUE, FALSE, FALSE, 2, FALSE),
     Job(Main, FALSE, FALSE, FALSE, FALSE, 2, TRUE),
     Job(Main, FALSE, TRUE, FALSE, FALSE, 3, FALSE),
     Job(<<"tp">>, TRUE, FALSE, FALSE, TRUE, 3, TRUE),
     Job(Sim, FALSE, TRUE, TRUE, FALSE, 2, FALSE)}

OwnersVal == [t \in Tasks |-> u1]

VARIABLE mode   \* "engine" | "board"

MCInit ==
    /\ mode \in {"engine", "board"}
    /\ Init /\ (mode = "board" => job = Job(Main, TRUE, TRUE, FALSE, FALSE, 2, FALSE))
    /\ BoardInit

Runs(Act) == mode = "engine" /\ Act /\ UNCHANGED <<mode, boardVars>>
Asks(Act) == mode = "board" /\ Act /\ UNCHANGED <<mode, vars>>

MCNext ==
    \/ mode = "engine" /\ Next /\ UNCHANGED <<mode, boardVars>>
    \/ mode = "board" /\ BoardNext /\ UNCHANGED <<mode, vars>>

\* The fairness of DelibEngine!LiveSpec and of ExternalBoard!LiveBoardSpec: Elapse
\* and Sweep take turns, so one condition stands for theirs.
Drive == Runs(Step) \/ Asks(Elapse \/ Sweep)

MCSpec == MCInit /\ [][MCNext]_<<mode, vars, boardVars>> /\ WF_<<vars, boardVars>>(Drive)

-----------------------------------------------------------------------------

\* An attempt of the engine ends (DelibEngine), and so does every question
\* (ExternalBoard).
EverythingEnds == (mode = "engine" /\ Alive ~> ~Alive) /\ EveryTaskEnds

=============================================================================

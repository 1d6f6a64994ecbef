----------------------------- MODULE DelibQueue -----------------------------
(***************************************************************************)
(* The waiting line of the deliberation jobs (src/delib_jobs.py): who may  *)
(* start, who waits, who is launched next, and how cancelling, the end of  *)
(* a job, the limits an operator moves, the pause flag and the shutdown of *)
(* the server act on that line.                                            *)
(*                                                                         *)
(* One asyncio process: the code between two awaits is one action.  What   *)
(* the same handlers write to disk is the subject of DelibLedger.          *)
(***************************************************************************)
EXTENDS Integers, FiniteSets, FiniteSetsExt

CONSTANTS
    Jobs,           \* requests the users may make; an ended one is made anew
    External,       \* the jobs whose judge is an external responder
    Anon,           \* the owner of a call that carries no identity
    OwnerOf,        \* job -> the user (or task owner) it counts against
    Est,            \* job -> seats estimated before the panel is seated
    MaxSeats,       \* bound: the largest panel a run can seat
    Carried,        \* jobs an earlier process may have left interrupted
    LimitChoices    \* the values the box file and the environment may hold

ASSUME JobsAssumption ==
    IsFiniteSet(Jobs) /\ External \subseteq Jobs /\ Carried \subseteq Jobs
ASSUME EstAssumption == Est \in [Jobs -> Nat \ {0}] /\ MaxSeats \in Nat \ {0}
ASSUME OwnerAssumption == \A j \in External : OwnerOf[j] # Anon
ASSUME LimitAssumption ==
    LimitChoices \subseteq
        [run : Nat \ {0}, user : Nat \ {0}, queue : Nat, seats : Nat]

ExternalPerOwner == 1

VARIABLES
    status,     \* job -> job["status"]; "none": not asked for, or done or error
    pos,        \* job -> its place in _PENDING (1 is the head), 0 outside it
    seats,      \* job -> seats of its panel, 0 before the personas event and
                \* for a job that is over
    entered,    \* jobs whose task has entered the body of _drive
    finishing,  \* jobs that carry the finishing mark
    cancelReq,  \* running jobs whose task was told to cancel
    limits,     \* what limits() returns
    paused,     \* what _paused() returns
    phase       \* "up"; "closing": _CLOSING is set; "down": shutdown() ran

vars == <<status, pos, seats, entered, finishing, cancelReq,
          limits, paused, phase>>

Statuses == {"none", "queued", "running", "cancelled", "interrupted"}

-----------------------------------------------------------------------------
(* What the code counts.                                                   *)

Closing == phase # "up"

GLM(S) == S \ External

Running(st) == {j \in Jobs : st[j] = "running"}

Line(p) == {j \in Jobs : p[j] > 0}

\* _seats_of: the seated panel once there is one, the estimate before.
SeatsOf(se, j) == IF se[j] > 0 THEN se[j] ELSE Est[j]

SeatSum(se, S) == MapThenSumSet(LAMBDA j : SeatsOf(se, j), S)

\* _running_of, _external_running_of: the owner's share of the running set R.
GLMOf(R, o) == {k \in GLM(R) : o # Anon /\ OwnerOf[k] = o}

ExternalOf(R, o) == {k \in R \cap External : OwnerOf[k] = o}

-----------------------------------------------------------------------------
(* _pump.  R is the running set at the moment the loop looks at job j.     *)

\* Mutant: the last free slot is given twice.
WithinCountsOffByOne(j, R, lim) ==
    /\ Cardinality(GLM(R)) <= lim.run
    /\ Cardinality(GLMOf(R, OwnerOf[j])) <= lim.user

\* The two caps a GLM job is skipped for without holding the line.
WithinCounts(j, R, lim) ==
    /\ Cardinality(GLM(R)) < lim.run
    /\ Cardinality(GLMOf(R, OwnerOf[j])) < lim.user

\* A job alone runs even when it is larger than the cap.
WithinSeats(j, R, se, lim) ==
    \/ lim.seats = 0
    \/ GLM(R) = {}
    \/ SeatSum(se, GLM(R)) + SeatsOf(se, j) <= lim.seats

\* The running set when the loop reaches j, L being the jobs it launches.
RunningAt(j, L, st, p) == Running(st) \cup {k \in L : p[k] < p[j]}

\* Mutant: whoever fits in the free seats takes them.
NoSeatHold(j, L, st, p, se, lim) == FALSE

\* seat_hold: an earlier GLM job waits for seats, no later one may take them.
SeatHold(j, L, st, p, se, lim) ==
    /\ lim.seats > 0
    /\ \E k \in GLM(Line(p)) :
          /\ p[k] < p[j]
          /\ WithinCounts(k, RunningAt(k, L, st, p), lim)
          /\ ~WithinSeats(k, RunningAt(k, L, st, p), se, lim)

Fits(j, L, st, p, se, lim) ==
    LET R == RunningAt(j, L, st, p)
    IN  IF j \in External
        THEN Cardinality(ExternalOf(R, OwnerOf[j])) < ExternalPerOwner
        ELSE /\ WithinCounts(j, R, lim)
             /\ WithinSeats(j, R, se, lim)
             /\ ~SeatHold(j, L, st, p, se, lim)

\* L is what one pass over the line launches: whether a job is launched
\* depends only on the jobs launched before it.
IsLaunchSet(L, st, p, se, lim, held) ==
    IF held THEN L = {}
    ELSE \A j \in Line(p) : j \in L <=> Fits(j, L, st, p, se, lim)

\* The line keeps its order when jobs leave it: del _PENDING[jid].
Compact(p, S) ==
    [j \in Jobs |-> IF j \in S THEN Cardinality({k \in S : p[k] <= p[j]}) ELSE 0]

\* The pump at the end of a handler that left statuses st, line p, seats se.
Pump(st, p, se) ==
    \E L \in SUBSET Line(p) :
        /\ IsLaunchSet(L, st, p, se, limits', paused' \/ phase' # "up")
        /\ status' = [j \in Jobs |-> IF j \in L THEN "running" ELSE st[j]]
        /\ pos' = Compact(p, Line(p) \ L)

-----------------------------------------------------------------------------
(* start.                                                                  *)

\* The caps start() finds hit: they decide a refusal, never a launch.
Hit(j) ==
    LET R == Running(status)
    IN  IF j \in External
        THEN Cardinality(ExternalOf(R, OwnerOf[j])) >= ExternalPerOwner
        ELSE \/ Cardinality(GLM(R)) >= limits.run
             \/ Cardinality(GLMOf(R, OwnerOf[j])) >= limits.user
             \/ /\ limits.seats > 0
                /\ GLM(R) # {}
                /\ SeatSum(seats, GLM(R)) + Est[j] > limits.seats

Refused(j) ==
    \/ paused
    \/ Hit(j) /\ Cardinality(Line(pos)) >= limits.queue

\* Everybody joins the end of the line, then the line is pumped once.
Join(j) ==
    Pump([status EXCEPT ![j] = "queued"],
         [pos EXCEPT ![j] = Cardinality(Line(pos)) + 1], seats)

\* A new job.  The name of an ended job stands for the next request like it.
Start(j) ==
    /\ phase # "down"
    /\ status[j] \in {"none", "cancelled"}
    /\ ~Refused(j)
    /\ UNCHANGED <<seats, entered, finishing, cancelReq, limits, paused, phase>>
    /\ Join(j)

\* _reopen: an interrupted job joins the line again under its own id; if its
\* decision had been written before the cut it is finishing from the start.
Resume(j) ==
    /\ phase # "down"
    /\ status[j] = "interrupted"
    /\ ~Refused(j)
    /\ finishing' \in {finishing \ {j}, finishing \cup {j}}
    /\ UNCHANGED <<seats, entered, cancelReq, limits, paused, phase>>
    /\ Join(j)

-----------------------------------------------------------------------------
(* cancel, and what an operator moves.                                     *)

\* Mutant: the entry of _PENDING is forgotten.
CancelQueuedKeepsPlace(j) ==
    /\ phase # "down" /\ pos[j] > 0 /\ j \notin finishing
    /\ status' = [status EXCEPT ![j] = "cancelled"]
    /\ UNCHANGED <<pos, seats, entered, finishing, cancelReq, limits, paused, phase>>

\* Mutant: only running jobs are protected while they finish.
CancelQueuedUnguarded(j) ==
    /\ phase # "down" /\ pos[j] > 0
    /\ status' = [status EXCEPT ![j] = "cancelled"]
    /\ pos' = Compact(pos, Line(pos) \ {j})
    /\ UNCHANGED <<seats, entered, finishing, cancelReq, limits, paused, phase>>

\* A queued job leaves the line and nothing is pumped.
CancelQueued(j) ==
    /\ phase # "down"
    /\ pos[j] > 0
    /\ j \notin finishing
    /\ status' = [status EXCEPT ![j] = "cancelled"]
    /\ pos' = Compact(pos, Line(pos) \ {j})
    /\ seats' = [seats EXCEPT ![j] = 0]
    /\ UNCHANGED <<entered, finishing, cancelReq, limits, paused, phase>>

CancelRunning(j) ==
    /\ phase # "down"
    /\ status[j] = "running"
    /\ j \notin finishing
    /\ cancelReq' = cancelReq \cup {j}
    /\ UNCHANGED <<status, pos, seats, entered, finishing, limits, paused, phase>>

SetLimits(l) ==
    /\ phase # "down"
    /\ limits' = l
    /\ UNCHANGED <<seats, entered, finishing, cancelReq, paused, phase>>
    /\ Pump(status, pos, seats)

\* The box file edited by hand: the next reading sees it, nobody is told.
EditLimits(l) ==
    /\ limits' = l
    /\ UNCHANGED <<status, pos, seats, entered, finishing, cancelReq, paused, phase>>

PauseOn ==
    /\ phase # "down"
    /\ paused' = TRUE
    /\ UNCHANGED <<status, pos, seats, entered, finishing, cancelReq, limits, phase>>

\* /drain off pumps; a flag whose lifetime runs out does not.
PauseOff ==
    /\ phase # "down"
    /\ paused /\ paused' = FALSE
    /\ UNCHANGED <<seats, entered, finishing, cancelReq, limits, phase>>
    /\ Pump(status, pos, seats)

PauseLapse ==
    /\ paused /\ paused' = FALSE
    /\ UNCHANGED <<status, pos, seats, entered, finishing, cancelReq, limits, phase>>

Tick ==
    /\ Line(pos) # {}
    /\ UNCHANGED <<seats, entered, finishing, cancelReq, limits, paused, phase>>
    /\ Pump(status, pos, seats)

-----------------------------------------------------------------------------
(* The task of a running job: _drive and _settle.                          *)

\* A task told to cancel receives it at its next step: no event comes before.
Live(j) == status[j] = "running" /\ j \notin cancelReq

Enter(j) ==
    /\ Live(j) /\ j \notin entered
    /\ entered' = entered \cup {j}
    /\ UNCHANGED <<status, pos, seats, finishing, cancelReq, limits, paused, phase>>

\* The personas event: the real panel replaces the estimate.
Seat(j, n) ==
    /\ Live(j) /\ j \in entered
    /\ seats' = [seats EXCEPT ![j] = n]
    /\ UNCHANGED <<entered, finishing, cancelReq, limits, paused, phase>>
    /\ Pump(status, pos, seats')

Finishing(j) ==
    /\ Live(j) /\ j \in entered /\ seats[j] > 0
    /\ finishing' = finishing \cup {j}
    /\ UNCHANGED <<status, pos, seats, entered, cancelReq, limits, paused, phase>>

\* The decision of the stage; a later stage of the job can be cancelled again.
Decision(j) ==
    /\ Live(j) /\ j \in entered /\ j \in finishing
    /\ finishing' = finishing \ {j}
    /\ UNCHANGED <<status, pos, seats, entered, cancelReq, limits, paused, phase>>

\* Mutant: the end of a job leaves the pumping to the ticker.
EndWithoutPump(j, st) ==
    /\ entered' = entered \ {j}
    /\ cancelReq' = cancelReq \ {j}
    /\ seats' = [seats EXCEPT ![j] = IF st = "interrupted" THEN @ ELSE 0]
    /\ status' = [status EXCEPT ![j] = st]
    /\ UNCHANGED <<pos, limits, paused, phase>>

\* The job ends with status st; an interrupted one keeps its panel.
End(j, st) ==
    /\ entered' = entered \ {j}
    /\ cancelReq' = cancelReq \ {j}
    /\ seats' = [seats EXCEPT ![j] = IF st = "interrupted" THEN @ ELSE 0]
    /\ UNCHANGED <<limits, paused, phase>>
    /\ Pump([status EXCEPT ![j] = st], pos, seats')

\* The generator ends or raises: done and error take the same path.
Finish(j) ==
    /\ Live(j) /\ j \in entered
    /\ finishing' = finishing \ {j}
    /\ End(j, "none")

CutStatus == IF Closing THEN "interrupted" ELSE "cancelled"

\* CancelledError reaches the body; also the late jobs shutdown() closes.
Cut(j) ==
    /\ status[j] = "running" /\ j \in cancelReq /\ j \in entered
    /\ finishing' = finishing \ {j}
    /\ End(j, CutStatus)

\* _settle: the task was cancelled before its first step, no finally runs.
Settle(j) ==
    /\ status[j] = "running" /\ j \in cancelReq /\ j \notin entered
    /\ UNCHANGED finishing
    /\ End(j, CutStatus)

-----------------------------------------------------------------------------
(* The end of the process.                                                 *)

\* The exit signal closes the line; the running jobs go on.
ExitSignal ==
    /\ phase = "up" /\ phase' = "closing"
    /\ UNCHANGED <<status, pos, seats, entered, finishing, cancelReq, limits, paused>>

\* The lifespan exit cancels every task that is still alive.
Shutdown ==
    /\ phase # "down" /\ phase' = "down"
    /\ cancelReq' = Running(status)
    /\ UNCHANGED <<status, pos, seats, entered, finishing, limits, paused>>

-----------------------------------------------------------------------------
\* At the start of a process jobs an earlier one interrupted may be waiting
\* on disk to be continued, with the panel they had.
Init ==
    /\ \E C \in SUBSET Carried, n \in 0..MaxSeats :
          /\ status = [j \in Jobs |-> IF j \in C THEN "interrupted" ELSE "none"]
          /\ seats = [j \in Jobs |-> IF j \in C THEN n ELSE 0]
    /\ pos = [j \in Jobs |-> 0]
    /\ entered = {} /\ finishing = {} /\ cancelReq = {}
    /\ limits \in LimitChoices
    /\ paused \in BOOLEAN
    /\ phase = "up"

Request(j) == Start(j) \/ Resume(j) \/ CancelQueued(j) \/ CancelRunning(j)

Operator ==
    \/ \E l \in LimitChoices : SetLimits(l) \/ EditLimits(l)
    \/ PauseOn \/ PauseOff \/ PauseLapse

Task(j) ==
    \/ Enter(j)
    \/ \E n \in 1..MaxSeats : Seat(j, n)
    \/ Finishing(j) \/ Decision(j)
    \/ Finish(j) \/ Cut(j) \/ Settle(j)

Next ==
    \/ \E j \in Jobs : Request(j) \/ Task(j)
    \/ Operator \/ Tick
    \/ ExitSignal \/ Shutdown

Spec == Init /\ [][Next]_vars

\* What the event loop and the environment owe: the ticker keeps looking at the
\* line, a created task takes its first step, a cancellation is delivered, and
\* every deliberation ends (the engine's calls and rounds are bounded).
Fairness ==
    /\ WF_vars(Tick)
    /\ \A j \in Jobs :
          WF_vars(Enter(j)) /\ WF_vars(Finish(j)) /\ WF_vars(Cut(j) \/ Settle(j))

LiveSpec == Spec /\ Fairness

-----------------------------------------------------------------------------
(* Properties.                                                             *)

\* The values the variables take.
TypeOK ==
    /\ status \in [Jobs -> Statuses]
    /\ pos \in [Jobs -> 0..Cardinality(Jobs)]
    /\ seats \in [Jobs -> 0..MaxSeats]
    /\ entered \subseteq Jobs /\ finishing \subseteq Jobs
    /\ cancelReq \subseteq Jobs
    /\ limits \in LimitChoices
    /\ paused \in BOOLEAN
    /\ phase \in {"up", "closing", "down"}

\* "The jobs whose status is queued and the keys of _PENDING are always the
\* same" (delib_jobs.py:243), and the places in the line are 1, 2, ... with no
\* gap and no tie whatever leaves it from the middle: queue_info's position.
LineIsQueued ==
    /\ Line(pos) = {j \in Jobs : status[j] = "queued"}
    /\ \A i, j \in Line(pos) : pos[i] = pos[j] => i = j
    /\ \A j \in Line(pos) : pos[j] <= Cardinality(Line(pos))

Launched == {j \in Running(status') : status[j] # "running"}

\* Only a pump launches, and never past a cap: in the step a job starts to run
\* the line is not paused or closing, and with it the running jobs are within
\* the limits read in that step (limits lowered later may be exceeded).
LaunchStep ==
    \A j \in Launched :
        LET R == Running(status') IN
        /\ ~paused' /\ phase' = "up"
        /\ IF j \in External
           THEN Cardinality(ExternalOf(R, OwnerOf[j])) <= ExternalPerOwner
           ELSE /\ Cardinality(GLM(R)) <= limits'.run
                /\ Cardinality(GLMOf(R, OwnerOf[j])) <= limits'.user

LaunchWithinCaps == [][LaunchStep]_vars

\* When a GLM job starts, the seats of all running ones fit the seat cap, or it
\* runs alone: several launches of one pump count each other's seats.
SeatsWithinCap ==
    [][LET R == GLM(Running(status')) IN
       limits'.seats > 0 /\ GLM(Launched) # {} =>
          Cardinality(R) = 1 \/ SeatSum(seats', R) <= limits'.seats]_vars

\* No GLM job is launched past one that stood earlier and still waits, unless
\* that one's owner has used up its own share: neither a large panel waiting
\* for seats nor one waiting for a slot is overtaken.
NoOvertaking ==
    [][\A j \in GLM(Launched), k \in GLM(Line(pos) \cap Line(pos')) :
          pos[j] = 0 \/ pos[k] < pos[j] =>
             Cardinality(GLMOf(Running(status'), OwnerOf[k])) >= limits'.user]_vars

\* A slot is free for a job of the line: a pump now would launch it.
IdleSlot ==
    /\ ~paused /\ ~Closing
    /\ \E j \in Line(pos) : Fits(j, {}, status, pos, seats, limits)

\* "After the call no 'a slot is free and a job of the line could take it' is
\* left" (_pump): the step that ends a job, seats its panel or launches one
\* leaves nothing a second pump would launch.
PumpLeavesNoIdleSlot ==
    [][ \/ Running(status) \ Running(status') # {}
        \/ Launched # {}
        \/ \E j \in Running(status) : seats'[j] # seats[j]
       => ~IdleSlot']_vars

\* Once the chair's decision exists the job is not cancelled any more, neither
\* while it runs nor while it waits in the line to be continued.
FinishingStep ==
    \A j \in finishing :
        status[j] \in {"queued", "running"} => status'[j] # "cancelled"

FinishingIsKept == [][FinishingStep]_vars

\* While the server stays up and is not paused for ever, every job of the line
\* gets out of it although new requests keep coming: a large panel is not
\* starved by small ones, nor a user by the others.
QueuedIsServed ==
    <>[](phase = "up" /\ ~paused) =>
        \A j \in Jobs : status[j] = "queued" ~> status[j] # "queued"

\* A cancellation that was accepted frees the slot, also when it arrives before
\* the task's first step.
CancelIsServed == \A j \in Jobs : j \in cancelReq ~> j \notin cancelReq

\* Nobody overtakes a job of its own kind in the line, no launch takes seats
\* that are not there, and no pump leaves a job in the line that may run.
LineIsFair == NoOvertaking /\ SeatsWithinCap /\ PumpLeavesNoIdleSlot

\* Whoever waits is launched, and whoever is cancelled ends.
EveryoneIsServed == QueuedIsServed /\ CancelIsServed
=============================================================================

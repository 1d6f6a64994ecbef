----------------------------- MODULE RoutineRun -----------------------------
(***************************************************************************)
(* The executor of the analysis routines (src/routine.py).  A request      *)
(* becomes a detached task, a life, which drives one run of the portal:    *)
(* it reads the view of the run, does the first open step and closes it,   *)
(* until the report.  A step is done with tools or by a deliberation that  *)
(* it starts and waits for.  A server that stops leaves its runs running;  *)
(* the user continues them, and a started deliberation is found again in   *)
(* the ledger of calls.                                                    *)
(*                                                                         *)
(* The portal's ledger and the deliberation engine are external: what is   *)
(* here of them is what the executor's requests and their answers show.    *)
(* A gateway call that is being written when the server stops is finished  *)
(* before the next process begins.  Times are left out: a wait may be over *)
(* whenever its condition is; of the limits of a run only its calls count.  *)
(***************************************************************************)
EXTENDS Naturals, Sequences, FiniteSets

CONSTANTS
    Lives,          \* 1..n: the tasks, in the order they are made
    Runs,           \* ids of runs
    Plan,           \* the steps of a run: a sequence of "tools" | "delib"
    Left,           \* runs that an earlier process left running
    MaxRunning,     \* ROUTINE_MAX_RUNNING
    RunCalls,       \* the portal's limit of calls of each run
    Strikes,        \* failed reads in a row that are too many (3)
    MaxJobs,        \* bound: deliberations
    MaxStops,       \* bound: restarts of the server
    MaxPauses,      \* bound: pauses of new deliberations
    None

ASSUME RoutineAssumption ==
    /\ IsFiniteSet(Lives) /\ Lives = 1..Cardinality(Lives)
    /\ Plan \in [Runs -> Seq({"tools", "delib"})]
    /\ \A r \in Runs : Cardinality({i \in DOMAIN Plan[r] : Plan[r][i] = "delib"}) <= 1
    /\ Left \subseteq Runs
    /\ MaxRunning \in Nat \ {0} /\ RunCalls \in [Runs -> Nat] /\ Strikes \in Nat \ {0}
    /\ MaxJobs \in Nat /\ MaxStops \in Nat /\ MaxPauses \in Nat
    /\ None \notin Runs /\ None \notin Lives /\ None # "pending" /\ "pending" \notin Runs

VARIABLES
    life,       \* the executors, see New
    runs,       \* _RUNS: the life under the id of a run, or None
    run,        \* the portal's record of each run, see Unborn
    jobs,       \* the deliberations, in order: [status, run, logged]
    server,     \* [up, stops]
    pause,      \* [on, left]: new deliberations are paused
    doubled     \* history: runs that two lives have driven at once

vars == <<life, runs, run, jobs, server, pause, doubled>>

Final == {"done", "failed", "cancelled"}            \* _RUN_FINAL
Dead == {"error", "cancelled", "interrupted"}       \* _JOB_DEAD

\* led: the calls of the deliberation step in the ledger, the deliberation for a
\* start that succeeded, else 0; step: the first that is open; left: the calls
\* that its limit leaves.
Unborn(r) == [state |-> "none", step |-> 1, left |-> RunCalls[r], led |-> <<>>]

\* Nothing else is asked of a run that is over.
Closed(st) == [state |-> st, step |-> 0, left |-> 0, led |-> <<>>]

\* key: its key in _RUNS, "pending" before the run has an id; at: the step it
\* is at; seen: the calls left in the view last read, while a deliberation
\* is to be started; asks: the envelope asks the user to choose; told: "done"
\* frames sent.
New == [pc |-> "new", new |-> FALSE, run |-> None, key |-> None, at |-> 0, seen |-> 0,
        asks |-> FALSE, job |-> 0, parked |-> FALSE, strikes |-> 0, fails |-> 0,
        err |-> FALSE, told |-> 0]

Alive(l) == life[l].pc \notin {"new", "over", "gone"}

\* Its entry in _RUNS is its own.
Registered(l) == life[l].key = "pending" \/ \E r \in Runs : life[l].key = r /\ runs[r] = l

\* Mutant: a task that has sent "done" does not hold it.
TakenTillDone(r) == \E l \in Lives : runs[r] = l /\ Alive(l) /\ life[l].pc # "closing"

\* The run's place in _RUNS is held by a living task.
Taken(r) == \E l \in Lives : runs[r] = l /\ Alive(l)

\* Past the door of new work: it drives a run.
Drives(l) == Alive(l) /\ life[l].pc \notin {"look", "closing"}

Limited(v) == v.left = 0

Steps(r) == 1..Len(Plan[r])

\* _alive_count: the resting ones too, they wake up together.
AliveCount(skip) == Cardinality({l \in Lives \ {skip} : Alive(l) /\ Registered(l)})

\* _new_work_refusal: neither paused nor too many.
Door(l) == ~pause.on /\ AliveCount(l) < MaxRunning

\* The end of a drive, by any path: the frame "done", then the session closes.
Ended(x) ==
    [New EXCEPT !.pc = "closing", !.new = x.new, !.run = x.run, !.key = x.key,
                !.told = x.told + 1]

Put(l, x) == life' = [life EXCEPT ![l] = x]

-----------------------------------------------------------------------------
(* Requests: run_routine.                                                  *)

Fresh(l) == life[l].pc = "new" /\ \A k \in Lives : k < l => life[k].pc # "new"

\* A new run: checked, registered under a key of its own and started at once.
Ask(l) ==
    /\ server.up /\ Fresh(l) /\ Door(None)
    /\ Put(l, [New EXCEPT !.pc = "begin", !.new = TRUE, !.key = "pending"])
    /\ UNCHANGED <<runs, run, jobs, server, pause, doubled>>

\* "Continue", when no living task has the run's place; else the request only
\* listens to that task.  A browser that leaves changes nothing.
Continue(l, r) ==
    /\ server.up /\ Fresh(l) /\ run[r].state # "none"
    /\ ~Taken(r)
    /\ Put(l, [New EXCEPT !.pc = "look", !.run = r, !.key = r])
    /\ runs' = [runs EXCEPT ![r] = l]
    /\ UNCHANGED <<run, jobs, server, pause, doubled>>

-----------------------------------------------------------------------------
(* The beginning of a drive: _drive up to the loop.                        *)

\* Mutant: the calls of an earlier process are not looked at.
NoPrior(led) == 0

\* _prior_job reads the step's calls backwards: the last deliberation that the
\* ledger knows to have been started, or 0.
Prior(led) == LET at == {n \in DOMAIN led : led[n] # 0}
              IN  IF at = {} THEN 0 ELSE led[CHOOSE n \in at : \A m \in at : m <= n]

\* A step that is begun: with tools, or with a deliberation, which may have been
\* started before.
Enter(x, v) ==
    LET j == Prior(v.led)
    IN  IF Plan[x.run][v.step] = "tools" THEN [x EXCEPT !.at = v.step, !.pc = "tools"]
        ELSE [x EXCEPT !.at = v.step, !.seen = v.left, !.job = j,
                       !.pc = IF j = 0 THEN "start" ELSE "prior"]

\* A turn of the loop: what is next, from the view v just read.
Turn(x, v) ==
    CASE v.state # "running" -> Ended(x)
      [] v.state = "running" /\ v.step \notin Steps(x.run) -> [x EXCEPT !.pc = "report"]
      [] v.state = "running" /\ v.step \in Steps(x.run) /\ Limited(v) ->
            [x EXCEPT !.pc = "limit", !.at = v.step]
      [] v.state = "running" /\ v.step \in Steps(x.run) /\ ~Limited(v) ->
            IF v.step <= x.at THEN Ended(x)     \* it was tried and is not closed
            ELSE Enter(x, v)

\* The refusal of new work to a run that is to be continued.
TurnedAway(x) == Ended(x)

\* The view of the run to be continued; one that is over is only told about
\* (or its archive draft is uploaded), one that goes on is new work.
Look(l) ==
    LET x == life[l] v == run[x.run]
    IN  /\ x.pc = "look"
        /\ \/ Put(l, Ended(x))                                  \* it cannot be read
           \/ v.state \notin {"running", "interrupted"} /\ Put(l, Ended(x))
           \/ v.state \in {"running", "interrupted"} /\ ~Door(l) /\ Put(l, TurnedAway(x))
           \/ v.state \in {"running", "interrupted"} /\ Door(l)
                /\ Put(l, [x EXCEPT !.pc = "reopen"])
        /\ doubled' = IF life'[l].pc = "reopen" /\ \E k \in Lives \ {l} :
                            Drives(k) /\ life[k].run = x.run
                      THEN doubled \cup {x.run} ELSE doubled
        /\ UNCHANGED <<runs, run, jobs, server, pause>>

\* routine_run_start(run_id).
Reopen(l) ==
    LET x == life[l] v == [run[x.run] EXCEPT !.state = "running"]
    IN  /\ x.pc = "reopen"
        /\ \/ /\ run[x.run].state \in {"running", "interrupted"}
              /\ run' = [run EXCEPT ![x.run] = v]
              /\ Put(l, Turn(x, v)) \/ Put(l, Ended(x))
           \/ run' = run /\ Put(l, Ended(x))                    \* refused or not sent
        /\ UNCHANGED <<runs, jobs, server, pause, doubled>>

\* routine_run_start of a new run: the portal has it before the answer is here.
Begin(l) ==
    /\ life[l].pc = "begin"
    /\ \/ \E r \in Runs :
            /\ run[r].state = "none"
            /\ run' = [run EXCEPT ![r].state = "running"]
            /\ Put(l, [life[l] EXCEPT !.pc = "begun", !.run = r])
       \/ run' = run /\ Put(l, Ended(life[l]))
    /\ UNCHANGED <<runs, jobs, server, pause, doubled>>

\* _rekey: not over another life that is alive.
Rekeys(l, r) == ~Taken(r)

\* The answer (adopt): the run's place in _RUNS; or it is lost, and the run
\* waits for somebody to continue it.
Begun(l) ==
    LET x == life[l] r == x.run takes == Rekeys(l, r)
    IN  /\ x.pc = "begun"
        /\ \/ /\ runs' = IF takes THEN [runs EXCEPT ![r] = l] ELSE runs
              /\ Put(l, Turn([x EXCEPT !.key = IF takes THEN r ELSE @], run[r]))
           \/ runs' = runs /\ Put(l, Ended(x))
        /\ UNCHANGED <<run, jobs, server, pause, doubled>>

-----------------------------------------------------------------------------
(* The loop: reading the view, closing steps, the report.                  *)

\* The view between the steps, and after the limit closed all of them.
Read(l) ==
    LET x == life[l] r == x.run
    IN  /\ \/ x.pc = "read" /\ Put(l, Turn(x, run[r]))
           \/ x.pc = "limited" /\ run[r].step \notin Steps(r) /\ Put(l, Turn(x, run[r]))
           \/ x.pc \in {"read", "limited"} /\ Put(l, Ended(x))
        /\ UNCHANGED <<runs, run, jobs, server, pause, doubled>>

\* The view after a refusal: the run was stopped meanwhile, or it is an error.
Reconsider(l) ==
    LET x == life[l]
        wrong == IF x.pc = "refused" THEN {"running"} ELSE {"running", "waiting"}
    IN  /\ x.pc \in {"refused", "notclosed"}
        /\ \/ run[x.run].state \notin wrong /\ Put(l, Turn(x, run[x.run]))
           \/ Put(l, Ended(x))
        /\ UNCHANGED <<runs, run, jobs, server, pause, doubled>>

\* What the portal does with the envelope of step i.
Closes(r, i, asks) ==
    /\ run[r].state = "running" /\ run[r].step = i
    /\ run' = IF asks THEN [run EXCEPT ![r].state = "waiting"]
              ELSE [run EXCEPT ![r].step = i + 1]

\* _close_step: routine_step_done.  The answer may be lost.
CloseStep(l) ==
    LET x == life[l]
    IN  /\ x.pc = "close"
        /\ \/ Closes(x.run, x.at, x.asks) /\ (Put(l, [x EXCEPT !.pc = "read", !.asks = FALSE]) \/ Put(l, Ended(x)))
           \/ run' = run /\ Put(l, Ended(x))
           \/ /\ ~(run[x.run].state = "running" /\ run[x.run].step = x.at)
              /\ run' = run /\ Put(l, [x EXCEPT !.pc = "notclosed", !.asks = FALSE])
        /\ UNCHANGED <<runs, jobs, server, pause, doubled>>

MoreOpen(r, i) == i + 1 \in Steps(r)

\* _close_by_limit: the open steps one by one, then the view.
CloseByLimit(l) ==
    LET x == life[l]
    IN  /\ x.pc = "limit"
        /\ \/ /\ Closes(x.run, x.at, FALSE)
              /\ \/ Put(l, [x EXCEPT !.at = @ + 1,
                                     !.pc = IF MoreOpen(x.run, x.at) THEN @ ELSE "limited"])
                 \/ Put(l, Ended(x))
           \/ run' = run /\ Put(l, Ended(x))
           \/ /\ ~(run[x.run].state = "running" /\ run[x.run].step = x.at)
              /\ run' = run /\ Put(l, [x EXCEPT !.pc = "refused"])
        /\ UNCHANGED <<runs, jobs, server, pause, doubled>>

\* _report: routine_report_submit.
Report(l) ==
    LET x == life[l] ready == run[x.run].state = "running"
    IN  /\ x.pc = "report"
        /\ \/ ready /\ run' = [run EXCEPT ![x.run] = Closed("done")] /\ Put(l, Ended(x))
           \/ run' = run /\ Put(l, Ended(x))
           \/ ~ready /\ run' = run /\ Put(l, [x EXCEPT !.pc = "refused"])
        /\ UNCHANGED <<runs, jobs, server, pause, doubled>>

-----------------------------------------------------------------------------
(* A step with tools: _platform_step.                                      *)

\* A call of the small agent, counted in the ledger whether or not its answer
\* comes; refused, it is the last of the step.
ToolCall(l) ==
    LET r == life[l].run
    IN  /\ life[l].pc = "tools"
        /\ run[r].state = "running" /\ ~Limited(run[r])
        /\ run' = [run EXCEPT ![r].left = @ - 1]
        /\ UNCHANGED <<life, runs, jobs, server, pause, doubled>>

\* The agent is done, out of time, out of calls or broken; then the envelope.
ToolsEnd(l) ==
    /\ life[l].pc = "tools"
    /\ \/ \E asks \in BOOLEAN : Put(l, [life[l] EXCEPT !.pc = "close", !.asks = asks])
       \/ Put(l, Ended(life[l]))                        \* the token is rejected
    /\ UNCHANGED <<runs, run, jobs, server, pause, doubled>>

-----------------------------------------------------------------------------
(* A step with a deliberation: _delib_step.                                *)

\* The step is closed with an envelope; only that of a decision can ask.
Close(x, asks) == [x EXCEPT !.pc = "close", !.asks = asks, !.job = 0, !.seen = 0,
                            !.parked = FALSE, !.strikes = 0, !.err = FALSE]

\* The run is no longer running: the view says how this ends.
Back(x) == [Close(x, FALSE) EXCEPT !.pc = "read"]

\* A deliberation of an earlier process is waited for, also when its status
\* cannot be read; only a dead one is replaced.
PriorJob(l) ==
    LET x == life[l]
    IN  /\ x.pc = "prior"
        /\ \/ jobs[x.job].status \in Dead /\ Put(l, [x EXCEPT !.pc = "start", !.job = 0])
           \/ Put(l, [x EXCEPT !.pc = "poll", !.seen = 0])
           \/ Put(l, Ended(x))
        /\ UNCHANGED <<runs, run, jobs, server, pause, doubled>>

\* _delib_start: rest while new deliberations are paused; not without a call
\* left to read the decision with.
StartJob(l) ==
    LET x == life[l]
    IN  /\ x.pc = "start"
        /\ \/ pause.on /\ Put(l, [x EXCEPT !.pc = "park", !.parked = TRUE])
           \/ ~pause.on /\ x.seen < 2 /\ Put(l, Close(x, FALSE))
           \/ ~pause.on /\ x.seen >= 2 /\ Put(l, [x EXCEPT !.pc = "call"])
        /\ UNCHANGED <<runs, run, jobs, server, pause, doubled>>

\* The call of deliberate_start goes through the gateway: refused before the
\* deliberation, refused by it (busy: a row of the ledger), or started.
CallStart(l) ==
    LET x == life[l] r == x.run
    IN  /\ x.pc = "call"
        /\ \/ /\ run[r].state # "running" /\ Put(l, Back(x))
              /\ UNCHANGED <<run, jobs>>
           \/ /\ run[r].state = "running" /\ (Limited(run[r]) \/ run[r].step # x.at)
              /\ Put(l, Close(x, FALSE))
              /\ UNCHANGED <<run, jobs>>
           \/ /\ run[r].state = "running" /\ ~Limited(run[r]) /\ run[r].step = x.at
              /\ run' = [run EXCEPT ![r].left = @ - 1, ![r].led = Append(@, 0)]
              /\ Put(l, [x EXCEPT !.pc = "park", !.parked = TRUE])
              /\ UNCHANGED jobs
           \/ /\ run[r].state = "running" /\ ~Limited(run[r]) /\ run[r].step = x.at
              /\ ~pause.on /\ Len(jobs) < MaxJobs
              /\ jobs' = Append(jobs, [status |-> "queued", run |-> r, logged |-> FALSE])
              /\ Put(l, [x EXCEPT !.pc = "logging", !.job = Len(jobs'), !.seen = 0])
              /\ UNCHANGED run
           \/ Put(l, Close(x, FALSE)) /\ UNCHANGED <<run, jobs>>    \* not sent
        /\ UNCHANGED <<runs, server, pause, doubled>>

\* The portal writes the call, unless the run was stopped or its calls were used
\* up meanwhile: then nobody knows the deliberation.  The answer may be lost.
LogStart(l) ==
    LET x == life[l] r == x.run
    IN  /\ x.pc = "logging"
        /\ \/ /\ run[r].state = "running" /\ ~Limited(run[r]) /\ run[r].step = x.at
              /\ run' = [run EXCEPT ![r].left = @ - 1, ![r].led = Append(@, x.job)]
              /\ jobs' = [jobs EXCEPT ![x.job].logged = TRUE]
              /\ Put(l, [x EXCEPT !.pc = "poll"]) \/ Put(l, Close(x, FALSE))
           \/ /\ run[r].state # "running" /\ Put(l, Back(x))
              /\ UNCHANGED <<run, jobs>>
           \/ /\ run[r].state = "running" /\ (Limited(run[r]) \/ run[r].step # x.at)
              /\ Put(l, Close(x, FALSE))
              /\ UNCHANGED <<run, jobs>>
        /\ UNCHANGED <<runs, server, pause, doubled>>

\* _view_soft failed: too often in a row is an error, and the run stays running.
Unread(x, next) == IF x.fails + 1 >= Strikes THEN Ended(x)
                   ELSE [x EXCEPT !.fails = @ + 1, !.pc = next]

\* A rest (_delib_park): the run is looked at; its end is the time, or the end
\* of the pause.
ParkStays(l) ==
    LET x == life[l] v == run[x.run]
    IN  /\ x.pc = "park"
        /\ \/ x.fails + 1 < Strikes /\ Put(l, Unread(x, "park"))
           \/ v.state = "running" /\ ~Limited(v) /\ Put(l, [x EXCEPT !.seen = v.left, !.fails = 0])
        /\ UNCHANGED <<runs, run, jobs, server, pause, doubled>>

ParkEnds(l) ==
    LET x == life[l] v == run[x.run] y == [x EXCEPT !.fails = 0]
    IN  /\ x.pc = "park"
        /\ \/ Put(l, [Unread(x, "start") EXCEPT !.parked = FALSE])
           \/ v.state # "running" /\ Put(l, Back(y))
           \/ v.state = "running" /\ Limited(v) /\ Put(l, Close(y, FALSE))
           \/ v.state = "running" /\ ~Limited(v)
                /\ Put(l, [y EXCEPT !.pc = "start", !.parked = FALSE, !.seen = v.left])
        /\ UNCHANGED <<runs, run, jobs, server, pause, doubled>>

\* _delib_wait: the status of the deliberation; queued is a rest.
Poll(l) ==
    LET x == life[l] st == jobs[x.job].status
    IN  /\ x.pc = "poll"
        /\ \/ Put(l, [x EXCEPT !.pc = "watch", !.err = TRUE])
           \/ st = "done" /\ Put(l, [x EXCEPT !.pc = "result", !.parked = FALSE, !.strikes = 0])
           \/ st \in Dead /\ Put(l, Close(x, FALSE))
           \/ /\ st \notin Dead \cup {"done"}
              /\ Put(l, [x EXCEPT !.pc = "watch", !.err = FALSE, !.strikes = 0,
                                  !.parked = (st = "queued")])
        /\ UNCHANGED <<runs, run, jobs, server, pause, doubled>>

\* Mutant: a status that cannot be read is never given up.
Patient(x) == [x EXCEPT !.strikes = 0]

\* A status that could not be read while the run could.
Struck(x) == [x EXCEPT !.strikes = IF x.err THEN @ + 1 ELSE @]

\* Mutant: whenever the run is not running.
FoldsAlways(v) == TRUE

\* _delib_fold: only when nobody can continue the run.
Folds(v) == v.state \in Final

\* ... and the view of the run in between.
Watch(l) ==
    LET x == life[l] v == run[x.run] y == [Struck(x) EXCEPT !.fails = 0, !.err = FALSE]
    IN  /\ x.pc = "watch"
        /\ \/ Put(l, Unread([x EXCEPT !.err = FALSE], "poll"))
           \/ y.strikes >= Strikes /\ Put(l, Close(y, FALSE))
           \/ y.strikes < Strikes /\ v.state = "running" /\ Put(l, [y EXCEPT !.pc = "poll"])
           \/ y.strikes < Strikes /\ v.state # "running" /\ Folds(v)
                /\ Put(l, [Back(y) EXCEPT !.pc = "fold", !.job = x.job])
           \/ y.strikes < Strikes /\ v.state # "running" /\ ~Folds(v) /\ Put(l, Back(y))
        /\ UNCHANGED <<runs, run, jobs, server, pause, doubled>>

\* The deliberation is cancelled, if it can be and the call comes through.
Fold(l) ==
    LET x == life[l]
    IN  /\ x.pc = "fold"
        /\ \/ /\ jobs[x.job].status \in {"queued", "running"}
              /\ jobs' = [jobs EXCEPT ![x.job].status = "cancelled"]
           \/ jobs' = jobs
        /\ Put(l, Back(x))
        /\ UNCHANGED <<runs, run, server, pause, doubled>>

\* The decision is read through the ledger, beyond the limit of time too; then
\* the envelope.
Result(l) ==
    LET x == life[l] r == x.run
    IN  /\ x.pc = "result"
        /\ \/ /\ run[r].state = "running" /\ run[r].left > 0
              /\ run' = [run EXCEPT ![r].left = @ - 1, ![r].led = Append(@, 0)]
              /\ \E asks \in BOOLEAN : Put(l, Close(x, asks))
           \/ run' = run /\ Put(l, Close(x, FALSE))
        /\ UNCHANGED <<runs, jobs, server, pause, doubled>>

-----------------------------------------------------------------------------
(* The end of a task, and of the process.                                  *)

\* The finally of _drive_task: the session is closed, then the streams end.
CloseSession(l) ==
    /\ life[l].pc = "closing"
    /\ Put(l, [life[l] EXCEPT !.pc = "over"])
    /\ UNCHANGED <<runs, run, jobs, server, pause, doubled>>

\* Only its own entry.
Forgets(l) == life[l].key \in Runs /\ runs[life[l].key] = l

\* The done callback: _forget.
Forget(l) ==
    /\ life[l].pc = "over"
    /\ Put(l, [New EXCEPT !.pc = "gone"])
    /\ runs' = IF Forgets(l) THEN [runs EXCEPT ![life[l].key] = None] ELSE runs
    /\ UNCHANGED <<run, jobs, server, pause, doubled>>

\* shutdown(): every task is cancelled.  One that is closing its session does
\* not get to end its streams.
GoDown ==
    /\ server.up /\ server.stops < MaxStops
    /\ \A l \in Lives : life[l].pc # "logging"
    /\ server' = [up |-> FALSE, stops |-> server.stops + 1]
    /\ life' = [l \in Lives |->
                  IF ~Alive(l) THEN life[l]
                  ELSE IF life[l].pc = "closing" THEN [life[l] EXCEPT !.pc = "over"]
                  ELSE Ended(life[l])]
    /\ UNCHANGED <<runs, run, jobs, pause, doubled>>

\* The process ends, with or without the grace, and begins anew: of the
\* deliberations some are restored.
Boot ==
    /\ ~server.up
    /\ server' = [server EXCEPT !.up = TRUE]
    /\ life' = [l \in Lives |-> IF life[l].pc = "new" THEN New
                                ELSE [New EXCEPT !.pc = "gone"]]
    /\ runs' = [r \in Runs |-> None]
    /\ \E lost \in SUBSET {j \in DOMAIN jobs : jobs[j].status \in {"queued", "running", "finishing"}} :
          jobs' = [j \in DOMAIN jobs |->
                    IF j \in lost THEN [jobs[j] EXCEPT !.status = "interrupted"] ELSE jobs[j]]
    /\ pause' = [pause EXCEPT !.on = FALSE]
    /\ UNCHANGED <<run, doubled>>

-----------------------------------------------------------------------------
(* What the others do: the user at the portal, the engine, the operator.   *)

UserStops(r) ==
    /\ run[r].state \in {"running", "waiting", "interrupted"}
    /\ run' = [run EXCEPT ![r] = Closed("cancelled")]
    /\ UNCHANGED <<life, runs, jobs, server, pause, doubled>>

\* The candidate of an ambiguous step is picked.
UserPicks(r) ==
    /\ run[r].state = "waiting"
    /\ run' = [run EXCEPT ![r].state = "running", ![r].step = @ + 1]
    /\ UNCHANGED <<life, runs, jobs, server, pause, doubled>>

PortalInterrupts(r) ==
    /\ run[r].state = "running"
    /\ run' = [run EXCEPT ![r].state = "interrupted"]
    /\ UNCHANGED <<life, runs, jobs, server, pause, doubled>>

\* A deliberation gets on, while its server runs.
JobStep(j) ==
    /\ server.up /\ j \in DOMAIN jobs
    /\ \E st \in CASE jobs[j].status = "queued" -> {"running"}
                   [] jobs[j].status = "running" -> {"finishing", "error"}
                   [] jobs[j].status = "finishing" -> {"done"}
                   [] OTHER -> {} :
          jobs' = [jobs EXCEPT ![j].status = st]
    /\ UNCHANGED <<life, runs, run, server, pause, doubled>>

PauseOn ==
    /\ ~pause.on /\ pause.left > 0
    /\ pause' = [on |-> TRUE, left |-> pause.left - 1]
    /\ UNCHANGED <<life, runs, run, jobs, server, doubled>>

PauseOff ==
    /\ pause.on
    /\ pause' = [pause EXCEPT !.on = FALSE]
    /\ UNCHANGED <<life, runs, run, jobs, server, doubled>>

-----------------------------------------------------------------------------
Init ==
    /\ life = [l \in Lives |-> New]
    /\ runs = [r \in Runs |-> None]
    /\ run = [r \in Runs |-> [Unborn(r) EXCEPT !.state = IF r \in Left THEN "running" ELSE @]]
    /\ jobs = <<>>
    /\ server = [up |-> TRUE, stops |-> 0]
    /\ pause = [on |-> FALSE, left |-> MaxPauses]
    /\ doubled = {}

\* What the task of a life does by itself.
Drive(l) ==
    \/ Look(l) \/ Reopen(l) \/ Begin(l) \/ Begun(l)
    \/ Read(l) \/ Reconsider(l) \/ CloseStep(l) \/ CloseByLimit(l) \/ Report(l)
    \/ ToolsEnd(l)
    \/ PriorJob(l) \/ StartJob(l) \/ CallStart(l) \/ LogStart(l) \/ ParkEnds(l)
    \/ Poll(l) \/ Watch(l) \/ Fold(l) \/ Result(l)
    \/ CloseSession(l) \/ Forget(l)

Next ==
    \/ \E l \in Lives : Ask(l) \/ Drive(l) \/ ToolCall(l) \/ ParkStays(l)
    \/ \E l \in Lives, r \in Runs : Continue(l, r)
    \/ \E r \in Runs : UserStops(r) \/ UserPicks(r) \/ PortalInterrupts(r)
    \/ \E j \in 1..MaxJobs : JobStep(j)
    \/ GoDown \/ Boot \/ PauseOn \/ PauseOff

Spec == Init /\ [][Next]_vars

\* asyncio runs what can run; a rest has an end; a deliberation gets on; a pause
\* ends by itself.
LiveSpec ==
    /\ Spec
    /\ \A l \in Lives : WF_vars(Drive(l))
    /\ \A j \in 1..MaxJobs : WF_vars(JobStep(j))
    /\ WF_vars(PauseOff) /\ WF_vars(Boot)

-----------------------------------------------------------------------------
(* Properties.                                                             *)

Places ==
    {"new", "look", "reopen", "begin", "begun", "read", "limit", "limited", "refused",
     "close", "notclosed", "report", "tools", "prior", "start", "park", "call", "logging",
     "poll", "watch", "fold", "result", "closing", "over", "gone"}
LifeType ==
    [pc : Places, new : BOOLEAN, run : Runs \cup {None}, key : Runs \cup {"pending", None},
     at : Nat, seen : Nat, asks : BOOLEAN, job : Nat, parked : BOOLEAN, strikes : Nat,
     fails : Nat, err : BOOLEAN, told : Nat]
RunType ==
    [state : {"none", "running", "waiting", "interrupted"} \cup Final,
     step : Nat, left : Nat, led : Seq(Nat)]
JobType ==
    [status : {"queued", "running", "finishing", "done"} \cup Dead, run : Runs, logged : BOOLEAN]

TypeOK ==
    /\ life \in [Lives -> LifeType]
    /\ runs \in [Runs -> Lives \cup {None}]
    /\ run \in [Runs -> RunType]
    /\ jobs \in Seq(JobType)
    /\ server \in [up : BOOLEAN, stops : 0..MaxStops]
    /\ pause \in [on : BOOLEAN, left : 0..MaxPauses]
    /\ doubled \subseteq Runs

\* However the tabs, the ends of tasks and their callbacks interleave, a run is
\* driven by one continuing task at most; only a new run whose id the portal
\* shows before the executor has it may be driven by two.
ContinuedOnce ==
    \A r \in Runs : Cardinality({l \in Lives : Alive(l) /\ ~life[l].new /\ life[l].run = r}) <= 1

\* No more runs are driven at once than the limit, although resting ones wake up
\* and continued ones pass the door only after they were registered.
CapIsKept == Cardinality({l \in Lives : Drives(l)}) <= MaxRunning

\* Crashes, lost answers and continuing start no second deliberation of a step
\* while one that the ledger knows still runs: its end would be read by nobody.
\* Except where two tasks drove the run.
OneDeliberation ==
    \A r \in Runs \ doubled :
        Cardinality({j \in DOMAIN jobs : /\ jobs[j].run = r /\ jobs[j].logged
                                         /\ jobs[j].status \notin Dead \cup {"done"}}) <= 1

\* A deliberation is cancelled by the executor only for a run that nobody can
\* continue any more, however old the view it decided by.
CancelledIsFinal ==
    \A j \in DOMAIN jobs : jobs[j].status = "cancelled" => run[jobs[j].run].state \in Final

\* Whichever path a drive ends by, a shutdown in its midst too, its streams get
\* the frame "done" once, not never and not twice.
DoneOnce ==
    \A l \in Lives : /\ life[l].told <= 1
                     /\ life[l].pc \in {"closing", "over"} => life[l].told = 1

\* No drive goes on for ever: deliberations that are refused use up the calls of
\* the run, reads that fail are counted, rests end.
DriveEnds == \A l \in Lives : Alive(l) ~> ~Alive(l)

\* A run is driven by one continuing task at most, and all of them within the
\* limit.
RunsAreKept == ContinuedOnce /\ CapIsKept

\* Only the deliberation of a run that nobody can continue is cancelled, and
\* whichever path a drive ends by, its streams are told once.
EndsOnce == CancelledIsFinal /\ DoneOnce
=============================================================================

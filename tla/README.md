# Formal models of the HWAX Agent Server

TLA+ modules, TLC configurations and TLAPS proofs for the agent server in
`src/`: a single-process Python/asyncio service (FastAPI and MCP) that streams
chat turns, runs deliberations of many model seats, reviews risk cards and
executes routines. Modelled is what shares state between users, tasks,
restarts and remote workers, and the parts of the pure code whose decisions are
hard to test (cuts, budgets, plans, checks of quotes and numbers). Prompts,
wording, parsing and formatting are not.

Check a model with `tlc -workers 2 -config DelibQueue_safety.cfg MCDelibQueue`,
a proof with `tlapm DelibQueueProofs.tla`. `PROJECT.json` lists the runs, the
mutants, the source lines behind every definition, the findings, the hazards
and the theorems.

## The system

An MCP client calls `deliberate_start` (`mcp_server.py`), which puts a job in
the line of `delib_jobs.py`. The pump launches it as an asyncio task
(`_drive`), which iterates over the events of the engine (`deliberation.py`).
The engine gathers what the question needs, seats experts, lets them look
things up, runs rounds of parallel answers, and has a chair decide. It asks a
model server or, for an *external* job, the board of `external_llm.py`, from
which the user's own workflow takes questions over other MCP tools. Every event
changes the record of the job in memory; turns and resume data go to the
journal, ends and launches to the ledger. After a restart the ledger, the
journals and the argument files are all that is left.

Beside it run web deliberations (`app.py`, no ledger), card reviews (admitted
by the gate of `review_gate.py`, stopped by its drain flag), chat turns, whose
writing calls are held for the user's confirmation and whose answers are
checked, the thinking mode, and routine runs, which themselves start
deliberations through the gateway.

### Inventory

| component | state | operations | module |
|---|---|---|---|
| job queue (`delib_jobs`) | `_JOBS`, `_PENDING`, `_TASKS`, limits overlay, pause file, `_CLOSING` | start, reopen, pump, cancel, limits, pause, tick, ends of a task, shutdown | DelibQueue |
| ledger and restart (`delib_jobs`, `mcp_server`) | `<id>.json`, args file, journal per job | persist, drop, fold, rewrite, continue in place or by a new job, reap, requeue, sweep | DelibLedger |
| job record and readers (`delib_jobs`, `mcp_server`) | turns, warnings, cards, summary of a job | apply an event, cut, reopen, page, wait on the status | JobRecord |
| engine, journal, resume data (`deliberation`, `delib_resume`) | stage, round, seats, notices, decision, journal rows | attempts, rounds, chair, early stop, restore | DelibEngine, DelibProgress |
| seats (`deliberation`, `app`) | personas, cards, e:pre | recommend, name, counter seats, adversary, search | SeatCall, SeatAxes |
| lookups (`deliberation`) | cache of calls, gate per backend, evidence pool | designated calls, seats' calls, wrappers | SeatLookups, SeatReads |
| round talk (`deliberation`) | statements of a round | targets, quotes, retries, cuts to the room | RoundTalk |
| external board (`external_llm`) | tasks, leases, buffers, signs of life | open, wait, drop, claim, read, submit, sweep | ExternalBoard |
| drain flag and gate (`review_gate`) | flag file, remembered idle clock, running reviews | set_on, set_off, judging read, acquire, release | ReviewDrain |
| card review (`card_review`) | attempts, rows, chunks, plan, budgets | plan, prepare, ask, repair, merge, release | CardReview, CardPlan, CardBudget |
| chat turn, confirm gate, status wait, web deliberations (`app`, `status_wait`) | `_CONFIRM_PENDING`, `_WEB_RUNS`, per-turn counters | hold, card, approve, drop, retry, poll, stop, cancel | ChatServer |
| context, calls and check of an answer (`app`, `sc_gate`) | messages, known ids and hubs, patches | fit, learn, refuse, patch, rewrite | ChatHistory, ToolGate, SelfCheck |
| routine executor (`routine`) | `_RUNS`, lives, portal's ledger | ask, continue, step, deliberate, park, shutdown, boot | RoutineRun |
| thinking (`thinking`) | lists of seats, hops | summon, screen, judge, hand off, break, leave | Thinking |

Parts that keep no state two actors share (subject checks, MCP paging, embeds,
figures, redaction, the span exporter, seat evaluation, scripts and tools) are
listed in `PROJECT.json` with the reason they are left out.

### What is hard

- **Caps in one pass.** One pump may launch several jobs; three caps and the
  hold for a large panel interact with places in the line.
- **Two records of one fact**: status and line, mark and heir, ledger and
  journal, file and memory, stream and registry; each handler writes them in an
  order that a kill, a cancel or a failing write cuts.
- **Awaits between reading and using** a record: the subject check of
  `deliberate_continue`, the view a routine decides by, the card an approval
  names.
- **Late actors**: a workflow with an old lease, a dying process that still
  writes, a cancellation before the first step of a task or after the decision,
  a second tab, an approval sent twice, a lookup that returns after its round.
- **Time judged only when somebody looks**: the absence of a workflow, the
  drain flag, an expired card.
- **Cuts at a limit**: a full journal, a transcript at its cap, a card larger
  than a window, a round larger than a seat's room.

`PROJECT.json` lists the forty places where this bites, each with the
properties that would catch it.

## Modules

### DelibQueue — the waiting line

One action per handler between two awaits. `status`, `pos`, `seats`,
`finishing` are the fields of `_JOBS` and the order of `_PENDING`; `entered`
and `cancelReq` are what asyncio knows of a task; `limits`, `paused` and
`phase` are what `limits()`, `_paused()` and `_CLOSING` say. `Pump` is `_pump`
as one step: the loop launches jobs in line order and each decision counts the
launches before it; `IsLaunchSet` says this without a loop: a set `L` is what a
pass launches iff every job of the line is in `L` exactly if it fits given the
earlier members of `L`. `SeatHold` is the flag set by the first job that waits
for seats. Every handler that calls `_pump` in the code has it in its action,
the ones that do not (`CancelQueued`, `EditLimits`, `PauseLapse`) have not.

### DelibLedger — files, kills and restarts

`disk` holds the ledger record, the args file and the journal of every job,
`proc` the memory of each process. A handler is the list of the disks after each
of its writes; `Commit` takes the last of them, or, if `CutWrites`, an earlier
one and kills the process. Handlers that write once per job (boot, shutdown) have
the set of disks they may be cut at. What the surroundings allow is chosen at the
beginning and does not change: under `overlaps` a boot (`Restart`) waits only
until the old process has closed its listener, else until it is gone; under `asks`
a continue call may have to wait for its subject check. `_closed_elsewhere` is
the stamp `w` of the writer. `Continue` is `deliberate_continue` without an await,
`ContinueAsk` and `ContinueGo` its halves around the subject check, the record
read being carried across; either ends in place, by a new job (`Summary`) or, for
somebody who is not the owner, by a job of his own (`Foreign`). A wait in the line is free here: which job is next
is `DelibQueue`'s.

### JobRecord — one job's record and who reads it

What `_apply` makes of the engine's events under its caps (turns, warnings,
cards, what was left out), what a cut and a resume in place change, the
summary, the pages of the transcript and `wait` on the status, with two callers.

### DelibEngine and DelibProgress — one deliberation through kills

`DelibEngine` is the engine's control from the first round to the report, with
the rows it writes and the state `delib_resume.parse` has after reading them.
Seats of a round answer or fail in any order; the chair has its retries; a kill
may come at any await; the journal may be full or fail. `DelibProgress` is the
abstract specification: durable progress without restarts. The run checks
`DelibEngine => DelibProgress` under the mapping that reads the progress off
the journal (`IsProgress`).

### SeatCall, SeatAxes, SeatLookups, SeatReads, RoundTalk — inside a deliberation

`SeatCall` is what comes before the first round, with a kill at any step: which
of the named seats are taken (`Kept` is the filter and the limit of
`_resolve_opts`), whose roles are restored, which seats are added, what is
searched and counted. Calls belong to seats and cards to keys, as in the code,
since a request may name an expert more than once. `SeatAxes` the list of experts offered to a user, a function of its inputs.
`SeatLookups` has the shared cache of calls (a future per key), the gate to
external backends and the seats that ask in parallel; `SeatReads` the order of
the wrappers around an answer: the day, the cut, the hiding of earlier
verdicts. `RoundTalk` is who must answer whom, how a rebuttal is checked against
what was said, and how a round is cut to a seat's and the chair's room.

### ExternalBoard — questions to a user's workflow

Each method of `Board` runs under its lock and is one action, which includes
the sweep and the sign of life the method begins with. Time is counted in polls
of `wait()`: `Elapse` lets one pass, and if somebody waits a `Sweep` must come
before the next. `Swept` is `_sweep` in its order: who is busy, deadlines,
absences. Leases are claim numbers; a piece of an answer is tagged with the
lease it was written under. `age` and `quiet` are history for the bounds. Its
`BoardInit`, `BoardNext` and `BoardSpec` are named so that `MCDelibEngine` can
extend it beside `DelibEngine`.

### ReviewDrain, CardReview, CardPlan, CardBudget — card reviews

The drain flag is a file, read by everybody; `Live` is the judging read,
`Reading` what the read leaves (a write or a removal may fail), `SetOn` the
merge rules, `Acquire` and `ExternalBegin` the admissions. Absolute times are
kept as what is left or has passed; `seen` is history. `CardReview` is one
request: attempts, rows asked again, merges of attempts and of chunks, the seat
given back. `CardPlan` and `CardBudget` are pure: how an expert's cards and a
change's units are packed, cut and refused, and the sizes this is done by.

### ChatServer, ChatHistory, ToolGate, SelfCheck — chat turns

`ChatServer` holds requests of conversations that run side by side: a turn
whose writing calls are held back and asked for by a card, the approval, refusal
or expiry of a card, the retries of a turn after an error, the waits in code
for jobs, and web deliberations detached from their stream. `byCard` and
`byOrder` count what was sent and are history. `ChatHistory` is what of a
conversation fits the window; `ToolGate` which of the model's calls go out;
`SelfCheck` how an answer is patched or rewritten before it is shown.

### RoutineRun, Thinking

`RoutineRun` has *lives* (detached tasks), the registry they are found in, the
portal's view of each run and the deliberations a step starts, through lost
answers, refusals, pauses, a shutdown and a new process. `Thinking` is one
question to the experts: screening, asking under a limit, one hop further, an
error or a client that leaves.

### MC modules

The `MC` modules give constants their small values. Where parts of one component
share no state, one run checks them side by side: its `mode` variable is chosen
in the initial state and says which part's `Next` is taken, so a run is the
disjoint union of the state spaces. In modes that check a pure function the
inputs are the initial states.

## Runs

| run | asks | instance | distinct states |
|---|---|---|---|
| `queue_safety` | `LineIsQueued` `LaunchWithinCaps` `FinishingIsKept` `LineIsFair` | a1, a2 (4 seats, over the cap alone), b1 of a second user, external x1; limits (2 running, 2 per user, line 1, 3 seats) and (2, 1, 2, no seat cap) | 1.9 M |
| `queue_live` | `EveryoneIsServed` | the three GLM jobs, limits (2, 1, 2, 3) | 32 k |
| `ledger` | `RoundsAreKept` `JobsAreOwned` `EndsAreFinal` `NothingIsDropped` | 2 jobs, 3 processes, 2 rounds (1 if they overlap); and 3 jobs, 2 processes, an awaiting continue call, 1 round; kills between writes in all; somebody else's job, which stays in the line, where either processes overlap or calls wait | 1.3 M |
| `reviews` | `GraceEnds` `RowsAreKept` `PlanIsRight` `FlagIsKept` `ReviewsEnd` | 2 callers, ttls 1 and 2 with cap 1, idle (2, 3); 2 attempts, 2 chunks; plans around every deciding size | 0.2 M |
| `engine` | `RoundsAreRead` `NoticesAreTold` `AnswerIsWhole` `WaitIsJust` `IsProgress` `AbsentMeansIdle` `EverythingEnds` | 2 seats, 5 shapes of jobs, 2 rounds, 3 attempts, 2 chair tries; board with 2 questions of one owner, 1 poll of wait, 2 of answer, 2 pieces | 0.7 M |
| `chat` | `CalledOnce` `CardIsAsked` `StreamTellsTheEnd` `RequestsMove` `ContextIsKept` `AnswerIsChecked` `GateIsRight` | 2 requests of one conversation, a writing call and a status call, an earlier card; 3 calls, 2 numbers, 2 hubs; histories of 3 entries; 3 drafts, 2 patches | 1.9 M |
| `routine` | `RunsAreKept` `OneDeliberation` `EndsOnce` `DriveEnds` | 2 lives, a run with and one without deliberation, 1 at once, 2 strikes, 1 stop, 1 pause | 0.6 M |
| `lookups` | `LookupsAreShared` `ReadsAreClean` `TalkIsHeard` `LookupsEndGated` | 2 seats, 2 calls, 1 backend at 1 at once, 2 rounds; 2 projects, 2 days, 2 rows; 3 seats of a round | 1.1 M |
| `job_stream` | `ConsultationIsWhole` `SeatsAreRight` `RecordIsTold` `HeardToTheEnd` | 4 seats, 2 answers, 2 hops; 3 experts and the adversary, 4 lists of named seats up to a limit of 3 (an expert and the adversary named twice), 1 kill; a job of 2 stages and 2 rounds with 2 attempts and 2 readers | 2.0 M |
| `ledger_twice`, `minority`, `skeleton` | `ResumedOnce`, `MinorityIsFound`, `SkeletonIsNotQuoted` | promises of docstrings, violated | |

**What the properties say.**

- *Queue.* The line and the status agree (`LineIsQueued`); no launch exceeds a
  cap (`LaunchWithinCaps`); a decision is not cancelled (`FinishingIsKept`);
  nobody is overtaken by his like, seats are within their cap, no slot is left
  idle by a step that pumps (`LineIsFair`); waiting and cancellations end
  (`EveryoneIsServed`).
- *Ledger.* Transcripts hold every round once (`RoundsAreKept`); a mark has an
  heir, a waiting record a process, files of ended jobs are swept
  (`JobsAreOwned`); marks and ends stay (`EndsAreFinal`); the line and the
  arguments survive a restart (`NothingIsDropped`).
- *Reviews.* A drain ends and not before its grace (`GraceEnds`, `FlagIsKept`,
  `ReviewsEnd`); a hit is not outweighed, contradictions are told, a verdict is
  of the whole card (`RowsAreKept`); every card is in one deck or told, every
  pair of the plan is accepted, larger windows never make anything smaller
  (`PlanIsRight`).
- *Engine and board.* Rounds are restored whole (`RoundsAreRead`), every lost
  seat or call is told once (`NoticesAreTold`), the engine implements
  `DelibProgress` (`IsProgress`); an answer is one claim's, all of it, in order
  (`AnswerIsWhole`); nobody waits beyond the worst case, nobody seen since is
  judged absent, nobody busy either (`WaitIsJust`, `AbsentMeansIdle`);
  all ends (`EverythingEnds`).
- *Chat.* A held call is sent once and by its approval (`CalledOnce`); what a
  turn held is asked for by a card (`CardIsAsked`); the stream and the record of
  a web deliberation agree (`StreamTellsTheEnd`); no request is stuck
  (`RequestsMove`); the model is given an unbroken end of the conversation that
  fits (`ContextIsKept`); rewriting an answer loses no source (`AnswerIsChecked`);
  a call with an unseen number or another hub's id does not go out
  (`GateIsRight`).
- *Routine.* One continuing task per run, within the limit (`RunsAreKept`); no
  second deliberation of a step while one runs (`OneDeliberation`); only jobs of
  runs that are over are cancelled, streams are told once (`EndsOnce`); drives
  end (`DriveEnds`).
- *Lookups and talk.* Seats share one call, closings are told once, what was
  found is kept (`LookupsAreShared`); earlier verdicts stay hidden and the day
  is kept (`ReadsAreClean`); quotes are checked against what was shown, every
  statement is aimed at and heard (`TalkIsHeard`); no call begins behind a
  closed gate and lookups end (`LookupsEndGated`).
- *Streams.* Every seat of a consultation is in one list (`ConsultationIsWhole`);
  whoever was named sits as often as he was named and nobody else twice, added
  seats widen the panel, every seat with cards is searched for once and counted
  (`SeatsAreRight`); the record is that of an uncut run (`RecordIsTold`); what was
  heard is shown (`HeardToTheEnd`).

Every property of a passing run has a mutant of the modelled code (a definition
with the comment `Mutant:` before the one it replaces) under which TLC reports
it violated.

**Why these bounds.** The queue needs two users, two jobs of one user, a panel
larger than the seat cap and one that fits beside a small one: then a seat hold,
two launches in one pass, a skipped job and a refusal all happen. Three
processes are needed for a crash, a resume and a crash of the resumed job; two
rounds to cut one and keep one. Two polls let an owner be seen between the entry
of a question and its judgement, and two claims are all a question gets. One ttl
is beyond `TtlMax` (allowed with a hold only). Two requests of one conversation
and an earlier card are what races for a card; `ConfirmMax` 1 lets cards expire
by number. Two lives over two runs make a second tab, a full registry and a
reattachment after a crash. Two seats and two calls are enough to share a call,
to be second at the gate and to lose the caller of a shared call. The named
seats of `SeatCall` leave nobody, reach the limit, name one expert and the
adversary twice, and give origins of their own. Plans are
tried at sizes one below, at and one above every threshold of the code.

**Deadlock.** All runs switch deadlock checking off, since what they follow may
end: a server shuts down, a job or a turn is over, a function is applied. That
nothing stops early is what the liveness properties and `RequestsMove` (some
step is enabled while a request is not at its end) are for.

**Fairness.** Only the event loop, time and the limits of time of the code:

- Queue: the ticker never ends (`Tick`), a created task takes its first step
  and a delivered cancellation is handled, and `Finish` is fair because rounds,
  retries and timeouts of the engine are bounded. Nothing is assumed of users,
  and no fairness of launches beyond the ticker.
- Engine: a step of the engine that can be taken is; board: time passes and
  whoever waits polls. The workflow is never assumed to call.
- Drain: only time passes; a review: its own steps.
- Routine: each life's own steps, steps of a deliberation, the end of a pause,
  the next boot. Users are free.
- Lookups: the engine, each seat and each call by their limits of time.
- Thinking: the stream and the calls; a client may leave. Record: a caller that
  polls goes on polling.

## What the runs found

Three statements of docstrings do not hold; each is a `violation` run and a
finding in `PROJECT.json`:

1. A job can be continued twice when `deliberate_continue` awaits the subject
   check with a record read from the file (`ledger_twice`).
2. After a resume in place behind the last round the summary says of a
   dissenting seat that its words are not in the transcript, where they are
   (`minority`).
3. In a cross-examination round a quote of JSON punctuation and keys passes the
   check of quotes, which its docstring excludes (`skeleton`).

Other places where the code is looser than one may expect are in the models as
the code has them:

- The line can exceed `queue_max` behind a seat hold; cancelling the queued job
  that holds the line does not pump, so launchable jobs wait up to a tick
  (`LineIsFair` speaks of the steps that pump).
- With two processes overlapping, the old one may write `e:round_end` after the
  new one has folded (`RoundsAreKept` is stated without overlap; marks and ends
  with it).
- A process that is going down may still answer a continue call whose subject
  check returns late, after the next one has booted: the job it queues is in no
  live process' memory and waits until the boot after (`JobsAreOwned` excepts
  overlap together with awaiting calls from `NobodyWaitsForever`).
- Calls with stale leases put off the judgement of absence.
- When the write that stops the idle clock fails, the drain may be released
  without its grace (`FlagIsKept` excepts that case, `seen.lost`).
- Waits of one turn that run in parallel each take what was left when they
  began, so together they may be longer than the limit on their sum
  (`status_wait.py:46-47` against 338-347 and 414-415).
- An answer that names another card than the one shown leaves the shown card to
  be answered later, while `app.py:4111-4119` says that a card is answered by
  the next message only.
- The plan of a card review relies on chunks being made to fit beside a page
  (`card_review.py:536-545`); a page of one item beyond the page's share is
  refused all the same (exempt in `PlanIsRight`).
- The thinking mode's limit on answers is applied per hop, so two hops may give
  more; an error before anything was heard ends without a result, where the
  docstring (`thinking.py:506-507`) says that every path ends with one.
- A lookup that is under way when a deliberation is cancelled goes on (its
  future is shared and shielded).
- A key that a request names twice is not removed (`deliberation.py:2014-2026`,
  `mcp_server.py:172-175`): the expert has two seats, each with a search and a
  count of its own (6966, 7109-7111, 7172, 7195), while one set of cards is kept.
  The evidence may therefore count more than the keys with cards; `SeatsAreRight`
  bounds it by their seats.
- In a free round a seat's own words pass the check of quotes; the last try of a
  seat is kept although it did not pass (`RoundTalk`).

## Theorems

The proofs hold for every value of the constants that satisfies the named
assumptions of the component's module. These say that bounds are natural
numbers, positive where the code divides or waits by them, that an external job
has an owner (`OwnerAssumption`, which `deliberate_start` checks), what an
earlier process or turn may have left (`EarlierAssumption`: one card to answer
in a conversation, within the store's limit), that finitely many different
calls are asked in a deliberation (`LookupsAssumption`), and that the hub knows
finitely many experts (`ThinkingAssumption`). Every `[]`-theorem has
the shape
Init => IInv, IInv /\ [Next]_vars => IInv', IInv => Inv; each step of Next has
its own step of the proof.

**`DelibQueueProofs`.**

- `QueueInvariant`: `Spec => [](TypeOK /\ LineIsQueued)`. The conjunction is
  inductive as it stands: types alone are not (a place is bounded by the number
  of jobs only because places have no gaps), and the line's shape needs the
  types. The heart is `CompactLine` (renumbering a subset of a gapless line gives
  a gapless line in the same order), used once per way of leaving the line, and
  `PumpKeepsPlaces` for all pumps at once.
- `CapsAreKept`: `Spec => LaunchWithinCaps`. `Pump` gives the launched set only
  implicitly. `LastOfLine` picks the last launched job that counts against a
  cap; for it `Fits` bounds exactly the set of all running jobs but itself
  (`CapAfterPass`), which bounds the set with it (`PumpWithinCaps`). Steps that
  do not pump launch nobody (`QuietStep`).
- `FinishingIsNeverCancelled`: `Spec => FinishingIsKept`. It needs one more
  invariant, `CancelInv`: a cancellation is pending only for running jobs and,
  until the shutdown, never for one that is finishing; only the shutdown cancels
  finishing jobs, and then the end is `interrupted`.

- `TheLineIsFair`: `Spec => LineIsFair`: overtaking, the seat cap and idle slots.
  The seats are a fold over a set; the sums are compared through a least
  counterexample (a smallest set on which the two sums differ), which needs only
  that the natural numbers are well-founded. A pass that launches leaves nobody in
  the line that another pass would launch, since whoever fits after the pass
  fitted when the loop came to it.

**`DelibLedgerProofs`.** Every handler is a list of writes that a kill may cut
anywhere, and every write has to leave a disk that the next boot can read. The
invariant has a part for the disk alone and one for each process against the
disk. Of the disk (`HasHeir`, `DiskTalk`): a mark names a job that came from the
marked one; the transcript is in order, and what the journal gives back is in the
ledger or in the journal itself. Of a process that is up or going down (`Own`):
what it calls queued or running the ledger calls so too, unless somebody else has
written the record since; a body that runs belongs to a running job; what the
memory has heard is the ledger's turns with those of the journal it holds open;
and what a waiting call has read is an older copy of the record. `Order` says that
processes come one after the other. One lemma (`Committed`) makes a step of the
handlers: if every disk of the list fits (`Fits`: the disk part holds, no mark or
end is taken back, records of others are left alone) and the new memory fits the
last one, the step keeps the invariant whether it is cut or not. There is then one
lemma per write (`FitsRecord`, `FitsJournal`, `FitsArgs`, `FitsDropped`) and one
per handler. A boot has a disk for every subset of orphans closed and jobs put back
(`BootDisk`); these are stages of one kind (`IsStage`), each of which fits
(`StageFits`, `CutsFit`). `Turns`, the filter of `_reopen`, is a recursive
function: what it keeps of a transcript in order are its first rounds
(`TurnsInOrder`), by the set of lengths at which this fails having no least
member. Theorems: `RoundsStayWhole` (`RoundsAreKept`), `JobsHaveOwners`
(`JobsAreOwned`), `EndsStayFinal` (`EndsAreFinal`) and `NothingGetsDropped`
(`NothingIsDropped`), the last two from what the invariant says of a record that
is not the writer's own.

**`ReviewDrainProofs`.** `DrainInvariant` is `TypeOK` with `ClockInv`: the idle
clock on file is at least as old as a process has seen the deliberations quiet
and, unless the write of a stop was lost, at most as old as they have been.
Neither bound is inductive without the other half of the record: a clock that
runs in memory only must be at least as old too, and a lost stop leaves a clock
on file. From it follow `GraceDoesEnd` (`GraceEnds`) and, with one lemma per
operation of the flag, `FlagsAreKept` (`FlagIsKept`).

**`ChatServerProofs`.** `ChatInvariant` is `TypeOK` with, of the cards: one to
answer per conversation, an answered one not held; of every turn: what it sends
is approved by its card and not yet used (`SendOK`), what its own words order is
sent once (`OrderOK`), what it holds has a card once it is past asking
(`AskOK`); and across turns: an approved card belongs to one turn (`OneTurn`).
The last is what makes `NothingIsSentTwice` (`CalledOnce`) true for two requests
that approve at once: a retry of the turn remembers what was used, another turn
cannot have the card. `HeldCallsAreAsked` is `CardIsAsked`; that the store stays
within `ConfirmMax` rests on `CardMade`, which drops the least of the kept cards
and needs that there is a least. `StreamsAndRecordsAgree` (`StreamTellsTheEnd`)
has an invariant of its own for web deliberations (`RInv`): what the stream's
last frame says, what the record says and where the task is.

**`RoutineRunProofs`.** `RoutineInvariant` joins four things that the code keeps in
different places. A task that is alive has its place in `_RUNS`, a continuing
one under the id of its run (`HasPlace`): hence `RunsAreDrivenOnce`
(`RunsAreKept`), for the limit because whoever drives is among those that
`_alive_count` counts. A task that is about to start a deliberation has found
that none of the run's is open, one that looks at an earlier deliberation looks
at the only open one (`WorkOK`); the last start in the portal's ledger is the
only deliberation that may be open (`LastOK`), which rests on `PriorAppend`: a
refused call or a reading one leaves the last start what it was. Both hold only
of runs that two tasks have not driven (`doubled`), and for these only because
no other task of the run is between finding and starting (`DrivenOnce`). That
is `OneDeliberationAtATime` (`OneDeliberation`); `EndsAreToldOnce` (`EndsOnce`)
takes from the record of a task that it folds only what is final. A run can be
driven twice only where two drives are allowed at once; TLC's run allows one,
the theorems any number.

**`DelibEngineProofs`.** The engine's memory, the journal and the ledger are three
accounts of one deliberation, each written at its own moment. `EngineInvariant`
says what they have in common at every place and after every kill: `JournalOK`
and `NotesOK` (what a next process finds: nobody is heard twice, ended rounds are
the ledger's turns, what was told in the cut round is in its notes, a report that
may have been made follows an intent); `MemOK` (what the process has heard is
what the ledger shows, a notice is either one of the cut process or one it has
told itself, and its place says which, `ToldAt`); `WritesOK` (while its rows are
written the journal is exactly where the engine is: `SpeakOK` in a round,
`DecidingOK` after); `BehindOK` (once they are not, it is never ahead). None of
these is inductive alone: that a cut round's answers are not heard again needs
the engine's place, the place needs the rounds that can be restored, and
`Restorable` is a least number whose existence and uniqueness are lemmas
(`RestorableIs`, `RestorableUnique`). Rows that stop at the journal's cap are one
lemma for all steps (`StoppedRows`): the file is then refused for good, and only
what has been written counts. From the invariant follow `EngineRoundsAreRead`
(`RoundsAreRead`) and `EngineNoticesAreTold` (`NoticesAreTold`); and, with one
lemma for each of the five steps of `DelibProgress` and one for each row of the
engine, the refinement `EngineProgress`: `Spec => IsProgress`. There an answer
is new because the journal has no answer of that seat, the next stage begins
because four steps are settled (a set of five is counted), and `Resume` stutters:
what `Carried` drops was not shown (`ResumeProgress`).

The second part of the module is the board. `BoardInvariant`: `BoardSpec => []BoardInv`. That an undisturbed question never
waits beyond `Worst` (`WaitIsJust`) is a sum over its claims: `InTime` charges each
claim with the waiting before it and the answer time after it (`Spent`), and
pays with what is left of both. This is inductive only if nothing else moves the
question's clocks: a quiet task is its owner's only one (`Alone`), its owner was
not seen since it waits (`Unseen`, or absence would be judged late), a sweep
leaves it time (`TimeLeft`) and time passes once per sweep. `OneClaims` is the buffer
of one claim, which the lease check and `Placed` keep (`PlacedOK`); `Judged` says
that who stands judged absent was not seen and holds nothing. A sweep is proved
stage by stage (`BusyOK`, `DeadlinesOK`, `AbsencesOK`, `SweptOK`), and the handlers
on top of it. Theorems: `AnswersAreWhole` (`AnswerIsWhole`), `WaitsAreJust`
(`WaitIsJust`) and the action property `AbsentAreIdle` (`AbsentMeansIdle`), which
rests on the order of the stages.

**`SeatLookupsProofs`.** `LookupsInvariant`: a key's calls, its cache and the seats
that wait on it are three places of one fact. The calls of a key are a sequence
and all but the cached one have raised (`CacheOK`, which is `SharedCall` after
every step of `_wrap_cached`); a call under way is awaited by a seat
(`AwaitedOK`), so none is left between rounds, when closings are told; what a
seat has is over, and what of it can be used is in the pool when the seat is
through (`SeatOK`, `PoolOK`); what counts as told of a backend was sent once
(`ToldOK`). It needs that a call which is over stays as it is when others are
made or end (`Later`). Several closings may be told in one step, each once,
hence the lemmas on sequences `RangeOfConcat`, `InjectiveConcat` and
`SetAsSequence`. From it follow
`LookupsAreSharedAlways` (`LookupsAreShared`) and, with the cardinality of the
calls under way, `GateIsKept`: `Spec => GateHolds`, the safety half of
`LookupsEndGated`.

**`ThinkingProofs`.** Who is where in a consultation is one fact kept in five lists,
the calls and the roster. `ThinkInv`: the lists, one behind the other, name nobody
twice and only those summoned (`ListsOK`); a seat's call says which list it may be
in (`SeatOK`), the place of the stream which calls there may be (`PlaceOK`), and a
seat was called once if and only if its call has begun (`CallsOK`). That a screening
leaves everyone in one list needs that `Those`, a recursive function that picks
some seats of a sequence, gives each of them once and in order, which is proved
over its prefixes as `Turns` is. From it follow `EveryoneIsAccounted`
(`ConsultationIsWhole`) and `AnswersAreShown`: `Spec => HeardIsShown`, the safety
half of `HeardToTheEnd`.

**What stays with TLC.** Liveness under fairness, and `RequestsMove`, which is about
ENABLED. Induction over data is open only where the set of the places at which a
formula fails can be written down for one concrete function (`Turns`, `Those`, the
sums of seats): the library's induction theorems take an operator, which the
provers cannot instantiate. What the longer recursions compute stays with TLC
(the plans and budgets, the fits of messages and rows, the checks of an answer and
of quotes): `PlanIsRight`, `ContextIsKept`, `AnswerIsChecked`, `GateIsRight`,
`ReadsAreClean`, `TalkIsHeard`. So do `RowsAreKept`, `SeatsAreRight` and
`RecordIsTold`, whose modules (`CardReview`, `SeatCall`, `SeatAxes`, `JobRecord`)
have no proofs.

## Not modelled

- Text: prompts, evidence, messages, SSE frames, reports, paging. A job is its
  owner, kind and seats; a text is its size, its tokens or the pieces that can
  be copied from it.
- Failing single ledger writes (`_persist` swallows them), resume data of
  another build, a cut stage of a multi-stage job in the ledger's model (what
  the ledger keeps behind a checkpoint is left out of `DelibEngine`).
- The board's pages of `read` and submits without offset; unreadable or broken
  flag files; clocks that go back.
- Two processes' handlers interleaving write by write (each handler's writes are
  one step of the overlap, or cut by a kill).
- The loop between model and tools of a chat turn is the library's and is one
  step. A warning of the card checks is a failure of the row; the gate of a
  review in `CardReview` is free, its counts are `ReviewDrain`'s.
- Shares and logarithms computed in floating point are exact fractions and
  products.
- How often a job is killed and which of its rows no longer fits the journal are
  fields of the job (`lives`, `full`) that bound the run.
- A seat named twice beyond the seating: `SeatCall` follows it to `e:pre`, the
  modules of the rounds, of the lookups, of the talk and of the record take seats
  as different from each other.
- The components with status `not_modelled` in `PROJECT.json`.

## Plan

1. Proofs of the record (`RecordIsTold`) and of the merge of card rows
   (`RowsAreKept`), each as an invariant of the module itself.
2. Failing single writes of the ledger, as the flag file has them.

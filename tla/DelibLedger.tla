---------------------------- MODULE DelibLedger -----------------------------
(***************************************************************************)
(* What a deliberation job leaves on disk and what a restart makes of it   *)
(* (src/delib_jobs.py, src/mcp_server.py): the ledger record, the file of  *)
(* the start arguments and the journal of a job, written by a process that *)
(* may be killed between any two writes, read by the next one, which may   *)
(* start while the old one is still going down.                            *)
(*                                                                         *)
(* Who is launched when is the subject of DelibQueue; here a queued job    *)
(* may be launched at any time.  A round of the debate is one turn.        *)
(***************************************************************************)
EXTENDS Integers, Sequences, SequencesExt

CONSTANTS
    Jobs,           \* job ids; a fresh one is taken for every new job
    NoJob,
    Started,        \* bound: the ids start() may take, the others are heirs
    MaxProc,        \* bound: processes 1..MaxProc run one after the other
    Rounds,         \* rounds of a deliberation
    MaxCalls,       \* bound: deliberate_continue calls waiting for a subject
    CutWrites       \* may a kill fall between two writes of one handler?

ASSUME LedgerAssumption ==
    /\ NoJob \notin Jobs /\ Started \subseteq Jobs
    /\ {MaxProc, Rounds} \subseteq Nat \ {0}
    /\ MaxCalls \in Nat /\ CutWrites \in BOOLEAN

Procs == 1..MaxProc

VARIABLES
    disk,       \* [led, args, jr]: job -> ledger record, args file, journal
    proc,       \* process -> its memory
    overlaps,   \* may the next process boot before the old one is dead?
    asks        \* may a continue call have to wait for its subject?

vars == <<disk, proc, overlaps, asks>>

\* What the surroundings are like: it does not change.
world == <<overlaps, asks>>

\* A record of the ledger.  done: the rounds the run has behind it (memory
\* only); att: resumed in place; by: resumed_by; from: resumed_from, of the
\* heir that the owner started;
\* w: the process that wrote the file last, its stamp (0 in memory).
NoRec == [st |-> "none", turns |-> <<>>, done |-> 0, att |-> FALSE,
          by |-> NoJob, from |-> NoJob, w |-> 0]

\* A journal: the turns written since it was opened, the rounds that have
\* their e:round_end line, whether e:pre is there, and its inode's writer.
NoJournal == [has |-> FALSE, turns |-> <<>>, ends |-> 0, pre |-> FALSE, ino |-> 0]

\* The memory of a process: its jobs, those whose body runs, those whose
\* journal it holds open, the continue calls that await a subject.
Off(up) == [up |-> up, jobs |-> [j \in Jobs |-> NoRec], in |-> {}, fd |-> {},
            calls |-> <<>>]

Over == {"done", "cancelled"}

\* An id nobody has used: a new job's.
Fresh(j) == /\ disk.led[j].st = "none" /\ ~disk.args[j] /\ ~disk.jr[j].has
            /\ \A p \in Procs : proc[p].jobs[j].st = "none"

-----------------------------------------------------------------------------
(* The writes of a handler, as the disks after each of them, in the order  *)
(* of the code.                                                            *)

Stamped(p, r) == [r EXCEPT !.done = 0, !.w = p]

\* _persist
PutRecord(d, p, j, r) == [d EXCEPT !.led[j] = Stamped(p, r)]

PutArgs(d, j, there) == [d EXCEPT !.args[j] = there]

PutJournal(d, j, jr) == [d EXCEPT !.jr[j] = jr]

\* _drop_args: the arguments, then the journal.
Dropped(d, j) == PutJournal(PutArgs(d, j, FALSE), j, NoJournal)

\* Process p gets memory m and leaves disk d; or it is killed on the way, on
\* one of the disks of cuts.
CommitAny(p, m, d, cuts) ==
    \/ /\ disk' = d
       /\ proc' = [proc EXCEPT ![p] = m]
    \/ /\ CutWrites
       /\ disk' \in cuts
       /\ proc' = [proc EXCEPT ![p] = Off("dead")]

\* ds: the disk after each write.
Commit(p, m, ds) == CommitAny(p, m, ds[Len(ds)], {ds[i] : i \in 1..(Len(ds) - 1)})

\* _closed_elsewhere: another process wrote the record after this one.
ClosedElsewhere(p, j) == disk.led[j].st # "none" /\ disk.led[j].w # p

\* p holds the journal open; a replaced file swallows its lines.
Holds(p, j) == j \in proc[p].fd /\ disk.jr[j].ino = p

Line(p, j, jr) == IF Holds(p, j) THEN PutJournal(disk, j, jr) ELSE disk

\* The turns of s up to round k (the filter of _reopen).
Turns(s, k) ==
    LET kept[i \in 0..Len(s)] ==
            IF i = 0 THEN <<>>
            ELSE IF s[i] <= k THEN Append(kept[i - 1], s[i]) ELSE kept[i - 1]
    IN  kept[Len(s)]

-----------------------------------------------------------------------------
(* The life of a job in one process.                                       *)

\* start() puts the job in the line, or on a free slot at once; durable:
\* whether the file of its arguments could be written.
New(st, from) == [NoRec EXCEPT !.st = st, !.from = from]

StartStatus(p) == IF proc[p].up = "up" THEN {"queued", "running"} ELSE {"queued"}

SaveArgs(j, durable) == IF durable THEN PutArgs(disk, j, TRUE) ELSE disk

Start(p, j) ==
    /\ proc[p].up = "up" /\ j \in Started /\ Fresh(j)
    /\ \E st \in StartStatus(p), durable \in BOOLEAN :
          LET d == SaveArgs(j, durable) IN
          Commit(p, [proc[p] EXCEPT !.jobs[j] = New(st, NoJob)],
                 <<d, PutRecord(d, p, j, New(st, NoJob))>>)
    /\ UNCHANGED world

\* _launch
Launch(p, j) ==
    /\ proc[p].up = "up" /\ proc[p].jobs[j].st = "queued"
    /\ LET r == [proc[p].jobs[j] EXCEPT !.st = "running"]
       IN  Commit(p, [proc[p] EXCEPT !.jobs[j] = r], <<PutRecord(disk, p, j, r)>>)
    /\ UNCHANGED world

\* The body of _drive opens the journal: an empty one, or the restored rounds
\* of the attempt before; opening may fail.
Opened(p, r) ==
    [has |-> TRUE, turns |-> <<>>, ends |-> r.done, pre |-> r.att, ino |-> p]

Enter(p, j) ==
    /\ proc[p].jobs[j].st = "running" /\ j \notin proc[p].in
    /\ LET m == [proc[p] EXCEPT !.in = @ \cup {j}] IN
          \/ Commit(p, [m EXCEPT !.fd = @ \cup {j}],
                    <<PutJournal(disk, j, Opened(p, proc[p].jobs[j]))>>)
          \/ Commit(p, m, <<disk>>)
    /\ UNCHANGED world

\* The panel is seated: the engine writes e:pre.
Seated(p, j) ==
    /\ j \in proc[p].in /\ ~disk.jr[j].pre /\ Holds(p, j)
    /\ Commit(p, proc[p], <<Line(p, j, [disk.jr[j] EXCEPT !.pre = TRUE])>>)
    /\ UNCHANGED world

Spoken(r) == r.turns # <<>> /\ Last(r.turns) = r.done + 1

Turn(p, j) ==
    LET r == proc[p].jobs[j] IN
    /\ j \in proc[p].in /\ r.done < Rounds /\ ~Spoken(r)
    /\ Holds(p, j) => disk.jr[j].pre
    /\ Commit(p, [proc[p] EXCEPT !.jobs[j].turns = Append(@, r.done + 1)],
              <<Line(p, j, [disk.jr[j] EXCEPT !.turns = Append(@, r.done + 1)])>>)
    /\ UNCHANGED world

RoundEnd(p, j) ==
    LET r == proc[p].jobs[j] IN
    /\ j \in proc[p].in /\ Spoken(r)
    /\ Commit(p, [proc[p] EXCEPT !.jobs[j].done = @ + 1],
              <<Line(p, j, [disk.jr[j] EXCEPT !.ends = r.done + 1])>>)
    /\ UNCHANGED world

\* _Journal._fail: this job writes no more lines.
JournalFails(p, j) ==
    /\ j \in proc[p].fd
    /\ proc' = [proc EXCEPT ![p].fd = @ \ {j}]
    /\ UNCHANGED <<disk, overlaps, asks>>

-----------------------------------------------------------------------------
(* The end of a job.                                                       *)

Gone(p, j, r) ==
    [proc[p] EXCEPT !.jobs[j] = r, !.in = @ \ {j}, !.fd = @ \ {j}]

\* Mutant: the last write does not look who wrote before.
EndUnlooked(p, j, st) ==
    LET r == [proc[p].jobs[j] EXCEPT !.st = st]
        d == PutRecord(disk, p, j, r)
    IN  Commit(p, Gone(p, j, r), <<d, PutArgs(d, j, FALSE), Dropped(d, j)>>)

\* The files go before the ledger says that the job is over.
DropsFirst(p, j, r) ==
    Commit(p, Gone(p, j, r),
           IF ClosedElsewhere(p, j) THEN <<disk>>
           ELSE <<PutArgs(disk, j, FALSE), Dropped(disk, j), PutRecord(Dropped(disk, j), p, j, r)>>)

\* Mutant: the end of a run drops the files first.
EndDropsFirst(p, j, st) == DropsFirst(p, j, [proc[p].jobs[j] EXCEPT !.st = st])

\* The finally of _drive.
End(p, j, st) ==
    LET r == [proc[p].jobs[j] EXCEPT !.st = st]
        d == PutRecord(disk, p, j, r)
    IN  Commit(p, Gone(p, j, r),
               IF ClosedElsewhere(p, j) THEN <<disk>>
               ELSE <<d, PutArgs(d, j, FALSE), Dropped(d, j)>>)

\* The deliberation ends, well or with an error.
Finish(p, j) ==
    /\ j \in proc[p].in
    /\ End(p, j, "done")
    /\ UNCHANGED world

\* A running job the user cancels: through _drive, or through _settle if its
\* body never ran, which drops the files before it writes the ledger.
CancelRunning(p, j) ==
    /\ proc[p].up = "up" /\ proc[p].jobs[j].st = "running"
    /\ IF j \in proc[p].in THEN End(p, j, "cancelled")
       ELSE DropsFirst(p, j, [proc[p].jobs[j] EXCEPT !.st = "cancelled"])
    /\ UNCHANGED world

CancelQueued(p, j) ==
    /\ proc[p].up = "up" /\ proc[p].jobs[j].st = "queued"
    /\ LET r == [proc[p].jobs[j] EXCEPT !.st = "cancelled"]
           d == PutRecord(disk, p, j, r)
       IN  Commit(p, Gone(p, j, r), <<d, PutArgs(d, j, FALSE), Dropped(d, j)>>)
    /\ UNCHANGED world

-----------------------------------------------------------------------------
(* deliberate_continue of an interrupted job.                              *)

\* The record a call sees: the one in memory, else a copy of the file.
Known(p, j) == IF proc[p].jobs[j].st # "none" THEN proc[p].jobs[j] ELSE disk.led[j]

Continuable(r) == r.st = "interrupted" /\ r.by = NoJob

\* _reopen: the rounds the journal has, its turns cut back to them.
Reopened(p, j) ==
    [Known(p, j) EXCEPT !.turns = Turns(@, disk.jr[j].ends), !.done = disk.jr[j].ends, !.att = TRUE]

\* Mutant: the journal is not rewritten before the job is in the line again.
NotRewritten(p, j) == disk

\* _rewrite_journal: what can be restored stays, the turns are the ledger's.
Rewritten(p, j) == PutJournal(disk, j, [disk.jr[j] EXCEPT !.turns = <<>>, !.ino = p])

\* _resume_in_place: the same job joins the line again.  _reopen looks at the
\* job once more.  m: the memory once the call is answered.
InPlace(p, j, m) ==
    /\ Continuable(Known(p, j))
    /\ \E st \in StartStatus(p) :
          LET r == [Reopened(p, j) EXCEPT !.st = st]
              d1 == Rewritten(p, j)
              d2 == PutArgs(d1, j, TRUE)
          IN  Commit(p, [m EXCEPT !.jobs[j] = r], <<d1, d2, PutRecord(d2, p, j, r)>>)

\* Mutant: the old record is marked before the new job is written.
MarkFirst(p, j, prev, m) ==
    \E k \in {i \in Jobs : Fresh(i)}, st \in StartStatus(p), durable \in BOOLEAN :
        LET d1 == PutRecord(disk, p, j, [prev EXCEPT !.by = k])
            d2 == IF durable THEN PutArgs(Dropped(d1, j), k, TRUE) ELSE Dropped(d1, j)
        IN  Commit(p, [m EXCEPT !.jobs[k] = New(st, j)],
                   <<d1, Dropped(d1, j), d2, PutRecord(d2, p, k, New(st, j))>>)

\* The summary path of _resume: a new job k takes over, then the record the
\* call read is marked and written, then the files of j go.
Summary(p, j, prev, m) ==
    \E k \in {i \in Jobs : Fresh(i)}, st \in StartStatus(p), durable \in BOOLEAN :
        LET d1 == SaveArgs(k, durable)
            d2 == PutRecord(d1, p, k, New(st, NoJob))
            d3 == PutRecord(d2, p, k, New(st, j))
            d4 == PutRecord(d3, p, j, [prev EXCEPT !.by = k])
        IN  Commit(p, [m EXCEPT !.jobs[k] = New(st, j)],
                   <<d1, d2, d3, d4, PutArgs(d4, j, FALSE), Dropped(d4, j)>>)

\* Somebody else continues: by a new job of his own, without the arguments.
\* The record the call read is written again and stays the owner's to continue.
Foreign(p, j, prev, m) ==
    \E k \in {i \in Jobs : Fresh(i)}, st \in StartStatus(p), durable \in BOOLEAN :
        LET d1 == SaveArgs(k, durable)
            d2 == PutRecord(d1, p, k, New(st, NoJob))
        IN  Commit(p, [m EXCEPT !.jobs[k] = New(st, NoJob)], <<d1, d2, PutRecord(d2, p, j, prev)>>)

\* The owner continues in place if nothing was changed and the journal can be
\* restored, else by a new job.
Resume(p, j, prev, m) ==
    /\ Continuable(prev)
    /\ \/ \E changed \in BOOLEAN :
             IF ~changed /\ disk.args[j] /\ disk.jr[j].has /\ disk.jr[j].pre
             THEN InPlace(p, j, m) ELSE Summary(p, j, prev, m)
       \/ Foreign(p, j, prev, m)
    /\ UNCHANGED world

\* A call that brings no subject: nothing is awaited.
Continue(p, j) ==
    /\ proc[p].up = "up"
    /\ Resume(p, j, Known(p, j), proc[p])

\* A call whose subject must be confirmed reads the record, asks the hub and
\* goes on with what it had read.
ContinueAsk(p, j) ==
    /\ asks
    /\ proc[p].up = "up" /\ Len(proc[p].calls) < MaxCalls
    /\ proc[p].jobs[j].st = "none" /\ Continuable(disk.led[j])
    /\ proc' = [proc EXCEPT ![p].calls = Append(@, [j |-> j, prev |-> disk.led[j]])]
    /\ UNCHANGED <<disk, overlaps, asks>>

ContinueGo(p, i) ==
    LET c == proc[p].calls[i] IN
    /\ proc[p].up \in {"up", "closing"}
    /\ Resume(p, c.j, c.prev, [proc[p] EXCEPT !.calls = RemoveAt(@, i)])

-----------------------------------------------------------------------------
(* The end of a process and the boot of the next.                          *)

\* SIGKILL, power, out of memory.
Die(p) ==
    /\ proc[p].up \in {"up", "closing"}
    /\ proc' = [proc EXCEPT ![p] = Off("dead")]
    /\ UNCHANGED <<disk, overlaps, asks>>

\* The exit signal: no request is taken any more, nothing is launched.
ExitSignal(p) ==
    /\ proc[p].up = "up"
    /\ proc' = [proc EXCEPT ![p].up = "closing"]
    /\ UNCHANGED <<disk, overlaps, asks>>

\* shutdown(): the running jobs are written as interrupted, one after the
\* other, their files kept.
Shutdown(p) ==
    /\ proc[p].up = "closing"
    /\ LET mine == {j \in Jobs : /\ proc[p].jobs[j].st = "running"
                                 /\ ~ClosedElsewhere(p, j)}
           cut(S) == [disk EXCEPT !.led = [j \in Jobs |->
                        IF j \in S THEN Stamped(p, [proc[p].jobs[j] EXCEPT !.st = "interrupted"])
                                   ELSE disk.led[j]]]
       IN  CommitAny(p, Off("dead"), cut(mine), {cut(S) : S \in SUBSET mine})
    /\ UNCHANGED world

\* _fold_journal: the turns since the journal was opened join the ledger's.
Folded(j) == [disk.led[j] EXCEPT !.turns = @ \o disk.jr[j].turns]

Left(st) == {j \in Jobs : disk.led[j].st = st}

\* A queued job can wait on if it has its arguments and, when it had joined
\* in place, its rounds can be read again.
Restorable(j) == disk.args[j] /\ (disk.led[j].att => disk.jr[j].has /\ disk.jr[j].pre)

\* The queued jobs of S the next process takes over.
Again(S) == {j \in S : Restorable(j)}

\* _close_orphan, and _requeue of a job whose rounds cannot be read again.
Close(j) ==
    [(IF disk.led[j].st = "running" THEN Folded(j) ELSE disk.led[j]) EXCEPT !.st = "interrupted"]

\* A queued orphan without arguments loses its journal before it is closed.
Lost(orphans) == {j \in orphans : disk.led[j].st = "queued" /\ ~disk.args[j]}

\* The record a process takes over, with the rounds its journal gives back.
Back(j) == [disk.led[j] EXCEPT !.w = 0, !.done = IF disk.led[j].att THEN disk.jr[j].ends ELSE 0]

\* The disk once p has closed the orphans of O, written the queued jobs of A
\* again and dropped the arguments of X and the journals of Y.
BootDisk(p, O, A, X, Y) ==
    [led |-> [j \in Jobs |-> CASE j \in O -> Stamped(p, Close(j))
                              [] j \in A \ O -> Stamped(p, Back(j))
                              [] OTHER -> disk.led[j]],
     args |-> [j \in Jobs |-> disk.args[j] /\ j \notin X],
     jr |-> [j \in Jobs |-> IF j \in Y THEN NoJournal ELSE disk.jr[j]]]

\* reap_orphans, then _sweep_args, a job at a time; old: interrupted jobs past
\* ARGS_KEEP_S.
Boot(p, old) ==
    LET again == Again(Left("queued"))
        orphans == (Left("running") \cup Left("queued")) \ again
        lost == Lost(orphans)
        swept == {j \in Jobs \ (orphans \cup again) :
                    \/ disk.led[j].st \in Over \cup {"none"}
                    \/ disk.led[j].by # NoJob \/ j \in old}
        closing == {BootDisk(p, S, {}, {}, (S \cap lost) \cup {j}) : S \in SUBSET orphans, j \in lost}
                     \cup {BootDisk(p, S, {}, {}, S \cap lost) : S \in SUBSET orphans}
        queueing == {BootDisk(p, orphans, S, {}, lost) : S \in SUBSET again}
        sweeping == {BootDisk(p, orphans, again, S \cup {j}, lost \cup S) : S \in SUBSET swept, j \in swept}
    IN  CommitAny(p, [Off("up") EXCEPT !.jobs = [j \in Jobs |-> IF j \in again THEN Back(j) ELSE NoRec]],
                  BootDisk(p, orphans, again, swept, lost \cup swept),
                  closing \cup queueing \cup sweeping)

\* The listener of the old process is closed before the next one binds.
Restart(p) ==
    /\ proc[p].up = "off"
    /\ \A q \in Procs : q < p =>
          proc[q].up = "dead" \/ (overlaps /\ proc[q].up = "closing")
    /\ \E old \in SUBSET Left("interrupted") : Boot(p, old)
    /\ UNCHANGED world

-----------------------------------------------------------------------------
Init ==
    /\ disk = [led |-> [j \in Jobs |-> NoRec], args |-> [j \in Jobs |-> FALSE],
               jr |-> [j \in Jobs |-> NoJournal]]
    /\ proc = [p \in Procs |-> Off("off")]
    /\ overlaps \in BOOLEAN /\ asks \in BOOLEAN

Request(p, j) ==
    Start(p, j) \/ CancelQueued(p, j) \/ CancelRunning(p, j)
      \/ Continue(p, j) \/ ContinueAsk(p, j)

Task(p, j) ==
    \/ Launch(p, j) \/ Enter(p, j) \/ Seated(p, j)
    \/ Turn(p, j) \/ RoundEnd(p, j) \/ Finish(p, j) \/ JournalFails(p, j)

Process(p) == Restart(p) \/ ExitSignal(p) \/ Shutdown(p) \/ Die(p)

Next == \E p \in Procs :
    \/ \E j \in Jobs : Request(p, j) \/ Task(p, j)
    \/ \E i \in DOMAIN proc[p].calls : ContinueGo(p, i)
    \/ Process(p)

Spec == Init /\ [][Next]_vars

-----------------------------------------------------------------------------
(* Properties.                                                             *)

Statuses == {"none", "queued", "running", "done", "cancelled", "interrupted"}

Records ==
    [st : Statuses, turns : Seq(1..Rounds), done : 0..Rounds, att : BOOLEAN,
     by : Jobs \cup {NoJob}, from : Jobs \cup {NoJob}, w : 0..MaxProc]

Journals ==
    [has : BOOLEAN, turns : Seq(1..Rounds), ends : 0..Rounds, pre : BOOLEAN, ino : 0..MaxProc]

Memories ==
    [up : {"off", "up", "closing", "dead"}, jobs : [Jobs -> Records],
     in : SUBSET Jobs, fd : SUBSET Jobs, calls : Seq([j : Jobs, prev : Records])]

\* The values the variables take.
TypeOK ==
    /\ disk \in [led : [Jobs -> Records], args : [Jobs -> BOOLEAN], jr : [Jobs -> Journals]]
    /\ proc \in [Procs -> Memories]
    /\ overlaps \in BOOLEAN /\ asks \in BOOLEAN

\* "Each seat is in the transcript once per round" (_reopen): without
\* overlapping processes a transcript, in memory or in the ledger, is the
\* rounds 1, 2, ... in order, whatever was cut, folded and restored.
TranscriptIsWhole ==
    \A j \in Jobs :
        \A r \in {disk.led[j]} \cup {proc[p].jobs[j] : p \in Procs} :
            \A i \in DOMAIN r.turns : r.turns[i] = i

\* The rounds a journal can give back have their turns in the ledger or in the
\* same journal.
RestoredRoundsSpoken ==
    \A j \in Jobs : disk.jr[j].has =>
        disk.jr[j].ends <= Len(disk.led[j].turns) + Len(disk.jr[j].turns)

\* The mark that a job was continued is never lost nor moved, whoever ends,
\* folds or closes the job later (_closed_elsewhere).
MarkStays ==
    \A j \in Jobs : disk.led[j].by # NoJob =>
       disk.led'[j].by = disk.led[j].by /\ disk.led'[j].st = "interrupted"

\* A mark names a job the ledger has: the one that took over is written first.
MarkHasHeir ==
    \A j \in Jobs : LET k == disk.led[j].by IN
        k # NoJob => disk.led[k].st # "none" /\ disk.led[k].from = j

\* A job the ledger calls done or cancelled stays that.
OverStays ==
    \A j \in Jobs : disk.led[j].st \in Over =>
       disk.led'[j].st = disk.led[j].st

\* A restart does not lose the line: a queued job whose arguments and rounds
\* can be read again waits, runs or is cancelled by its user, it is not cut.
LineStays ==
    \A j \in Left("queued") : Restorable(j) => disk.led'[j].st # "interrupted"

\* While a server is up no job is shown as queued or running that it has not.
NobodyWaitsForever ==
    \A p \in Procs : proc[p].up = "up" =>
        \A j \in Jobs : disk.led[j].st \in {"queued", "running"} =>
            proc[p].jobs[j].st = disk.led[j].st

\* The arguments of a job whose body ran are not dropped while it may still be
\* continued: only once the ledger says it is over or continued, or at a boot
\* that finds it cut too long ago or finds no ledger.
ArgsStay ==
    \A j \in Jobs : disk.args[j] /\ ~disk.args'[j] =>
       \/ disk.led'[j].st \in Over \/ disk.led'[j].by # NoJob
       \/ /\ disk.led[j].st \in {"none", "interrupted"}
          /\ \E p \in Procs : proc[p].up = "off" /\ proc'[p].up # "off"
       \/ \E p \in Procs : proc[p].jobs[j].st = "running" /\ j \notin proc[p].in

\* A server that is up keeps no arguments or journal of a job that is over or
\* continued: they hold the evidence and the talk of its owner.
FilesAreSwept ==
    (\E p \in Procs : proc[p].up = "up") =>
        \A j \in Jobs : disk.args[j] \/ disk.jr[j].has =>
            disk.led[j].st \notin Over \cup {"none"} /\ disk.led[j].by = NoJob

\* Transcripts hold every round once, in order, in memory and on disk, and
\* what a journal gives back has its turns.
RoundsAreKept ==
    /\ TypeOK
    /\ ~overlaps /\ ~asks => TranscriptIsWhole /\ RestoredRoundsSpoken

\* A continued job has an heir, with and without calls that go on with a
\* record they read before; a shown one a process, and what is left of a job
\* that is over is swept.  A call that a closing process answers late puts its
\* job in a line the next process has read already: hence the conditions.
JobsAreOwned ==
    /\ MarkHasHeir
    /\ ~(overlaps /\ asks) => NobodyWaitsForever
    /\ ~overlaps /\ ~asks => FilesAreSwept

\* The mark of a continued job and the end of a job stay as they are.
EndsAreFinal == [][~asks => MarkStays /\ OverStays]_vars

\* The line survives a restart, the arguments the run.
NothingIsDropped == [][~asks => LineStays /\ ArgsStay]_vars

\* "A job is continued once only, else the same deliberation runs twice"
\* (_resume): two jobs never continue the same one, nor does one continue a
\* job that runs again itself.
ResumedOnce ==
    \A j \in Jobs : \A k \in Jobs :
        disk.led[k].from = j =>
            /\ disk.led[j].st = "interrupted"
            /\ \A i \in Jobs : disk.led[i].from = j => i = k
=============================================================================

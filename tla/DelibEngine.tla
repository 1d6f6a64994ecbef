---------------------------- MODULE DelibEngine ----------------------------
(***************************************************************************)
(* The engine of one deliberation job (deliberation.py) with its progress  *)
(* journal (delib_jobs.py, delib_resume.py) through kills and resumes in   *)
(* place: stages, rounds of seats that answer or fail concurrently, the    *)
(* lookup before a round, the chair with its retries, the steps after the  *)
(* decision, the notices of every place, and the resume data from which    *)
(* the next process goes on.                                               *)
(*                                                                         *)
(* An answer is a seat, the attempt in which it was given and the lookup   *)
(* it was given on.  The journal is the state delib_resume.parse has after *)
(* reading it; the ledger is what a fold of the journal's public rows      *)
(* yields (turns, notices, the checkpoint; what it has of the stages behind *)
(* the checkpoint is left out, no step reads it again).  Which row no longer fits the  *)
(* journal and which write fails are free choices, as sizes are.           *)
(***************************************************************************)
EXTENDS Naturals, Sequences, FiniteSets

CONSTANTS Seats,        \* the seats of every stage
          Rounds,       \* rounds of a stage
          Jobs,         \* records: plan (the stages "main", "tp", "sim-1",
                        \* ... in order), looks, save, wiki, stop; lives and
                        \* full bound the kills and the journal's failures
          MaxAttempts,  \* bound: processes that run the job
          ChairTries    \* 1 + DELIB_CHAIR_RETRIES

ASSUME EngineAssumption ==
    /\ Rounds \in Nat \ {0} /\ MaxAttempts \in Nat \ {0} /\ ChairTries \in Nat \ {0}
    /\ \A j \in Jobs : j.plan # <<>> /\ j.lives \in 1..MaxAttempts

VARIABLES job,      \* stages and options of the job
          attempt,  \* number of the process that runs it
          mem,      \* the engine and the journal object of that process
          file,     \* the journal on disk
          turns,    \* ledger: answers shown, by round
          notices,  \* ledger: notices shown, with their count
          ckpt,     \* ledger: number of stages behind the last checkpoint
          saves,    \* history: report calls of the stage, made while the
                    \* journal worked
          over      \* "", "done", "error", or "handed" to a new job

vars == <<job, attempt, mem, file, turns, notices, ckpt, saves, over>>

Round == 1..Rounds
Place == 1..Rounds + 1                 \* the last place is the decision
Attempt == 1..MaxAttempts
Answers == [s : Seats, a : Attempt, g : 0..MaxAttempts]
Post == {"decision", "plain", "intent", "saved", "wiki"}
Of(as) == {a.s : a \in as}
Note(r, what, who) == [r |-> r, what |-> what, who |-> who]
Nothing(S) == [r \in Round |-> S]
HasIn(st) == job.plan[st] \in {"sim-2", "sim-3", "tp"}
Alive == mem.at # "down"

-----------------------------------------------------------------------------
(* The journal: what parse has read of the last stage begun, and the rows  *)
(* that change it.                                                         *)

Fresh == [st |-> 0, entered |-> FALSE, pre |-> FALSE, off |-> FALSE, here |-> 0,
          look |-> Nothing(0), raws |-> Nothing({}), ended |-> Nothing(FALSE),
          lost |-> Nothing({}), post |-> {}, failed |-> FALSE,
          notes |-> [r \in Place |-> {}]]

StageInRow(st) == [file EXCEPT !.st = st, !.entered = TRUE, !.here = 0]
PreRow(st) == [Fresh EXCEPT !.st = st, !.pre = TRUE]
RoundInRow(r) == [file EXCEPT !.here = r]
GatherRow(r) == [file EXCEPT !.look[r] = attempt]
\* the rows read so far are those of a stage that has begun
Current == file.pre /\ ~file.entered
RawRow(r, a) ==
    [file EXCEPT !.raws[r] = IF a.s \in Of(@) THEN @ ELSE @ \union {a}]
RoundEndRow(r, gone) == [file EXCEPT !.ended[r] = TRUE, !.lost[r] = gone]
PostRow(p) == [file EXCEPT !.post = @ \union {p}]

\* a row of the engine is written unless the rows have been stopped or the
\* file is closed; the row that reaches three quarters of the cap stops them
Row(f, m) ==
    \/ /\ ~mem.fd \/ mem.eoff
       /\ mem' = m /\ file' = file
    \/ /\ mem.fd /\ ~mem.eoff
       /\ \/ mem' = m /\ file' = f
          \/ job.full /\ mem' = [m EXCEPT !.eoff = TRUE] /\ file' = [file EXCEPT !.off = TRUE]

\* a notice is dropped if the attempt that was cut showed it at this place
Again(n) == mem.seen /\ n \in mem.left
Show(n, m) ==
    IF Again(n) THEN /\ mem' = [m EXCEPT !.left = @ \ {n}]
                     /\ UNCHANGED <<file, notices>>
    ELSE /\ mem' = m
         /\ IF mem.fd
            THEN /\ file' = IF file.here = 0 THEN file
                            ELSE [file EXCEPT !.notes[file.here] = @ \union {n}]
                 /\ notices' = IF n \in DOMAIN notices
                               THEN [notices EXCEPT ![n] = @ + 1]
                               ELSE [x \in DOMAIN notices \union {n} |->
                                        IF x = n THEN 1 ELSE notices[x]]
            ELSE UNCHANGED <<file, notices>>

\* rounds that can be restored: closed, every seat heard or lost, and not
\* the round after which the user asked to stop
RoundIsWhole(f, r) ==
    /\ f.ended[r] /\ Of(f.raws[r]) \union f.lost[r] = Seats
    /\ ~(r = 1 /\ job.stop)
Restorable(f) ==
    CHOOSE k \in 0..Rounds :
        /\ \A r \in 1..k : RoundIsWhole(f, r)
        /\ k < Rounds => ~RoundIsWhole(f, k + 1)

\* what parse refuses: rows stopped, the stage not yet begun or just begun,
\* a stage that a checkpoint has closed, an answer of nobody's seat
Refused(f) ==
    \/ f.off \/ f.entered \/ ~f.pre \/ f.st = ckpt
    \/ LET cut == Restorable(f) + 1
       IN cut <= Rounds /\ ~(Of(f.raws[cut]) \subseteq Seats)

\* mutants of Carried: the notices, or the answers of the cut round, stay behind
CarriedWithoutNotes(f) ==
    LET k == Restorable(f) IN
    [f EXCEPT !.here = 0,
              !.raws = [r \in Round |-> IF r <= k + 1 THEN f.raws[r] ELSE {}],
              !.look = [r \in Round |-> IF r <= k + 1 THEN f.look[r] ELSE 0],
              !.ended = [r \in Round |-> r <= k],
              !.lost = [r \in Round |-> IF r <= k THEN f.lost[r] ELSE {}],
              !.post = IF k = Rounds THEN f.post ELSE {},
              !.notes = [r \in Place |-> {}]]
CarriedWithoutCut(f) ==
    LET k == Restorable(f) IN
    [CarriedWithoutNotes(f) EXCEPT
              !.raws = [r \in Round |-> IF r <= k THEN f.raws[r] ELSE {}],
              !.notes = [r \in Place |-> IF r = k + 1 THEN f.notes[r] ELSE {}]]

\* the journal rewritten with the rows that are carried over
Carried(f) ==
    LET k == Restorable(f) IN
    [f EXCEPT !.here = 0,
              !.raws = [r \in Round |-> IF r <= k + 1 THEN f.raws[r] ELSE {}],
              !.look = [r \in Round |-> IF r <= k + 1 THEN f.look[r] ELSE 0],
              !.ended = [r \in Round |-> r <= k],
              !.lost = [r \in Round |-> IF r <= k THEN f.lost[r] ELSE {}],
              !.post = IF k = Rounds THEN f.post ELSE {},
              !.notes = [r \in Place |-> IF r = k + 1 THEN f.notes[r] ELSE {}]]

-----------------------------------------------------------------------------
(* A process takes the job up.                                              *)

Engine(st, at) ==
    [at |-> at, st |-> st, r |-> 1, cur |-> {}, pend |-> {}, tell |-> {},
     data |-> Nothing({}), look |-> 0, due |-> <<>>, left |-> {}, seen |-> FALSE,
     cut |-> 0, post |-> {}, failed |-> FALSE, tries |-> 0, fd |-> TRUE, eoff |-> FALSE]

Begin(st) == IF HasIn(st) THEN "stagein" ELSE "enter"

Init ==
    /\ job \in Jobs
    /\ attempt = 1 /\ mem = Engine(1, Begin(1)) /\ file = Fresh
    /\ turns = Nothing(<<>>)
    /\ notices = [n \in {} |-> 0] /\ ckpt = 0
    /\ saves = 0 /\ over = ""

\* every await may be the last one of the process
Kill ==
    /\ Alive /\ over = "" /\ attempt < job.lives
    /\ mem' = Engine(mem.st, "down")
    /\ UNCHANGED <<job, attempt, file, turns, notices, ckpt, saves, over>>

JournalFails ==
    /\ Alive /\ over = "" /\ mem.fd /\ job.full
    /\ mem' = [mem EXCEPT !.fd = FALSE]
    /\ UNCHANGED <<job, attempt, file, turns, notices, ckpt, saves, over>>

\* the owner continues a job that was cut: the journal is rewritten, the
\* turns of rounds that are not restored leave the ledger, and the engine
\* starts with the round that was cut
Resume ==
    /\ ~Alive /\ over = "" /\ ~Refused(file)
    /\ LET k == Restorable(file)
           f == Carried(file)
       IN /\ file' = f
          /\ turns' = [r \in Round |-> IF r <= k THEN turns[r] ELSE <<>>]
          /\ mem' = [Engine(f.st, IF k < Rounds THEN "head" ELSE "chairin") EXCEPT
                !.r = k + 1, !.cut = k + 1, !.left = f.notes[k + 1],
                !.data = [r \in Round |-> IF r <= k THEN f.raws[r] ELSE {}],
                !.tell = IF k < Rounds THEN f.raws[k + 1] ELSE {},
                !.look = IF k < Rounds THEN f.look[k + 1] ELSE 0,
                !.post = f.post, !.failed = f.failed]
    /\ attempt' = attempt + 1
    /\ UNCHANGED <<job, notices, ckpt, saves, over>>

\* what cannot be resumed in place is continued by a new job
HandOver ==
    /\ ~Alive /\ over = "" /\ Refused(file)
    /\ over' = "handed"
    /\ UNCHANGED <<job, attempt, mem, file, turns, notices, ckpt, saves>>

-----------------------------------------------------------------------------
(* A stage: before the rounds.                                              *)

At(x) == mem.at = x /\ over = "" /\ mem.due = <<>>

\* what the engine asks outside the stage, then the row with its results
StageIn ==
    /\ At("stagein")
    /\ Row(StageInRow(mem.st), [mem EXCEPT !.at = "enter", !.seen = FALSE, !.left = {}])
    /\ UNCHANGED <<job, attempt, turns, notices, ckpt, saves, over>>

\* no tools, no answer to the search for seats, fewer than two seats
EnterFails ==
    /\ At("enter")
    /\ over' = "error" /\ mem' = Engine(mem.st, "down")
    /\ UNCHANGED <<job, attempt, file, turns, notices, ckpt, saves>>

Enter ==
    /\ At("enter")
    /\ Row(PreRow(mem.st), [mem EXCEPT !.at = "head", !.seen = FALSE, !.left = {}])
    /\ UNCHANGED <<job, attempt, turns, notices, ckpt, saves, over>>

-----------------------------------------------------------------------------
(* A round.                                                                 *)

\* seats look up before they speak, except in the last round, and unless
\* the attempt that was cut has looked or somebody has spoken
Looks == job.looks /\ mem.r < Rounds /\ mem.look = 0 /\ mem.tell = {}

\* mutant: every seat is asked, the ones heard before the cut too
RoundInAsksAll ==
    /\ At("head")
    /\ Row(RoundInRow(mem.r),
           [mem EXCEPT !.at = IF Looks THEN "look" ELSE "speak",
                       !.pend = Seats,
                       !.seen = mem.cut = mem.r])
    /\ UNCHANGED <<job, attempt, turns, notices, ckpt, saves, over>>

RoundIn ==
    /\ At("head")
    /\ Row(RoundInRow(mem.r),
           [mem EXCEPT !.at = IF Looks THEN "look" ELSE "speak",
                       !.pend = Seats \ Of(mem.tell),
                       !.seen = mem.cut = mem.r])
    /\ UNCHANGED <<job, attempt, turns, notices, ckpt, saves, over>>

\* the next notice of this place is shown
Notify ==
    /\ Alive /\ over = "" /\ mem.due # <<>>
    /\ Show(Head(mem.due), [mem EXCEPT !.due = Tail(@)])
    /\ UNCHANGED <<job, attempt, turns, ckpt, saves, over>>

\* the seats' lookups are over, with or without trouble to report
Look ==
    /\ At("look")
    /\ \E trouble \in BOOLEAN :
         mem' = [mem EXCEPT !.at = "gather",
                   !.due = IF trouble THEN <<Note(mem.r, "look", {})>> ELSE <<>>]
    /\ UNCHANGED <<job, attempt, file, turns, notices, ckpt, saves, over>>

Gather ==
    /\ At("gather")
    /\ Row(GatherRow(mem.r), [mem EXCEPT !.at = "speak", !.look = attempt])
    /\ UNCHANGED <<job, attempt, turns, notices, ckpt, saves, over>>

\* a seat answers, in any order; its raw answer is written before its turn
\* is shown
Answer(s) ==
    /\ At("speak") /\ mem.tell = {} /\ s \in mem.pend
    /\ LET a == [s |-> s, a |-> attempt, g |-> mem.look]
       IN Row(RawRow(mem.r, a), [mem EXCEPT !.pend = @ \ {s}, !.tell = {a}])
    /\ UNCHANGED <<job, attempt, turns, notices, ckpt, saves, over>>

Turn ==
    /\ At("speak")
    /\ \E a \in mem.tell :
         /\ mem' = [mem EXCEPT !.cur = @ \union {a}, !.tell = @ \ {a}]
         /\ turns' = IF mem.fd THEN [turns EXCEPT ![mem.r] = Append(@, a)]
                     ELSE turns
    /\ UNCHANGED <<job, attempt, file, notices, ckpt, saves, over>>

Fail(s) ==
    /\ At("speak") /\ mem.tell = {} /\ s \in mem.pend
    /\ mem' = [mem EXCEPT !.pend = @ \ {s}]
    /\ UNCHANGED <<job, attempt, file, turns, notices, ckpt, saves, over>>

Lost == Seats \ Of(mem.cur)

\* mutant: the round waits for seats that were lost
CloseAwaitsAll ==
    /\ At("speak") /\ mem.tell = {} /\ mem.pend = {} /\ Lost = {}
    /\ mem' = [mem EXCEPT !.at = "close", !.data[mem.r] = mem.cur,
                 !.due = IF Lost = {} THEN <<>>
                         ELSE <<Note(mem.r, "lost", Lost), Note(mem.r, "card", Lost)>>]
    /\ UNCHANGED <<job, attempt, file, turns, notices, ckpt, saves, over>>

\* seats that were lost are told as a warning and as a card
Close ==
    /\ At("speak") /\ mem.tell = {} /\ mem.pend = {}
    /\ mem' = [mem EXCEPT !.at = "close", !.data[mem.r] = mem.cur,
                 !.due = IF Lost = {} THEN <<>>
                         ELSE <<Note(mem.r, "lost", Lost), Note(mem.r, "card", Lost)>>]
    /\ UNCHANGED <<job, attempt, file, turns, notices, ckpt, saves, over>>

\* the round ends; after the first one the user may have asked to stop
RoundEnd ==
    /\ At("close")
    /\ LET m == [mem EXCEPT !.cur = {}, !.look = 0, !.r = @ + 1,
                            !.seen = @ /\ mem.r # mem.cut,
                            !.left = IF mem.r = mem.cut THEN {} ELSE @]
       IN Row(RoundEndRow(mem.r, Lost),
              [m EXCEPT !.at = IF mem.r = 1 /\ job.stop THEN "stopped"
                               ELSE IF mem.r < Rounds THEN "head" ELSE "chairin"])
    /\ UNCHANGED <<job, attempt, turns, notices, ckpt, saves, over>>

Stopped ==
    /\ At("stopped")
    /\ over' = "done" /\ mem' = Engine(mem.st, "down")
    /\ UNCHANGED <<job, attempt, file, turns, notices, ckpt, saves>>

-----------------------------------------------------------------------------
(* The decision and what follows it.                                        *)

ChairIn ==
    /\ At("chairin")
    /\ Row(RoundInRow(Rounds + 1),
           [mem EXCEPT !.at = IF "decision" \in mem.post THEN "plain" ELSE "chair",
                       !.seen = mem.cut = Rounds + 1])
    /\ UNCHANGED <<job, attempt, turns, notices, ckpt, saves, over>>

\* the chair writes the decision, perhaps cut off by the output limit
ChairAnswers ==
    /\ At("chair")
    /\ \E short \in BOOLEAN :
         mem' = [mem EXCEPT !.at = "decide", !.failed = FALSE,
                   !.due = IF short THEN <<Note(Rounds + 1, "short", {})>> ELSE <<>>]
    /\ UNCHANGED <<job, attempt, file, turns, notices, ckpt, saves, over>>

ChairFails ==
    /\ At("chair")
    /\ mem' = [mem EXCEPT !.tries = @ + 1, !.failed = TRUE,
                 !.at = IF mem.tries + 1 < ChairTries THEN "chair" ELSE "decide"]
    /\ UNCHANGED <<job, attempt, file, turns, notices, ckpt, saves, over>>

Decide ==
    /\ At("decide")
    /\ Row([PostRow("decision") EXCEPT !.failed = mem.failed], [mem EXCEPT !.at = "plain"])
    /\ UNCHANGED <<job, attempt, turns, notices, ckpt, saves, over>>

\* summary and plain words, unless the chair failed or they are restored
Plain ==
    /\ At("plain")
    /\ LET maybe == "intent" \in mem.post /\ "saved" \notin mem.post /\ job.save
           m == [mem EXCEPT !.at = "intent",
                   !.due = IF maybe THEN <<Note(Rounds + 1, "maybe", {})>> ELSE <<>>]
       IN IF "plain" \in mem.post THEN mem' = m /\ UNCHANGED file
          ELSE Row(PostRow("plain"), m)
    /\ UNCHANGED <<job, attempt, turns, notices, ckpt, saves, over>>

Intent ==
    /\ At("intent")
    /\ LET m == [mem EXCEPT !.at = "save"]
       IN IF "intent" \in mem.post THEN mem' = m /\ UNCHANGED file
          ELSE Row(PostRow("intent"), m)
    /\ UNCHANGED <<job, attempt, turns, notices, ckpt, saves, over>>

\* the call to the archive, which may fail, is not made for a report saved
Save ==
    /\ At("save")
    /\ mem' = [mem EXCEPT !.at = "saved"]
    /\ saves' = IF job.save /\ "saved" \notin mem.post /\ mem.fd
                THEN saves + 1 ELSE saves
    /\ UNCHANGED <<job, attempt, file, turns, notices, ckpt, over>>

Saved ==
    /\ At("saved")
    /\ LET m == [mem EXCEPT !.at = IF job.wiki THEN "wiki" ELSE "result"]
       IN IF "saved" \in mem.post THEN mem' = m /\ UNCHANGED file
          ELSE Row(PostRow("saved"), m)
    /\ UNCHANGED <<job, attempt, turns, notices, ckpt, saves, over>>

Wiki ==
    /\ At("wiki")
    /\ LET m == [mem EXCEPT !.at = "result"]
       IN IF "wiki" \in mem.post THEN mem' = m /\ UNCHANGED file
          ELSE Row(PostRow("wiki"), m)
    /\ UNCHANGED <<job, attempt, turns, notices, ckpt, saves, over>>

\* the decision is shown; a stage without one ends the job, the last stage
\* ends it, another stage leaves a checkpoint
Result ==
    /\ At("result")
    /\ IF mem.failed \/ mem.st = Len(job.plan)
       THEN /\ over' = IF mem.failed THEN "error" ELSE "done"
            /\ mem' = Engine(mem.st, "down")
       ELSE /\ mem' = [mem EXCEPT !.at = "checkpoint", !.seen = FALSE, !.left = {}]
            /\ UNCHANGED over
    /\ UNCHANGED <<job, attempt, file, turns, notices, ckpt, saves>>

Checkpoint ==
    /\ At("checkpoint")
    /\ IF mem.fd
       THEN /\ ckpt' = mem.st /\ saves' = 0
            /\ turns' = Nothing(<<>>) /\ notices' = [n \in {} |-> 0]
       ELSE UNCHANGED <<ckpt, turns, notices, saves>>
    /\ mem' = [Engine(mem.st + 1, Begin(mem.st + 1)) EXCEPT
                  !.fd = mem.fd, !.eoff = mem.eoff]
    /\ UNCHANGED <<job, attempt, file, over>>

-----------------------------------------------------------------------------
Step ==
    \/ StageIn \/ Enter \/ EnterFails
    \/ RoundIn \/ Notify \/ Look \/ Gather \/ Turn \/ Close \/ RoundEnd \/ Stopped
    \/ \E s \in Seats : Answer(s) \/ Fail(s)
    \/ ChairIn \/ ChairAnswers \/ ChairFails \/ Decide \/ Plain \/ Intent
    \/ Save \/ Saved \/ Wiki \/ Result \/ Checkpoint

Next == Step \/ Kill \/ JournalFails \/ Resume \/ HandOver

\* a call of the model ends, by its own time limit if by nothing else
Spec == Init /\ [][Next]_vars
LiveSpec == Spec /\ WF_vars(Step)

-----------------------------------------------------------------------------
Notice == [r : Place, what : {"look", "lost", "card", "short", "maybe"},
           who : SUBSET Seats]

TypeOK ==
    /\ attempt \in Attempt /\ over \in {"", "done", "error", "handed"}
    /\ mem.st \in 1..Len(job.plan) /\ mem.r \in Place /\ mem.cut \in 0..Rounds + 1
    /\ mem.pend \subseteq Seats /\ mem.cur \subseteq Answers
    /\ mem.left \subseteq Notice /\ mem.tries \in 0..ChairTries
    /\ \A r \in Round : file.raws[r] \subseteq Answers /\ mem.data[r] \subseteq Answers
    /\ file.post \subseteq Post /\ DOMAIN notices \subseteq Notice
    /\ ckpt \in 0..Len(job.plan) /\ saves \in 0..MaxAttempts

Shown(r) == {turns[r][i] : i \in 1..Len(turns[r])}

\* A round that the journal calls ended is whole: its seats are heard or
\* lost, nobody is heard twice, all were heard on the same lookup, and the
\* ledger shows exactly these answers, however often the round was cut
\* (the order of e:gather, e:raw, turn and e:round_end).
RoundsWhole ==
    \A r \in Round : Current /\ file.st > ckpt /\ file.ended[r] =>
        /\ Of(file.raws[r]) = Seats \ file.lost[r]
        /\ \A a, b \in file.raws[r] : a.g = b.g /\ (a.s = b.s => a = b)
        /\ Shown(r) = file.raws[r] /\ Len(turns[r]) = Cardinality(file.raws[r])

\* The chair decides on what the ledger shows: while the journal works, the
\* rounds it is given are the turns of the ledger, restored or not.
ChairReadsTranscript ==
    mem.at \in {"chairin", "chair", "decide", "plain"} /\ mem.fd =>
        mem.data = [r \in Round |-> Shown(r)]

\* A notice of a place is shown once, though the place is done again after a
\* cut (Seen and e:note), and the loss of a seat in a round that ended has
\* been told.
NoticesOnce ==
    /\ \A n \in DOMAIN notices : notices[n] = 1
    /\ \A r \in Round : Current /\ file.st > ckpt /\ file.ended[r] /\ file.lost[r] # {} =>
          [r |-> r, what |-> "lost", who |-> file.lost[r]] \in DOMAIN notices

\* The archive has no key that makes a call idempotent: a second report of a
\* stage is made only after the reader was told that there may be two.
SecondReportIsTold ==
    saves > 1 => [r |-> Rounds + 1, what |-> "maybe", who |-> {}] \in DOMAIN notices

\* The journal's progress through all kills and resumes is that of a
\* deliberation that was never cut.
WhenCurrent(x, other) == IF Current THEN x ELSE other
Progress ==
    INSTANCE DelibProgress WITH
        stage <- file.st, open <- Current,
        said <- WhenCurrent(file.raws, Nothing({})),
        closed <- WhenCurrent(Restorable(file), 0),
        lost <- WhenCurrent([r \in Round |-> IF r <= Restorable(file)
                                THEN file.lost[r] ELSE {}], Nothing({})),
        after <- WhenCurrent(Cardinality(file.post), 0)
IsProgress == Progress!ProgressSpec

\* A round that ended is whole, and the chair reads the rounds of the
\* transcript.
RoundsAreRead == RoundsWhole /\ ChairReadsTranscript

\* A notice is given once over all attempts, and a second report of the same
\* decision is told.
NoticesAreTold == NoticesOnce /\ SecondReportIsTold
=============================================================================

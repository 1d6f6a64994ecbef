------------------------------ MODULE JobRecord ------------------------------
(***************************************************************************)
(* The record of one deliberation job (delib_jobs.py): what the engine's   *)
(* events make of it under its caps, what a cut and a resume in place      *)
(* change in it, and what two callers read of it (mcp_server.py): one that *)
(* waits on the status, one that reads the transcript page by page.        *)
(*                                                                         *)
(* A turn is the stage, the round and the seat; the row that says that the *)
(* transcript is full has none.  The engine is its order of events         *)
(* (DelibEngine has its retries, notices and lookups); the journal is what *)
(* a resume knows: closed rounds, seats heard in the cut one, a decision.  *)
(* Every seat that is heard dissents.                                      *)
(***************************************************************************)
EXTENDS Integers, SequencesExt

CONSTANTS Seats, Stages, Rounds,
          TurnMax,      \* DELIB_JOB_TURN_MAX
          WarnMax,      \* the last warnings that are kept (10)
          OmitMax,      \* OMITTED_MAX
          OmitTail,     \* OMITTED_TAIL
          PageMax,      \* turns of a page
          WaitPolls,    \* polls that fit in the time a status call waits
          MaxAttempts, MaxLost, MaxCards,   \* bounds of the model
          None

\* What the constants are; instances assume it.
RecordAssumption ==
    /\ {TurnMax, WarnMax, OmitMax, OmitTail, PageMax, Stages, Rounds} \subseteq Nat \ {0}
    /\ {WaitPolls, MaxAttempts, MaxLost, MaxCards} \subseteq Nat

VARIABLES job,      \* the record
          plan,     \* stages of the job
          eng,      \* where the engine stands
          file,     \* what the journal has for a resume
          said,     \* history: the turns of a run without cuts
          told,     \* history: warnings of the engine, cards left out, seats lost
          follows,  \* the caller: "status" | "pages" | "no one"
          caller    \* what the caller holds

vars == <<job, plan, eng, file, said, told, follows, caller>>

Turn(st, r, s) == [st |-> st, r |-> r, s |-> s]
CapRow == Turn(0, 0, None)
CapWarning == <<"cap", 0, 0>>
Live == {"queued", "running"}
Running == job.status = "running"

-----------------------------------------------------------------------------
(* _apply: the events of the engine.                                        *)

Latest(s, n) == IF Len(s) <= n THEN s ELSE SubSeq(s, Len(s) - n + 1, Len(s))

Warned(j, w) == [j EXCEPT !.warnings = Append(Latest(@, WarnMax - 1), w), !.wtotal = @ + 1]

\* the transcript takes TurnMax turns, then one row and one warning
Spoken(j, t) ==
    CASE Len(j.turns) < TurnMax -> [j EXCEPT !.turns = Append(@, t)]
      [] Len(j.turns) = TurnMax -> Warned([j EXCEPT !.turns = Append(@, CapRow)], CapWarning)
      [] OTHER -> j

\* a card that no seat was given: the first ones, how many are missing, the last ones
LeftOut(j, n) ==
    IF Len(j.omitted) < OmitMax THEN [j EXCEPT !.omitted = Append(@, <<"card", n>>)]
    ELSE LET tail == Latest(Append(SubSeq(j.omitted, OmitMax + 2, Len(j.omitted)), <<"card", n>>), OmitTail)
         IN [j EXCEPT !.over = @ + 1,
                      !.omitted = SubSeq(@, 1, OmitMax) \o <<<<"note", j.over + 1 - Len(tail)>>>> \o tail]

Cards(j, n) == FoldLeftDomain(LAMBDA k, i : LeftOut(k, told.cards + i), j, [i \in 1..n |-> i])

Seated(j) == [j EXCEPT !.total = Rounds, !.from = Len(j.turns)]

Decided(j, st, check) ==
    [j EXCEPT !.decision = st, !.finishing = FALSE, !.numcheck = IF check THEN st ELSE None]

Settled(j, st, heard, url) ==
    [j EXCEPT !.votes = [st |-> st, heard |-> heard], !.report = IF url THEN st ELSE None]

-----------------------------------------------------------------------------
(* The engine.                                                              *)

Init ==
    /\ plan \in 1..Stages /\ follows \in {"status", "pages", "no one"}
    /\ follows = "no one" <=> plan > 1
    /\ job = [status |-> "queued", stage |-> "queued", round |-> 0, total |-> 0, turns |-> <<>>, from |-> 0,
              votes |-> None, decision |-> None, numcheck |-> None, report |-> None, finishing |-> FALSE,
              warnings |-> <<>>, wtotal |-> 0, omitted |-> <<>>, over |-> 0, attempts |-> 0]
    /\ eng = [at |-> "start", st |-> 1, r |-> 1, pend |-> {}, kept |-> {}, heard |-> {}]
    /\ file = [st |-> 0, closed |-> 0, raws |-> {}, heard |-> {}, decided |-> FALSE]
    /\ said = <<>> /\ told = [warnings |-> 0, cards |-> 0, lost |-> 0]
    /\ caller = [mark |-> None, polls |-> 0, known |-> None, got |-> <<>>, off |-> 0]

Quiet == UNCHANGED <<plan, follows, caller>>

Start ==
    /\ eng.at = "start" /\ job.status = "queued"
    /\ job' = [job EXCEPT !.status = "running", !.stage = "start"]
    /\ eng' = [eng EXCEPT !.at = "seats"]
    /\ UNCHANGED <<file, said, told>> /\ Quiet

\* the seats of a stage; a stage that is resumed shows them again
Personas ==
    /\ Running /\ eng.at = "seats"
    /\ \E n \in IF file.st = eng.st THEN {0} ELSE {0, MaxCards} :
         /\ job' = Cards(Seated(job), n)
         /\ told' = [told EXCEPT !.cards = @ + n]
    /\ file' = IF file.st = eng.st THEN file
               ELSE [st |-> eng.st, closed |-> 0, raws |-> {}, heard |-> {}, decided |-> FALSE]
    /\ eng' = [eng EXCEPT !.at = IF eng.r <= Rounds THEN "round" ELSE "chair"]
    /\ UNCHANGED said /\ Quiet

Round ==
    /\ Running /\ eng.at = "round"
    /\ job' = [job EXCEPT !.stage = "round", !.round = eng.r]
    /\ eng' = [eng EXCEPT !.at = "speak", !.pend = Seats, !.heard = {}]
    /\ UNCHANGED <<file, said, told>> /\ Quiet

\* the raw answer is in the journal before the turn is in the record
Speak(s) ==
    /\ Running /\ eng.at = "speak" /\ s \in eng.pend
    /\ eng.kept # {} => s \in eng.kept
    /\ job' = Spoken(job, Turn(eng.st, eng.r, s))
    /\ said' = Append(said, Turn(eng.st, eng.r, s))
    /\ eng' = [eng EXCEPT !.pend = @ \ {s}, !.kept = @ \ {s}, !.heard = @ \cup {s}]
    /\ file' = [file EXCEPT !.raws = @ \cup {s}]
    /\ UNCHANGED told /\ Quiet

Lose(s) ==
    /\ Running /\ eng.at = "speak" /\ s \in eng.pend /\ eng.kept = {} /\ told.lost < MaxLost
    /\ eng' = [eng EXCEPT !.pend = @ \ {s}]
    /\ told' = [told EXCEPT !.lost = @ + 1]
    /\ UNCHANGED <<job, file, said>> /\ Quiet

\* seats that were lost are told in a warning and on a card
Close ==
    /\ Running /\ eng.at = "speak" /\ eng.pend = {}
    /\ IF eng.heard = Seats THEN UNCHANGED <<job, told>>
       ELSE /\ job' = Cards(Warned(job, <<"lost", eng.st, eng.r>>), 1)
            /\ told' = [told EXCEPT !.warnings = @ + 1, !.cards = @ + 1]
    /\ file' = [file EXCEPT !.closed = eng.r, !.raws = {}, !.heard = eng.heard]
    /\ eng' = [eng EXCEPT !.r = @ + 1, !.at = IF eng.r < Rounds THEN "round" ELSE "chair"]
    /\ UNCHANGED said /\ Quiet

\* the chair is back, and the journal has its decision: from here to the
\* decision's event the job is not cancelled
Chair ==
    /\ Running /\ eng.at = "chair"
    /\ job' = [job EXCEPT !.stage = "decide", !.finishing = TRUE]
    /\ file' = [file EXCEPT !.decided = TRUE]
    /\ eng' = [eng EXCEPT !.at = "decide"]
    /\ UNCHANGED <<said, told>> /\ Quiet

Decide ==
    /\ Running /\ eng.at = "decide"
    /\ \E check \in BOOLEAN : job' = Decided(job, eng.st, check)
    /\ eng' = [eng EXCEPT !.at = "outcome"]
    /\ UNCHANGED <<file, said, told>> /\ Quiet

Outcome ==
    /\ Running /\ eng.at = "outcome"
    /\ \E url \in BOOLEAN : job' = Settled(job, eng.st, file.heard, url)
    /\ eng' = IF eng.st = plan THEN [eng EXCEPT !.at = "end"]
              ELSE [eng EXCEPT !.at = "seats", !.st = @ + 1, !.r = 1]
    /\ UNCHANGED <<file, said, told>> /\ Quiet

End ==
    /\ Running /\ eng.at = "end"
    /\ job' = [job EXCEPT !.status = "done"]
    /\ UNCHANGED <<eng, file, said, told>> /\ Quiet

-----------------------------------------------------------------------------
(* A cut and a resume in place.                                             *)

\* the next boot finds the job cut; a call that waits is gone with its process
Kill ==
    /\ job.status \in Live /\ job.attempts < MaxAttempts
    /\ job' = [job EXCEPT !.status = "interrupted"]
    /\ caller' = [caller EXCEPT !.mark = None]
    /\ UNCHANGED <<plan, eng, file, said, told, follows>>

IsCapRow(t) == t.s = None

\* _drop_turn_cap_warning: the last one, if the window still has it
Dropped(ws) ==
    LET at == {i \in DOMAIN ws : ws[i] = CapWarning}
    IN IF at = {} THEN ws ELSE RemoveAt(ws, CHOOSE i \in at : \A k \in at : k <= i)

\* mutant: only the turns leave
CutTurnsOnly(j, k) ==
    [j EXCEPT !.turns = SubSeq(@, 1, j.from)
                            \o SelectSeq(SubSeq(@, j.from + 1, Len(@)), LAMBDA t : IsCapRow(t) \/ t.r <= k)]
\* the turns of the cut round leave; with them the row and the warning that
\* the transcript was full, since there is room again
Cut(j, k) ==
    LET stage == SubSeq(j.turns, j.from + 1, Len(j.turns))
        keep == SelectSeq(stage, LAMBDA t : IsCapRow(t) \/ t.r <= k)
        full == Len(keep) < Len(stage) /\ \E i \in DOMAIN keep : IsCapRow(keep[i])
        left == IF full THEN SelectSeq(keep, LAMBDA t : ~IsCapRow(t)) ELSE keep
    IN [j EXCEPT !.turns = SubSeq(@, 1, j.from) \o left,
                 !.warnings = IF full THEN Dropped(@) ELSE @,
                 !.wtotal = IF full THEN @ - 1 ELSE @]

\* _reopen: the journal has the stage that was cut
Reopen ==
    /\ job.status = "interrupted" /\ file.st = eng.st
    /\ LET k == file.closed IN
       /\ job' = [Cut(job, k) EXCEPT !.status = "queued", !.stage = "queued", !.round = k,
                                     !.finishing = file.decided, !.attempts = @ + 1]
       /\ said' = SelectSeq(said, LAMBDA t : t.st < eng.st \/ t.r <= k)
       /\ eng' = [eng EXCEPT !.at = "start", !.r = k + 1, !.pend = {}, !.kept = file.raws]
    /\ caller' = [caller EXCEPT !.got = <<>>, !.off = 0]
    /\ UNCHANGED <<plan, file, told, follows>>

-----------------------------------------------------------------------------
(* The callers.                                                             *)

Key(j) == <<j.status, j.stage, j.round>>
Finishing(j) == j.status \in Live /\ j.finishing

\* summary: what the next step of a caller depends on
Summary(j) ==
    [status |-> j.status, stage |-> j.stage, round |-> j.round, finishing |-> Finishing(j)]

\* deliberate_status(wait_s)
StatusAsk ==
    /\ follows = "status" /\ caller.mark = None
    /\ caller' = [caller EXCEPT !.mark = Key(job), !.polls = WaitPolls]
    /\ UNCHANGED <<job, plan, eng, file, said, told, follows>>

\* mutant: a job that has ended is waited for like any other
ChangedOnly(j) == Key(j) # caller.mark
Woken(j) == j.status \notin Live \/ Key(j) # caller.mark \/ caller.polls = 0

\* _status_wait: the record is looked at until something ends the wait
StatusPoll ==
    /\ caller.mark # None
    /\ caller' = IF Woken(job) THEN [caller EXCEPT !.mark = None, !.known = Summary(job)]
                 ELSE [caller EXCEPT !.polls = IF @ = 0 THEN 0 ELSE @ - 1]
    /\ UNCHANGED <<job, plan, eng, file, said, told, follows>>

NextOffset(total, off) == IF off + PageMax < total THEN off + PageMax ELSE None

\* transcript: a page from an offset; a caller that has them all comes back
\* for what was said since
ReadPage ==
    /\ follows = "pages" /\ caller.off < Len(job.turns)
    /\ LET total == Len(job.turns)
           last == IF caller.off + PageMax < total THEN caller.off + PageMax ELSE total
           next == NextOffset(total, caller.off)
       IN caller' = [caller EXCEPT !.got = @ \o SubSeq(job.turns, caller.off + 1, last),
                                   !.off = IF next = None THEN last ELSE next]
    /\ UNCHANGED <<job, plan, eng, file, said, told, follows>>

Next ==
    \/ Start \/ Personas \/ Round \/ Close \/ Chair \/ Decide \/ Outcome \/ End
    \/ \E s \in Seats : Speak(s) \/ Lose(s)
    \/ Kill \/ Reopen
    \/ StatusAsk \/ StatusPoll \/ ReadPage

Spec == Init /\ [][Next]_vars /\ WF_vars(StatusAsk) /\ WF_vars(StatusPoll)

-----------------------------------------------------------------------------
(* What the record says.                                                    *)

\* _minority: the statement of a seat in the last round of the stage
Says(j, s) == {i \in j.from + 1..Len(j.turns) : j.turns[i].s = s /\ j.turns[i].r = j.total}
Minority(j, s) ==
    IF Says(j, s) = {} THEN None
    ELSE j.turns[CHOOSE i \in Says(j, s) : \A k \in Says(j, s) : k <= i]

DecisionSummary(j) ==
    [decision |-> j.decision, votes |-> j.votes.st, numcheck |-> j.numcheck, report |-> j.report,
     minority |-> [s \in Seats |-> Minority(j, s)]]

\* _brief_status: how many cards were left out
OmittedTotal(j) == IF j.over > 0 THEN OmitMax + j.over ELSE Len(j.omitted)

Capped(ts) == IF Len(ts) <= TurnMax THEN ts ELSE Append(SubSeq(ts, 1, TurnMax), CapRow)

\* The transcript after any cuts and resumes is that of a run without cuts:
\* no seat's turn twice or missing, the cap at the same place with one row,
\* and one warning for it among those that are counted (_reopen), once the
\* seats heard in the cut round are shown again.
RecordAsUncut ==
    LET full == IF Len(said) > TurnMax THEN 1 ELSE 0
    IN eng.kept = {} =>
        /\ job.turns = Capped(said)
        /\ job.wtotal = told.warnings + full
        /\ Cardinality({i \in DOMAIN job.warnings : job.warnings[i] = CapWarning}) <= full

\* What is left out is told: the first cards, the last ones and the number
\* between them are all the cards there were, and the brief status counts
\* them all (_apply, _brief_status).
OmittedIsCounted ==
    LET n == told.cards
        tail == IF n <= OmitMax THEN 0 ELSE IF n - OmitMax < OmitTail THEN n - OmitMax ELSE OmitTail
    IN /\ OmittedTotal(job) = n
       /\ job.omitted = IF n <= OmitMax THEN [i \in 1..n |-> <<"card", i>>]
                        ELSE [i \in 1..OmitMax |-> <<"card", i>>] \o <<<<"note", n - OmitMax - tail>>>>
                             \o [i \in 1..tail |-> <<"card", n - tail + i>>]

\* What the summary of a job that is done puts side by side is of its last
\* stage: decision, votes, check of the numbers, address of the report, and
\* what a dissenting seat is quoted with is its last word in that stage; of
\* a job that was never cut nothing in the transcript is missed.
SummaryIsOfOneStage ==
    job.status = "done" =>
        LET sum == DecisionSummary(job)
        IN /\ sum.decision = plan /\ sum.votes = plan
           /\ {sum.numcheck, sum.report} \subseteq {None, plan}
           /\ \A s \in Seats :
                LET last == Turn(plan, Rounds, s)
                IN /\ sum.minority[s] \in {None, last}
                   /\ job.attempts = 0 /\ last \in ToSet(job.turns) => sum.minority[s] = last

\* A dissenting seat's last statement is in the summary if the transcript has
\* it (_minority: say is null if the ledger does not have the turn).
MinorityIsFound ==
    job.status = "done" =>
        \A s \in job.votes.heard :
            Turn(job.votes.st, Rounds, s) \in ToSet(job.turns) => Minority(job, s) # None

\* A caller that follows next_offset has read every turn once, in order, as
\* long as no resume has taken turns back.
PagesFit == caller.got = SubSeq(job.turns, 1, Len(caller.got))

\* A caller that waits in a loop ends up with what the job ends with.
CallerLearnsEnd == <>[](follows = "status" => caller.known = Summary(job))

=============================================================================

----------------------------- MODULE MCJobStream -----------------------------
(***************************************************************************)
(* A small instance of the stream of one job: a question to the thinking   *)
(* mode (Thinking, four seats, two of them of one domain), the seating of  *)
(* a deliberation (SeatCall, three experts and a synthetic seat), the list *)
(* of experts offered before one (SeatAxes, a state for each input), or    *)
(* the record of the job and its readers (JobRecord, two seats).           *)
(***************************************************************************)
EXTENDS Thinking

CONSTANTS a1, a2, b1, c1, da, db, dc, adv, None

MCDomainOf == [s \in Seats |-> CASE s \in {a1, a2} -> da [] s = b1 -> db [] OTHER -> dc]

Experts == {a1, a2, b1, adv}
\* da is a wide domain.
UnitOfExpert == [k \in Experts |-> CASE k \in {a1, a2} -> <<da, k>> [] k = b1 -> <<db>> [] OTHER -> <<dc>>]

\* Nobody; two; the adversary and an expert named twice, an opponent by his
\* origin and one too many; the adversary alone.
NamedSeats == LET Seat(k, o) == [key |-> k, origin |-> o]
    IN {<<>>, <<Seat(a1, "carry"), Seat(adv, "carry")>>,
        <<Seat(adv, "carry"), Seat(a1, "carry"), Seat(adv, "new"), Seat(a1, "new"),
          Seat(b1, "adversary"), Seat(a2, "carry")>>,
        <<Seat(adv, "carry")>>}

VARIABLES
    mode,           \* "thinking" | "deliberation" | "offer" | "record"
    input,          \* what the list of experts is made of
    opts, spc, personas, search, cards, evidence, pre, searched, kills,
    job, plan, eng, file, said, notes, follows, caller

S == INSTANCE SeatCall WITH
        Keys <- Experts, DomainOf <- [k \in Experts |-> Head(UnitOfExpert[k])],
        Units <- {UnitOfExpert[k] : k \in Experts}, UnitOf <- UnitOfExpert,
        Synthetic <- {adv}, Adversary <- adv, Named <- NamedSeats, MaxSeats <- 3,
        Wanted <- 2, CounterSeats <- 1, RescreenSeats <- 2, Axes <- 2, AtOnce <- 2,
        MaxRank <- 2, MaxKills <- 1,
        pc <- spc, task <- search

svars == <<opts, spc, personas, search, cards, evidence, pre, searched, kills>>

R == INSTANCE JobRecord WITH
        Seats <- {a1, b1}, Stages <- 2, Rounds <- 2, TurnMax <- 3, WarnMax <- 2, OmitMax <- 1, OmitTail <- 2,
        PageMax <- 2, WaitPolls <- 1, MaxAttempts <- 2, MaxLost <- 1, MaxCards <- 2,
        told <- notes

rvars == <<job, plan, eng, file, said, notes, follows, caller>>

A == INSTANCE SeatAxes WITH
        Known <- {da, db}, Operators <- {adv}, ExpertAxes <- 2, AxisQuota <- 1, Depth <- 3, CandidateTop <- 3

Recalls == {r \in UNION {[1..n -> Experts] : n \in 0..3} : Len(r) < 3 \/ IsInjective(r)}
Questions == {<<>>, <<b1>>, <<a1, b1>>, <<a1, a1, a2>>, <<adv, a2, a1>>, <<b1, a2, a1>>}
Lines == {[i \in DOMAIN l |-> [domain |-> l[i], read |-> i # 2 \/ Len(l) > 2]] :
            l \in {<<da, db>>, <<db, da, db>>, <<dc, db, da>>}}

NoInput == [lines |-> <<>>, history |-> FALSE, question |-> <<>>, recall |-> <<>>]

\* With a history the axes are asked for: else their rankings do not matter.
Inputs ==
    [lines : Lines, history : {TRUE}, question : Questions, recall : [{da, db} -> Recalls]]
    \cup [lines : Lines, history : {FALSE}, question : Questions, recall : [{da, db} -> {<<b1>>}]]

ASSUME R!RecordAssumption
ASSUME A!AxesAssumption
ASSUME S!SeatAssumption

MCInit ==
    /\ mode \in {"thinking", "deliberation", "offer", "record"}
    /\ input \in IF mode = "offer" THEN Inputs ELSE {NoInput}
    /\ IF mode = "deliberation" THEN S!Init
       ELSE /\ opts = [named |-> <<>>, rescreen |-> "no", adversary |-> FALSE, cards |-> FALSE,
                       asOf |-> FALSE, given |-> FALSE, journal |-> FALSE]
            /\ S!Init
    /\ IF mode = "record" THEN R!Init
       ELSE plan = 1 /\ follows = "pages" /\ R!Init
    /\ Init

MCNext ==
    \/ mode = "thinking" /\ Next /\ UNCHANGED <<mode, input, svars, rvars>>
    \/ mode = "deliberation" /\ S!Next /\ UNCHANGED <<mode, input, vars, rvars>>
    \/ mode = "record" /\ R!Next /\ UNCHANGED <<mode, input, vars, svars>>

Asks(Act) == mode = "thinking" /\ Act /\ UNCHANGED <<mode, input, svars, rvars>>
Reads(Act) == mode = "record" /\ Act /\ UNCHANGED <<mode, input, vars, svars>>

\* The fairness of Thinking!LiveSpec and of JobRecord!Spec.
MCSpec ==
    /\ MCInit /\ [][MCNext]_<<mode, input, vars, svars, rvars>>
    /\ WF_rvars(Reads(R!StatusAsk)) /\ WF_rvars(Reads(R!StatusPoll))
    /\ WF_vars(Asks(Stream))
    /\ WF_vars(Asks(\E s \in Seats : Call(s) \/ Answer(s)))

-----------------------------------------------------------------------------

\* Of a deliberation's seats: no two are alike, everybody who was searched
\* for is counted once, and no search is made again after a resume.
SeatsAreCounted == S!SeatsDiffer /\ S!CountedOnce /\ S!SearchedOnce

\* Of every list of experts that is offered (deliberate_experts).
SeatsAreFair ==
    mode = "offer" => A!SeatsAreFair(input.lines, input.history, input.question, input.recall)

\* Of the record: after cuts and resumes it is that of a run without them,
\* and what is left out is counted.
RecordIsWhole == R!RecordAsUncut /\ R!OmittedIsCounted

\* Of its readers: the summary is of one stage, the pages fit together.
ReadersAreTold == R!SummaryIsOfOneStage /\ R!PagesFit

\* The consultation ends, and a caller that waits on a job learns its end.
StreamsEnd == (mode = "thinking" ~> Over) /\ (mode = "record" => R!CallerLearnsEnd)

\* The seats of a deliberation and of a list that is offered.
SeatsAreRight == SeatsAreCounted /\ SeatsAreFair

\* The record and what is read of it.
RecordIsTold == RecordIsWhole /\ ReadersAreTold

\* What was heard is shown in the end, and every stream ends.
HeardToTheEnd == HeardIsShown /\ StreamsEnd

=============================================================================

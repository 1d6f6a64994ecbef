---------------------------- MODULE MCSeatLookups ----------------------------
(***************************************************************************)
(* A small instance of what the seats of a deliberation look up and say:   *)
(* two calls that one backend answers (SeatLookups), what a seat is shown  *)
(* of an answer (SeatReads, two projects, two days), one seat's turn in a  *)
(* round of rebuttals (RoundTalk, three seats), and, in states that go     *)
(* nowhere, the statements that a round is assigned and cut by.            *)
(***************************************************************************)
EXTENDS SeatLookups

CONSTANTS s1, s2, k1, k2, bk, f1, f2, o1, p1, p2

MCBackendOf == [k \in Keys |-> bk]
MCDesignated == <<k1, k2>>

VARIABLES
    mode,           \* "lookups" | "reads" | "talk" | "round"
    case,           \* the statements of a round
    code, day, tool, answer, shown,
    prev, cross, target, seatOf, tries, turn, end

A == INSTANCE SeatReads WITH
        Codes <- {p1, p2}, Days <- {1, 2}, Objects <- {f1, f2, o1}, IsFinding <- {f1, f2},
        FindingOf <- [o \in {f1, f2} |-> IF o = f1 THEN p1 ELSE p2], MaxRows <- 2

avars == <<code, day, tool, answer, shown>>

Order == <<s1, s2, bk>>
T == INSTANCE RoundTalk WITH
        Order <- Order, Words <- [s \in {s1, s2, bk} |-> IF s = bk THEN {"x"} ELSE {"x", "y"}],
        PerSeat <- 1, ParseRetries <- 2, MaxRebuts <- 1, SerClip <- 2, Label <- 1, Mark <- 1, Notice <- 2,
        seat <- seatOf

tvars == <<prev, cross, target, seatOf, tries, turn, end>>

NoCase == [kind |-> "none"]

\* The terms of four seats, the lengths of up to four rows, the values of the
\* statements of two seats.
Panels == [kind : {"targets"}, terms : [1..4 -> SUBSET {"x", "y", "z"}], k : 1..3]
Rows == [kind : {"rows"}, lens : UNION {[1..n -> 0..6] : n \in 1..4}, room : 1..18]
Statements ==
    [kind : {"chair"}, stmts : [1..2 -> [1..2 -> {1, 3, 7}]] \cup [1..3 -> [{1} -> {0, 2, 5, 9}]], room : 1..40]

ASSUME T!RoundAssumption
ASSUME A!ReadsAssumption

MCInit ==
    /\ mode \in {"lookups", "reads", "talk", "round"}
    /\ case \in IF mode = "round" THEN Panels \cup Rows \cup Statements ELSE {NoCase}
    /\ IF mode = "lookups" THEN Init ELSE ext = FALSE /\ Init
    /\ IF mode = "reads" THEN A!Init ELSE code = None /\ day = 0 /\ A!Init
    /\ IF mode = "talk" THEN T!Init ELSE prev = {s1} /\ seatOf = s1 /\ T!Init

Looks(Act) == mode = "lookups" /\ Act /\ UNCHANGED <<mode, case, avars, tvars>>

MCNext ==
    \/ mode = "lookups" /\ Next /\ UNCHANGED <<mode, case, avars, tvars>>
    \/ mode = "reads" /\ A!Next /\ UNCHANGED <<mode, case, vars, tvars>>
    \/ mode = "talk" /\ T!Next /\ UNCHANGED <<mode, case, vars, avars>>

\* The fairness of SeatLookups!LiveSpec.
MCSpec ==
    /\ MCInit /\ [][MCNext]_<<mode, case, vars, avars, tvars>>
    /\ WF_vars(Looks(Engine))
    /\ \A s \in Seats : WF_vars(Looks(SeatStep(s)))
    /\ \A k \in Keys : WF_vars(Looks(CallStep(k)))

-----------------------------------------------------------------------------

\* What a seat reads leaves out the verdicts on its project, counts what it
\* shows and keeps the deliberation's day.
ReadsAreClean == A!PriorIsHidden /\ A!CountsAgree /\ A!DayIsKept

\* What a seat says against the others is checked against what it was shown.
TalkIsChecked == T!ShownIsQuotable /\ T!PassedIsAnswered

\* The statements of a round reach everybody: each is aimed at by a seat, and
\* each is read by the next round and by the chair, as far as the room goes.
RoundIsHeard ==
    /\ case.kind = "targets" => T!CrossIsWhole(<<1, 2, 3, 4>>, case.terms, case.k)
    /\ case.kind = "rows" => \A floor \in {0, 2} : T!RowsAreShared(case.lens, case.room, floor)
    /\ case.kind = "chair" => T!ChairHearsAll(case.stmts, case.room)

\* The lookups come to an end (SeatLookups).
MCLookupsEnd == mode = "lookups" => LookupsEnd

\* The lookups keep the gate and come to an end.
LookupsEndGated == GateHolds /\ MCLookupsEnd

\* A round's statements are checked and heard.
TalkIsHeard == TalkIsChecked /\ RoundIsHeard

=============================================================================

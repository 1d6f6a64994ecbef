------------------------------ MODULE MCReviews ------------------------------
(***************************************************************************)
(* A small instance of the card reviews: the drain flag and the gate that  *)
(* every request passes (ReviewDrain), one request (CardReview: three rows *)
(* in an answer about a whole card, one in an answer about a chunk) and,   *)
(* in states that go nowhere, the plan of the calls and the limits it is   *)
(* made from, each on inputs around the sizes where a decision changes.    *)
(***************************************************************************)
EXTENDS ReviewDrain, CardPlan, TLC

CONSTANTS portal, admin

MCIdles == {<<2, 3>>}

VARIABLES
    mode,           \* "gate" | "review" | "plan"
    input,          \* what a plan is made of
    req, pc, at, run, results, rec, seat, waited, sent, answer, heard

V == INSTANCE CardReview WITH
        Attempts <- 2, WaitMax <- 1, MaxChunks <- 2, RowsAtOnce <- <<3, 1>>

vvars == <<req, pc, at, run, results, rec, seat, waited, sent, answer, heard>>

Windows == {8192, 12700, 16384}
Knob == 2

Plans ==
    [ctx : Windows, sizes : (1..6) \X (1..6) \cup {<<1, r, 1>> : r \in 1..6}, shape : {1, 2}, unit : 1..5]

Limits == [ctx : 1..20 \cup 12500..12800 \cup 47990..48020, mt : {0, 500, 8192}]

\* The request of a plan: its sizes are those at which the plan decides.
SizeAt(b, r) ==
    <<900, b.cardBudget["verdict"] \div 2, b.cardBudget["verdict"] + 1, CardRoom(b), CardRoom(b) + 1, 3 * CardRoom(b)>>[r]
BodyAt(b, r) ==
    <<500, b.unitMax, b.unitMax + 1, b.hard - b.fixed["verdict"] - RunFloor, b.hard - b.fixed["verdict"] - RunFloor + 1>>[r]
ListAt(b, r) == <<200, b.pageMax, b.pageMax + 1, b.pageMax + 1, b.hard - b.fixed["sweep"] - 3000>>[r]
Sections(n, parts) == [i \in 1..parts |-> AtLeast(1, (n - CardFrame - parts * SecHead) \div parts)]

RequestOf(x, b) ==
    [b |-> b,
     cards |-> [i \in DOMAIN x.sizes |->
                   [id |-> i, checkable |-> i # 2 \/ x.shape = 1,
                    secs |-> Sections(SizeAt(b, x.sizes[i]), x.shape)]],
     units |-> << [body |-> BodyAt(b, x.unit), manifest |-> ListAt(b, x.unit)],
                  [body |-> 500, manifest |-> 300] >>,
     sentence |-> IF x.shape = 1 THEN 900 ELSE 5000]

NoInput == [kind |-> "none"]

ASSUME V!ReviewAssumption

MCInit ==
    /\ mode \in {"gate", "review", "plan"}
    /\ input \in IF mode = "plan" THEN Plans \cup Limits ELSE {NoInput}
    /\ IF mode = "review" THEN V!Init ELSE req = [kind |-> "sweep", of |-> 1] /\ V!Init
    /\ Init

Gates(Act) == mode = "gate" /\ Act /\ UNCHANGED <<mode, input, vvars>>
Reviews(Act) == mode = "review" /\ Act /\ UNCHANGED <<mode, input, vars>>

\* A request is made for the sizes, and planned.
Ask ==
    /\ "unit" \in DOMAIN input
    /\ \E b \in {Budget(input.ctx, 0, Knob)} : input' = RequestOf(input, b)

PlanIt ==
    /\ "cards" \in DOMAIN input
    /\ input' = [q |-> input, p |-> Plan(input.b, input.cards, input.units)]

MCNext ==
    \/ mode = "gate" /\ Next /\ UNCHANGED <<mode, input, vvars>>
    \/ mode = "review" /\ V!Next /\ UNCHANGED <<mode, input, vars>>
    \/ (Ask \/ PlanIt) /\ UNCHANGED <<mode, vars, vvars>>

\* The fairness of ReviewDrain!LiveSpec and of CardReview!LiveSpec.
MCSpec ==
    /\ MCInit /\ [][MCNext]_<<mode, input, vars, vvars>>
    /\ WF_vars(Gates(Tick)) /\ WF_vvars(Reviews(V!Drive))

IsPlan == "p" \in DOMAIN input
IsLimit == "mt" \in DOMAIN input

-----------------------------------------------------------------------------
\* Every card of the pack is in one deck or told as too large, in the pack's
\* order, and a call of a deck with a unit or a page that the plan gave is
\* taken: as it is, in chunks, or card by card where the plan says so
\* (plan(), "run does not refuse the pairs").  A page with a single item
\* beyond the page's share is left out for a deck in chunks.
PlanIsKept ==
    IsPlan =>
        LET q == input.q
            b == q.b
            p == input.p
            Takes(kind, cards, other) == Accepted(b, kind, cards, other, q.sentence)
            Packed(pack, cards) ==
                FlattenSeq([i \in DOMAIN pack.decks |-> pack.decks[i].cards])
                    = SelectSeq(cards, LAMBDA c : c \notin ToSet(pack.over))
        IN
        /\ Packed(p.sweep, q.cards)
        /\ Packed(p.verdict, SelectSeq(q.cards, LAMBDA c : c.checkable))
        /\ Runnable(b) =>
            /\ \A d \in ToSet(p.verdict.decks), i \in p.units :
                IF PairOver(b, d, q.units[i])
                THEN \A c \in ToSet(d.cards) : Takes("verdict", <<c>>, q.units[i].body)
                ELSE Takes("verdict", d.cards, q.units[i].body)
            /\ \A d \in ToSet(p.sweep.decks), page \in ToSet(p.manifest.pages) :
                LET size == Total([i \in DOMAIN page |-> page[i].manifest])
                IN (d.chunked /\ size > b.pageMax) \/ Takes("sweep", d.cards, size)

\* A card that a call must show in full is shown in full by one of its pages,
\* in chunks if need be, wherever the unit leaves room for a chunk at all.
ShownInFull ==
    IsPlan =>
        LET q == input.q
            unit == q.units[1].body
        IN \A kind \in {"offcard", "noinput"} :
            LET room == q.b.hard - q.b.fixed[kind] - unit
            IN room >= RunFloor => \A shown \in {Shown(q.b, kind, q.cards, unit, q.sentence)} :
                /\ shown = Pieces(q.cards, room, q.sentence)
                /\ {shown[j].card : j \in DOMAIN shown} = DOMAIN q.cards

\* A larger window never makes anything smaller or stops a kind of call (the
\* docstring of _budget), and the window that a box is told it needs is the
\* least one on which the calls run.
WindowsGrow ==
    IsLimit =>
        LET b == Budget(input.ctx, input.mt, KDefault)
            c == Budget(input.ctx + 1, input.mt, KDefault)
            told == TooSmall(input.ctx, input.mt)
            mt == AtLeast(input.mt, told.tokens)
        IN
        /\ \A k \in CellKinds : b.body[k] <= c.body[k]
        /\ b.unitMax <= c.unitMax /\ b.pageMax <= c.pageMax
        /\ \A k \in {"verdict", "sweep"} : b.cardBudget[k] <= c.cardBudget[k]
        /\ Runnable(b) => Runnable(c)
        /\ ~Runnable(b) /\ told.window # NoWindow => RunsOn(told.window, mt) /\ ~RunsOn(told.window - 1, mt)

\* Of a request: what hits is not outweighed, two verdicts on one card are
\* told, an error only where nothing was read, a verdict only of the whole
\* card, and no seat kept (CardReview).
RowsAreKept ==
    /\ V!HitSurvives /\ V!DisagreementIsMarked
    /\ V!ErrorOnlyUnread /\ V!WholeCardJudged /\ V!NoSeatAtRest

\* Of the plan of the calls and of its limits.
PlanIsRight == PlanIsKept /\ ShownInFull /\ WindowsGrow

\* A flag is over some day and a request gets its last frames.
ReviewsEnd == FlagEnds /\ (mode = "review" => V!RequestEnds)

=============================================================================

----------------------------- MODULE CardBudget -----------------------------
(***************************************************************************)
(* What the card review may send and expect (src/card_review.py, _budget,  *)
(* limits): from the model's window and the cap on its output, in tokens,  *)
(* the sizes in characters of each kind of call, and, for a box on which   *)
(* the calls of the cells cannot run, the least window on which they can.  *)
(*                                                                         *)
(* The shares are the code's defaults, in thousandths; a product with a    *)
(* share is rounded down as an exact fraction, where the code rounds a     *)
(* float.  The summary's sizes and the hashes of the limits are left out.  *)
(***************************************************************************)
EXTENDS Integers, FiniteSets, FiniteSetsExt, Sequences

CellKinds == {"sweep", "verdict", "offcard", "noinput"}

ChairReserve == 16000
RunFloor == 1000
HintFloor == 600
NeedCtxMax == 2 ^ 30
KDefault == 8

\* Per thousand of a prompt.
ShareOf == [sweep |-> 500, verdict |-> 250, offcard |-> 300, noinput |-> 300]
BlocksOf == [sweep |-> 160, verdict |-> 200, offcard |-> 300, noinput |-> 250]
TemplateAllow == [sweep |-> 2400, verdict |-> 3200, offcard |-> 3600, noinput |-> 3600]
BodyMin == [sweep |-> 20000, verdict |-> 16000, offcard |-> 16000, noinput |-> 16000]
RowChars == [sweep |-> 150, verdict |-> 520, offcard |-> 600, noinput |-> 600]
OutHead == [sweep |-> 400, verdict |-> 0, offcard |-> 1400, noinput |-> 800]

AtLeast(x, y) == IF x < y THEN y ELSE x
AtMost(x, y) == IF x < y THEN x ELSE y

\* x * a / b, rounded down, without a product beyond the integers of TLC.
Part(x, a, b) == (x \div b) * a + ((x % b) * a) \div b

\* Characters per token: 1.05; the margin of the estimate: 0.93.
CharsOf(tokens) == Part(tokens, 105, 100)

-----------------------------------------------------------------------------
OutOf(ctx, mt) == AtLeast(mt, AtMost(ChairReserve, ctx \div 4))

\* What no prompt may exceed.
HardOf(ctx, mt) == AtLeast(0, Part(ctx - OutOf(ctx, mt), 1953, 2000))

RowsOut(ctx, mt) == Part(IF mt > 0 THEN mt ELSE OutOf(ctx, mt), 63, 100)

\* The least answer of a kind has room in the output.
AnswerFits(kind, rows) == rows - OutHead[kind] >= RowChars[kind]

Prompt(kind, ctx, hard) ==
    AtMost(hard, AtLeast(Part(CharsOf(ctx), ShareOf[kind], 1000), TemplateAllow[kind] + BodyMin[kind]))

\* The part of a prompt for cards and unit: what blocks, hint and template leave.
BodyOf(kind, p) ==
    AtLeast(0, AtMost(Part(p, 1000 - BlocksOf[kind], 1000) - HintFloor,
                      Part(p, 1000 - BlocksOf[kind] - 20, 1000)) - TemplateAllow[kind])

HintMax(p) == AtLeast(HintFloor, Part(p, 20, 1000))

FixedOf(kind, p) ==
    IF BodyOf(kind, p) > 0 THEN p - BodyOf(kind, p)
    ELSE TemplateAllow[kind] + Part(p, BlocksOf[kind], 1000) + HintMax(p)

Budget(ctx, mt, knob) ==
    LET hard == HardOf(ctx, mt)
        rows == RowsOut(ctx, mt)
        p == [k \in CellKinds |-> Prompt(k, ctx, hard)]
        body == [k \in CellKinds |-> BodyOf(k, p[k])]
        unit == Part(body["verdict"], 47, 100)
        page == Part(body["sweep"], 20, 100)
        perPage == AtLeast(1, (rows - OutHead["sweep"]) \div RowChars["sweep"])
    IN [ctx |-> ctx, mt |-> mt, hard |-> hard, rows |-> rows, body |-> body,
        fixed |-> [k \in CellKinds |-> FixedOf(k, p[k])],
        hint |-> [k \in CellKinds |-> HintMax(p[k])],
        unitMax |-> Min({unit, body["offcard"], body["noinput"]}),
        cardBudget |-> [verdict |-> body["verdict"] - unit, sweep |-> body["sweep"] - page],
        unitOfVerdict |-> unit,
        k |-> AtLeast(1, AtMost(knob, rows \div RowChars["verdict"])),
        pageMax |-> page, perPage |-> perPage,
        itemMax |-> AtLeast(800, page \div perPage)]

Runnable(b) ==
    /\ \A k \in CellKinds : AnswerFits(k, b.rows)
    /\ b.cardBudget["sweep"] >= RunFloor /\ b.pageMax >= b.itemMax
    /\ b.unitOfVerdict >= RunFloor /\ b.cardBudget["verdict"] >= RunFloor
    /\ b.body["offcard"] >= RunFloor /\ b.body["noinput"] >= RunFloor

RunsOn(ctx, mt) == Runnable(Budget(ctx, mt, KDefault))

NoWindow == -1

\* The search by halves, from the window of the box up; the least window on
\* which all cells run, if there is one.
Halved(ctx, mt) ==
    LET search[d \in 0..31, lo \in Int, hi \in Int] ==
            IF lo >= hi \/ d = 31 THEN lo
            ELSE LET mid == lo + (hi - lo) \div 2
                 IN IF RunsOn(mid, mt) THEN search[d + 1, lo, mid] ELSE search[d + 1, mid + 1, hi]
    IN search[0, AtLeast(1, ctx), NeedCtxMax]

NeedCtx(ctx, mt) == IF RunsOn(NeedCtxMax, mt) THEN Halved(ctx, mt) ELSE NoWindow

-----------------------------------------------------------------------------
\* The output tokens that the largest of the least answers takes.
NeedTokens ==
    LET most == Max({OutHead[k] + RowChars[k] : k \in CellKinds})
    IN Min({t \in 0..4000 : Part(t, 63, 100) >= most})

\* What limits() tells a box on which the cells do not run: what is too
\* small, and what would do.
TooSmall(ctx, mt) ==
    LET outShort == mt > 0 /\ \E k \in CellKinds : ~AnswerFits(k, RowsOut(ctx, mt))
        tokens == IF outShort THEN NeedTokens ELSE 0
        need == NeedCtx(ctx, AtLeast(mt, tokens))
        window == IF need # NoWindow /\ need <= ctx THEN NoWindow ELSE need
    IN [reason |-> IF outShort THEN "output_cap" ELSE IF window # NoWindow THEN "window" ELSE "output_too_large",
        tokens |-> tokens, window |-> window]

=============================================================================

------------------------------ MODULE RoundTalk ------------------------------
(***************************************************************************)
(* What a round of a deliberation is made of (src/deliberation.py): who    *)
(* has to answer whom (_cross_targets), how a rebuttal is checked against  *)
(* what the others said (_quotable_corpus, _quote_validator and the tries  *)
(* of _persona_round), and how the turns of a round are cut to the room    *)
(* that a seat or the chair has for them (_fit_rows, _chair_rows,          *)
(* _cap_ctx, _decision_ctx).                                               *)
(*                                                                         *)
(* A text is its length, or the set of its terms, or the pieces that can   *)
(* be copied from it: "words" is a sentence of a statement, "line" the     *)
(* position in one line, "keys" a stretch of the JSON around the values,   *)
(* "short" a piece under 15 characters, "marks" one without letters.       *)
(***************************************************************************)
EXTENDS Integers, SequencesExt

CONSTANTS
    Order,          \* the seats, in the order of the panel
    Words,          \* the terms of each seat's statement of the round before
    PerSeat,        \* DELIB_CROSS_TARGETS
    ParseRetries,   \* opts.parse_retries
    MaxRebuts,      \* bound of the model: rebuttals in an answer
    SerClip,        \* DELIB_SER_CLIP
    Label, Mark, Notice     \* the room of a row's label, of a cut mark, of the notice

\* What the constants are; instances assume it.
RoundAssumption ==
    /\ IsInjective(Order)
    /\ {PerSeat, MaxRebuts} \subseteq Nat \ {0}
    /\ {ParseRetries, SerClip, Label, Mark, Notice} \subseteq Nat

VARIABLES
    prev,           \* the seats that spoke in the round before, prev_list
    cross,          \* the round is a cross-examination, _xexam
    target,         \* cross_tg
    seat,           \* the seat whose turn is followed
    tries,          \* how often it was asked
    turn,           \* its last answer
    end             \* "asked" | "passed" | "kept" (out of tries) | "lost"

vars == <<prev, cross, target, seat, tries, turn, end>>

Panel == ToSet(Order)
Smaller(a, b) == IF a < b THEN a ELSE b
Larger(a, b) == IF a > b THEN a ELSE b
FirstOf(s, n) == SubSeq(s, 1, Smaller(n, Len(s)))
Sum(s) == FoldLeft(LAMBDA a, b : a + b, 0, s)

-----------------------------------------------------------------------------
\* Who answers whom.

\* The weight of the terms that two seats share: a term that all of them use
\* weighs nothing.  The sum of log(n / df) is compared as a product.
Score(texts, a, b) ==
    LET shared == texts[a] \cap texts[b]
        Users(t) == Cardinality({s \in DOMAIN texts : t \in texts[s]})
    IN [top |-> Cardinality(DOMAIN texts) ^ Cardinality(shared),
        bottom |-> FoldSet(LAMBDA t, acc : acc * Users(t), 1, shared)]

\* Keys, the nearest to a first, in the order of the panel where they tie.
Nearest(keys, texts, a, whom) ==
    LET Place(s) == CHOOSE i \in DOMAIN keys : keys[i] = s
        Before(x, y) ==
            LET p == Score(texts, a, x) q == Score(texts, a, y)
                l == p.top * q.bottom r == q.top * p.bottom
            IN l > r \/ (l = r /\ Place(x) < Place(y))
    IN SetToSortSeq(whom, Before)

Aimed(out, b) == Cardinality({a \in DOMAIN out : Contains(out[a], b)})

\* The places that a may give away, their targets being aimed at twice.
Spare(out, a) == {i \in DOMAIN out[a] : Aimed(out, out[a][i]) > 1}

\* A seat that nobody aims at takes the last spare place of the nearest seat
\* that has one.
Cover(keys, texts, out, b) ==
    IF Aimed(out, b) > 0 THEN out
    ELSE LET near == Nearest(keys, texts, b, ToSet(keys) \ {b})
             able == SelectSeq(near, LAMBDA a : Spare(out, a) # {})
             least == {a \in ToSet(near) : \A x \in ToSet(near) : Len(out[a]) <= Len(out[x])}
         IN IF able # <<>>
            THEN [out EXCEPT ![able[1]][Max(Spare(out, able[1]))] = b]
            ELSE LET a == SelectSeq(near, LAMBDA x : x \in least)[1]
                 IN [out EXCEPT ![a] = Append(@, b)]

\* _cross_targets: the targets of each seat.
CrossTargets(keys, texts, k) ==
    LET first == [a \in ToSet(keys) |-> FirstOf(Nearest(keys, texts, a, ToSet(keys) \ {a}), Larger(1, k))]
    IN IF Len(keys) < 2 THEN [a \in ToSet(keys) |-> <<>>]
       ELSE FoldLeft(LAMBDA out, b : Cover(keys, texts, out, b), first, keys)

\* Every seat is aimed at, and none has more to answer than the others: the
\* correction of _cross_targets never opens a hole where it closes one, and
\* never loads a seat beyond k (tests/test_cross_targets.py).
CrossIsWhole(keys, texts, k) ==
    LET out == CrossTargets(keys, texts, k)
    IN Len(keys) >= 2 =>
        \A a \in ToSet(keys) :
            /\ Aimed(out, a) >= 1
            /\ Len(out[a]) = Smaller(k, Len(keys) - 1)
            /\ IsInjective(out[a]) /\ ~Contains(out[a], a)

-----------------------------------------------------------------------------
\* What a rebuttal may quote.

Piece(s, part) == [of |-> s, part |-> part]
Parts == {"words", "line", "keys", "short", "marks"}
Pieces == {Piece(s, part) : s \in Panel, part \in Parts}
Statement(s) == {Piece(s, part) : part \in Parts \ {"line"}}

\* The targets of the seat in this round; one without any (it is new) takes
\* the first seat that is not itself.
Targets ==
    LET others == SelectSeq(Order, LAMBDA s : s \in prev /\ s # seat)
    IN IF seat \in DOMAIN target /\ target[seat] # <<>> THEN ToSet(target[seat]) ELSE ToSet(FirstOf(others, 1))

\* The lines that a quote is looked for in (_ctx): statements in JSON, behind
\* the seat's name or bare, and the other seats' positions in one line each.
Lines ==
    IF ~cross THEN {[named |-> TRUE, json |-> TRUE, holds |-> Statement(s)] : s \in prev}
    ELSE {[named |-> FALSE, json |-> TRUE, holds |-> Statement(s)] : s \in Targets}
         \cup {[named |-> TRUE, json |-> FALSE, holds |-> {Piece(s, "line")}] : s \in prev \ Targets}

\* Mutant: a bare line is read too.
ReadsBare(line) == line.json

\* What follows the first ": " of a line is taken for JSON: of a bare object
\* that is what follows its first key.
Reads(line) == line.json /\ line.named

\* _quotable_corpus: the values of the lines that can be read; where none
\* can, the text as it is.
Corpus ==
    LET read == {l \in Lines : Reads(l)}
    IN IF read = {} THEN UNION {l.holds : l \in Lines}
       ELSE {p \in UNION {l.holds : l \in read} : p.part # "keys"}

Unread == [json |-> FALSE, full |-> FALSE, rebut |-> <<>>]
Rebuts == [object : {TRUE}, quote : Pieces, counter : BOOLEAN]
          \cup [object : {FALSE}, quote : {Piece(Order[1], "words")}, counter : {FALSE}]
Answers ==
    {Unread} \cup
    [json : {TRUE}, full : BOOLEAN, rebut : UNION {[1..n -> Rebuts] : n \in 0..MaxRebuts}]

\* _quote_validator: a rebuttal that counts.
Counts(r) == r.object /\ r.quote \in Corpus /\ r.quote.part \notin {"short", "marks"} /\ r.counter

\* problem_of: what a seat is asked again for.
Problem(answer) ==
    \/ ~answer.json
    \/ ~answer.full \/ answer.rebut = <<>>
    \/ \A i \in DOMAIN answer.rebut : ~Counts(answer.rebut[i])

Init ==
    /\ prev \in SUBSET Panel \ {{}}
    /\ cross \in {FALSE, Cardinality(prev) >= 2}
    /\ seat \in Panel
    /\ target = IF cross THEN CrossTargets(SelectSeq(Order, LAMBDA s : s \in prev), Restrict(Words, prev), PerSeat)
                ELSE <<>>
    /\ tries = 0 /\ turn = Unread /\ end = "asked"

\* One answer of the seat, and the next try where there is a problem; what
\* comes after the last try is kept as it is.
Answer ==
    /\ end = "asked"
    /\ \E answer \in Answers :
        /\ turn' = answer
        /\ tries' = tries + 1
        /\ end' = IF ~Problem(answer) THEN "passed" ELSE IF tries = ParseRetries THEN "kept" ELSE "asked"
    /\ UNCHANGED <<prev, cross, target, seat>>

\* The call fails: the round goes on without the seat (_round_live).
Lose ==
    /\ end = "asked"
    /\ end' = "lost"
    /\ UNCHANGED <<prev, cross, target, seat, tries, turn>>

Next == Answer \/ Lose
Spec == Init /\ [][Next]_vars

\* What the seat was shown of the others' words.
Shown ==
    IF cross THEN {Piece(s, "words") : s \in Targets} \cup {Piece(s, "line") : s \in prev \ Targets}
    ELSE {Piece(s, "words") : s \in prev}

\* A rebuttal that quotes what the seat was shown, a target's statement or the
\* line of any other expert, and answers it, is not sent back for its quote
\* (the comment in _ctx: what is shown is what may be quoted).
ShownIsQuotable ==
    end = "asked" /\ tries > 0 /\ turn.full =>
        \A i \in DOMAIN turn.rebut :
            ~(turn.rebut[i].object /\ turn.rebut[i].quote \in Shown /\ turn.rebut[i].counter)

\* A turn that passes says something against the words of a statement: the
\* quote alone, or a scrap of a quote, does not make it one.
PassedIsAnswered ==
    end = "passed" =>
        \E i \in DOMAIN turn.rebut :
            turn.rebut[i].counter /\ turn.rebut[i].quote.part \notin {"short", "marks"}

\* A stretch of JSON around the values is no quote (the docstrings of
\* _quotable_corpus and _quote_validator).
SkeletonIsNotQuoted ==
    end = "passed" =>
        \E i \in DOMAIN turn.rebut : turn.rebut[i].counter /\ turn.rebut[i].quote.part \in {"words", "line"}

-----------------------------------------------------------------------------
\* The room for the turns of a round.

\* _fit_rows: the share of a row; rows shorter than it leave what they do not
\* need to the others.
ShareOf(lens, budget) ==
    LET Take(acc, ln) ==
            IF acc.stop \/ ln * acc.n > acc.left THEN [acc EXCEPT !.stop = TRUE]
            ELSE [acc EXCEPT !.left = @ - ln, !.n = @ - 1]
        acc == FoldLeft(Take, [left |-> budget, n |-> Len(lens), stop |-> FALSE], SortSeq(lens, LAMBDA a, b : a < b))
    IN acc.left \div acc.n

Cuts(lens, budget) == budget > 0 /\ lens # <<>> /\ Sum(lens) > budget

\* The length of each row that is put, without its mark.
FitRows(lens, budget, floor) ==
    IF ~Cuts(lens, budget) THEN lens
    ELSE LET share == Larger(ShareOf(lens, budget), floor) IN [i \in DOMAIN lens |-> Smaller(lens[i], share)]

\* What _cap_ctx leaves for the statements.
RoomFor(lens, cap) == Larger(Len(lens), cap - Len(lens) * Label - Len(lens) * Mark - Notice)

Whole(lens) == Sum(lens) + Len(lens) * Label

\* _cap_ctx: the rows of a round for the chair.
CapCtx(lens, cap) ==
    IF cap <= 0 \/ Whole(lens) <= cap THEN lens ELSE FitRows(lens, RoomFor(lens, cap), 1)

\* A statement is the lengths of its values; each is cut at clip, 0 for none.
Clipped(value, clip) == IF clip > 0 /\ value > clip THEN clip + 1 ELSE value
RowsAt(stmts, clip) == [i \in DOMAIN stmts |-> Sum([v \in DOMAIN stmts[i] |-> Clipped(stmts[i][v], clip)])]

HalfUp(lo, hi) == (lo + hi + 1) \div 2

\* _chair_rows: the widest clip whose rows fit, by halving.
ChairClip(stmts, cap) ==
    LET longest == Max(ToSet(RowsAt(stmts, 0)) \cup {SerClip})
        Search[p \in (0..longest) \X (0..longest)] ==
            LET mid == HalfUp(p[1], p[2])
            IN IF p[1] >= p[2] THEN p[1]
               ELSE IF Whole(RowsAt(stmts, mid)) <= cap THEN Search[<<mid, p[2]>>] ELSE Search[<<p[1], mid - 1>>]
    IN IF SerClip = 0 \/ cap <= 0 \/ Whole(RowsAt(stmts, 0)) <= cap THEN 0
       ELSE IF Whole(RowsAt(stmts, SerClip)) > cap THEN SerClip
       ELSE Search[<<SerClip, longest>>]

\* What the chair reads of a round.
ChairRows(stmts, cap) == CapCtx(RowsAt(stmts, ChairClip(stmts, cap)), cap)

\* Cut rows keep within the room, all of them at one share, and no room is
\* left that another character of each cut row would have fitted in.
RowsAreShared(lens, budget, floor) ==
    LET fit == FitRows(lens, budget, floor)
        cut == {i \in DOMAIN lens : fit[i] < lens[i]}
        share == ShareOf(lens, budget)
    IN Cuts(lens, budget) /\ share >= floor =>
        /\ cut # {} /\ Sum(fit) <= budget /\ budget - Sum(fit) < Cardinality(cut)
        /\ \A i \in cut, j \in DOMAIN fit : fit[j] <= fit[i]

\* The chair hears every seat, within the cap wherever the cap leaves room
\* for the labels, and a clip that is one wider would not have fitted.
ChairHearsAll(stmts, cap) ==
    LET got == ChairRows(stmts, cap)
        full == RowsAt(stmts, 0)
        clip == ChairClip(stmts, cap)
        rows == RowsAt(stmts, clip)
        marks == Cardinality({i \in DOMAIN got : got[i] < rows[i]})
        spent == Sum(got) + Len(got) * Label + marks * Mark + (IF marks > 0 THEN Notice ELSE 0)
    IN cap > 0 =>
        /\ \A i \in DOMAIN got : full[i] > 0 => got[i] > 0
        /\ cap >= Len(got) * (Label + Mark + 1) + Notice => spent <= cap
        /\ clip > 0 /\ marks = 0 => Whole(RowsAt(stmts, clip + 1)) > cap \/ RowsAt(stmts, clip) = full
=============================================================================

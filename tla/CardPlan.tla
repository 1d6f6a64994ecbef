------------------------------ MODULE CardPlan ------------------------------
(***************************************************************************)
(* How the card review cuts its work (src/card_review.py): plan() packs an *)
(* expert's cards into decks and the units into pages and tells what does  *)
(* not fit; prepare() takes one call of that plan, or cuts its only card   *)
(* into chunks (_chunk_prep, chunk_card) or its cards into pages           *)
(* (_page_prep), or refuses it as over the budget of the window.           *)
(*                                                                         *)
(* Texts are sizes in characters.  A card is its frame and the sizes of    *)
(* its sections, each with a head of its own; the frame of a prompt is as  *)
(* large as the plan allows it to be.                                      *)
(***************************************************************************)
EXTENDS CardBudget, SequencesExt

CONSTANTS
    CardFrame,      \* what a card shows beside its sections
    SecHead,        \* the head of a section
    ChunkLine,      \* the line that says which chunk it is
    Toc,            \* the table of contents that a chunk shows
    NoCards         \* the line for no card at all

ASSUME PlanAssumption ==
    /\ \A n \in {CardFrame, SecHead, ChunkLine, Toc, NoCards} : n \in Nat

Total(q) == FoldSeq(LAMBDA x, n : x + n, 0, q)

\* A card: [id, checkable, secs]; a unit: [body, manifest].
Chars(card) == CardFrame + Total([i \in DOMAIN card.secs |-> SecHead + card.secs[i]])

CardRoom(b) ==
    AtMost(b.hard - b.fixed["verdict"] - b.unitMax, b.hard - b.fixed["sweep"] - b.pageMax)

-----------------------------------------------------------------------------
(* plan().                                                                 *)

Packing == [decks |-> <<>>, over |-> <<>>, cur |-> <<>>]

Deck(cards, chunked) ==
    [cards |-> cards, chars |-> Total([i \in DOMAIN cards |-> Chars(cards[i])]), chunked |-> chunked]

\* Mutant: the deck under way is forgotten when a card stands alone.
ClosedEmpty(s) == [s EXCEPT !.cur = <<>>]

ClosedDeck(s) ==
    IF s.cur = <<>> THEN s ELSE [s EXCEPT !.decks = Append(@, Deck(s.cur, FALSE)), !.cur = <<>>]

PackCard(s, card, budget, k, hardRoom, chunkRoom) ==
    LET n == Chars(card)
        full == s.cur # <<>> /\ (Len(s.cur) >= k \/ Deck(s.cur, FALSE).chars + n > budget)
        put == LET t == IF full THEN ClosedDeck(s) ELSE s IN [t EXCEPT !.cur = Append(@, card)]
    IN CASE chunkRoom > 0 /\ n > chunkRoom ->
              LET t == ClosedDeck(s) IN [t EXCEPT !.decks = Append(@, Deck(<<card>>, TRUE))]
         [] ~(chunkRoom > 0 /\ n > chunkRoom) /\ n > hardRoom -> [s EXCEPT !.over = Append(@, card)]
         [] OTHER -> IF n > budget THEN ClosedDeck(put) ELSE put

\* The cards in their order; a deck is closed by their number and their sum.
PackDecks(cards, budget, k, hardRoom, chunkRoom) ==
    ClosedDeck(FoldLeft(LAMBDA s, card : PackCard(s, card, budget, k, hardRoom, chunkRoom), Packing, cards))

Plain(decks) == SelectSeq(decks, LAMBDA d : ~d.chunked)

MostChars(decks, none) == IF decks = <<>> THEN none ELSE Max({decks[i].chars : i \in DOMAIN decks})

\* The unit is planned: alone, and with as much of a card as a chunk must hold.
UnitFits(b, decks, unit) ==
    LET need == IF CardRoom(b) > 0 THEN RunFloor
                ELSE Max({0} \cup UNION {{Chars(c) : c \in ToSet(d.cards)} : d \in ToSet(Plain(decks))})
    IN
    /\ b.fixed["offcard"] + unit.body <= b.hard
    /\ decks # <<>> => b.fixed["verdict"] + unit.body + need <= b.hard

PairOver(b, deck, unit) == ~deck.chunked /\ b.fixed["verdict"] + unit.body + deck.chars > b.hard

PageUnit(s, unit, b, cards) ==
    LET n == unit.manifest
        sum == Total([i \in DOMAIN s.cur |-> s.cur[i].manifest])
        full == s.cur # <<>> /\ (Len(s.cur) >= b.perPage \/ sum + n > b.pageMax)
        t == IF full THEN [s EXCEPT !.pages = Append(@, s.cur), !.cur = <<unit>>] ELSE [s EXCEPT !.cur = Append(@, unit)]
    IN IF b.fixed["sweep"] + n + cards > b.hard THEN [s EXCEPT !.over = Append(@, unit)]
       ELSE IF n > b.pageMax THEN [t EXCEPT !.pages = Append(@, t.cur), !.cur = <<>>] ELSE t

\* The units' list, in pages that go with every deck of the sweep.
PackPages(b, units, decks) ==
    LET s == FoldLeft(LAMBDA t, u : PageUnit(t, u, b, MostChars(Plain(decks), NoCards)),
                      [pages |-> <<>>, over |-> <<>>, cur |-> <<>>], units)
    IN [pages |-> IF s.cur = <<>> THEN s.pages ELSE Append(s.pages, s.cur), over |-> s.over]

Plan(b, cards, units) ==
    LET room == AtLeast(CardRoom(b), 0)
        verdict == PackDecks(SelectSeq(cards, LAMBDA c : c.checkable), b.cardBudget["verdict"], b.k,
                             b.hard - b.fixed["verdict"] - b.unitMax, room)
        sweep == PackDecks(cards, b.cardBudget["sweep"], Len(cards) + 1,
                           b.hard - b.fixed["sweep"] - b.pageMax, room)
    IN [verdict |-> verdict, sweep |-> sweep,
        units |-> {i \in DOMAIN units : UnitFits(b, verdict.decks, units[i])},
        manifest |-> PackPages(b, units, sweep.decks)]

-----------------------------------------------------------------------------
(* prepare().                                                              *)

\* The text of a section in pieces: sentences (here all of one length) as
\* long as they fit; a piece begins with the end of the piece before it.
Overlap(cur) == AtMost(300, cur)

AllPieces(s) == IF s.cur > 0 THEN Append(s.done, s.cur) ELSE s.done

SplitText(text, sentence, room) ==
    LET size == AtLeast(room, 50)
        step == AtMost(sentence, size)
        atoms == [i \in 1..((text + step - 1) \div step) |-> AtMost(step, text - (i - 1) * step)]
        Add(s, x) ==
            IF s.cur > 0 /\ s.cur + x > size
            THEN [done |-> Append(s.done, s.cur), cur |-> (IF Overlap(s.cur) + x <= size THEN Overlap(s.cur) ELSE 0) + x]
            ELSE [s EXCEPT !.cur = @ + x]
    IN AllPieces(FoldLeft(Add, [done |-> <<>>, cur |-> 0], atoms))

\* A narrow chunk does without the table of contents.
TocOf(limit) == IF limit - CardFrame - ChunkLine - Toc < 200 THEN 0 ELSE Toc

ChunkFrame(limit) == CardFrame + ChunkLine + TocOf(limit)

PartsSize(g) == Total([i \in DOMAIN g |-> SecHead + g[i][3]])

\* The parts of a section, as <<section, part, size>>.
PartsOf(i, text, sentence, room) ==
    IF text <= room THEN << <<i, 0, text>> >>
    ELSE LET p == SplitText(text, sentence, room) IN [j \in DOMAIN p |-> <<i, j, p[j]>>]

GroupPart(s, u, room) ==
    IF s.cur # <<>> /\ s.used + SecHead + u[3] > room
    THEN [done |-> Append(s.done, s.cur), cur |-> <<u>>, used |-> SecHead + u[3]]
    ELSE [s EXCEPT !.cur = Append(@, u), !.used = @ + SecHead + u[3]]

WithLast(s) == Append(s.done, s.cur)

ChunksOf(groups, limit) ==
    [g \in DOMAIN groups |-> [parts |-> groups[g], chars |-> ChunkFrame(limit) + PartsSize(groups[g])]]

\* The chunks of a card, <<>> where it needs none or cannot be cut: in their
\* order the sections, or the parts of one.
ChunkCard(card, limit, sentence) ==
    LET room == limit - ChunkFrame(limit)
        parts == FlattenSeq([i \in DOMAIN card.secs |-> PartsOf(i, card.secs[i], sentence, room - SecHead)])
    IN IF card.secs = <<>> \/ Chars(card) <= limit \/ room < 200 THEN <<>>
       ELSE ChunksOf(WithLast(FoldLeft(LAMBDA s, u : GroupPart(s, u, room),
                                       [done |-> <<>>, cur |-> <<>>, used |-> 0], parts)), limit)

\* The prompt of a call: what is fixed in it but for the hint, with its text.
Need(b, kind, text) == b.fixed[kind] - b.hint[kind] + text

\* A card alone with its unit or page: as it is, in chunks, or refused.  The
\* chunks are made shorter as long as one of them does not fit.
Chunks(b, kind, card, other, sentence) ==
    LET over == Need(b, kind, Chars(card) + other) - b.hard
        first == AtMost(CardRoom(b), Chars(card) - over - b.hint[kind])
        try[n \in 0..3, room \in Int] ==
            LET cs == ChunkCard(card, (room * 9) \div 10, sentence)
                bad == SelectSeq(cs, LAMBDA g : Need(b, kind, g.chars + other) > b.hard)
            IN IF n = 0 \/ room < RunFloor \/ cs = <<>> THEN <<>>
               ELSE IF bad = <<>> THEN cs
               ELSE try[n - 1, room - (Need(b, kind, bad[1].chars + other) - b.hard + 1000)]
    IN try[3, first]

Accepted(b, kind, cards, other, sentence) ==
    LET text == Total([i \in DOMAIN cards |-> Chars(cards[i])])
    IN \/ Need(b, kind, (IF cards = <<>> THEN NoCards ELSE text) + other) <= b.hard
       \/ Len(cards) = 1 /\ Chunks(b, kind, cards[1], other, sentence) # <<>>

-----------------------------------------------------------------------------
(* The cards that a call must show in full (_page_prep, build_prompt).     *)

\* One card or chunk: whose it is, and its size.
PiecesOf(i, cs) == [j \in DOMAIN cs |-> [card |-> i, size |-> cs[j].chars]]

Pieces(cards, limit, sentence) ==
    FlattenSeq([i \in DOMAIN cards |->
        IF Chars(cards[i]) <= limit THEN << [card |-> i, size |-> Chars(cards[i])] >>
        ELSE PiecesOf(i, ChunkCard(cards[i], (limit * 9) \div 10, sentence))])

SizeOf(page) == Total([i \in DOMAIN page |-> page[i].size])

PutPiece(s, x, limit) ==
    IF s.cur # <<>> /\ SizeOf(s.cur) + x.size > limit THEN [done |-> Append(s.done, s.cur), cur |-> <<x>>]
    ELSE [s EXCEPT !.cur = Append(@, x)]

PagesOf(pieces, n, limit) ==
    IF \E i \in 1..n : \A j \in DOMAIN pieces : pieces[j].card # i THEN <<>>
    ELSE WithLast(FoldLeft(LAMBDA t, x : PutPiece(t, x, limit), [done |-> <<>>, cur |-> <<>>], pieces))

\* The pages of the cards, <<>> where one prompt does, or where one of them
\* cannot be cut.
Pages(b, kind, cards, unit, sentence) ==
    LET limit == b.hard - b.fixed[kind] - unit
    IN IF limit <= 0 \/ Total([i \in DOMAIN cards |-> Chars(cards[i])]) <= limit THEN <<>>
       ELSE PagesOf(Pieces(cards, limit, sentence), Len(cards), limit)

\* What of a page, or of all, a prompt shows in full: as much as the window
\* holds, in their order.
ShownOf(b, kind, page, unit) ==
    LET hard == AtLeast(0, b.hard - b.fixed[kind] - unit)
    IN FoldLeft(LAMBDA kept, x : IF SizeOf(kept) + x.size <= hard THEN Append(kept, x) ELSE kept, <<>>, page)

ShownPages(b, kind, pages, single, unit) ==
    IF pages = <<>> THEN ShownOf(b, kind, single, unit)
    ELSE FlattenSeq([p \in DOMAIN pages |-> ShownOf(b, kind, pages[p], unit)])

Shown(b, kind, cards, unit, sentence) ==
    ShownPages(b, kind, Pages(b, kind, cards, unit, sentence),
               [i \in DOMAIN cards |-> [card |-> i, size |-> Chars(cards[i])]], unit)

=============================================================================

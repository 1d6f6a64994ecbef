---------------------------- MODULE ChatHistory ----------------------------
(***************************************************************************)
(* What of a conversation the model is given (src/app.py).  At the start   *)
(* of a turn _history_messages keeps the latest entries whole within a     *)
(* budget, attaches to them what their tools had found, and puts a digest  *)
(* of the rest in front; within a turn _fit_loop_messages shortens the     *)
(* oldest tool results once the window is full.                            *)
(*                                                                         *)
(* A text is its size: characters and tokens agree, so the two budgets are *)
(* one.  An entry has the size of its evidence, of what the user uploaded  *)
(* (ups) and of what tools found (evs), 0 for none; a message that is      *)
(* given is its role and its parts, [of, kind, form, size].                *)
(***************************************************************************)
EXTENDS Integers, Sequences, SequencesExt

CONSTANTS
    MaxItems,       \* HIST_MAX_ITEMS
    Mark,           \* _CUT_MARK_ROOM, what the mark of a cut takes
    Join,           \* between an entry and its evidence
    EvidenceFloor,  \* _HIST_EVID_FLOOR
    NameSize,       \* of the line that only names the tools
    DigestFloor,    \* below this no digest is written
    LoopFloor       \* _LOOP_FIT_FLOOR

\* What the constants are; instances assume it.
HistoryAssumption ==
    /\ {MaxItems, Mark, Join, EvidenceFloor, NameSize, DigestFloor, LoopFloor} \subseteq Nat
    /\ MaxItems > 0

Most(a, b) == IF a > b THEN a ELSE b
Least(a, b) == IF a < b THEN a ELSE b
Total(sizes) == FoldLeft(LAMBDA a, b : a + b, 0, sizes)

-----------------------------------------------------------------------------
(* The history.  b is the budget: all, verbatim (what the digest leaves),  *)
(* evidence, digest, room (what one entry may take on a narrow window) and *)
(* whether the window is wide.                                             *)

Latest(items) == SubSeq(items, Most(1, Len(items) - MaxItems + 1), Len(items))

\* The one entry that alone exceeds the budget: cut on a wide window, on a
\* narrow one only where it would fill the window.
CutSize(b, size, verbatim) ==
    IF b.wide THEN Least(size, Most(1, verbatim - Mark) + Mark)
    ELSE IF size > b.room THEN Most(1, b.room - Mark) + Mark ELSE size

\* _fill: the latest entries, from the newest on, until one has no room.  kept
\* are their sizes, oldest first.
Fill(b, items, verbatim) ==
    FoldLeft(LAMBDA acc, item :
                IF acc.full THEN acc
                ELSE IF acc.used + item.size <= verbatim
                THEN [acc EXCEPT !.kept = <<item.size>> \o @, !.used = @ + item.size]
                ELSE IF acc.kept # <<>> THEN [acc EXCEPT !.full = TRUE]
                ELSE LET size == CutSize(b, item.size, verbatim)
                     IN [acc EXCEPT !.kept = <<size>>, !.used = size],
             [kept |-> <<>>, used |-> 0, full |-> FALSE], Reverse(items)).kept

\* _blocks: the upload first, then what the tools found.
Blocks(item) ==
    SelectSeq(<<[kind |-> "upload", size |-> item.ups], [kind |-> "tool", size |-> item.evs]>>,
              LAMBDA blk : blk.size > 0)

\* Of the last n entries.
Suffix(items, n) == SubSeq(items, Len(items) - n + 1, Len(items))

\* _need: what the evidence of the kept entries takes, at most its share.
Need(b, items, n) ==
    Least(Total(FlattenSeq([i \in 1..n |->
                    [j \in DOMAIN Blocks(Suffix(items, n)[i]) |-> Blocks(Suffix(items, n)[i])[j].size + Join]])),
          b.evidence)

\* Mutant: the entries keep the room that their evidence takes.
KeepsAll(b, items) == Fill(b, items, b.verbatim)

\* The entries kept: with evidence, as many as fit beside it.
Kept(b, items) ==
    LET first == Fill(b, items, b.verbatim)
        need == Need(b, items, Len(first))
    IN IF need = 0 THEN first ELSE Fill(b, items, Most(1, b.verbatim - need))

\* How a block is given, with left of the share: whole, its beginning, or
\* only the names of the tools.
Form(left, size) ==
    IF size + Join <= left THEN [form |-> "full", size |-> size]
    ELSE IF left - Mark - Join >= EvidenceFloor THEN [form |-> "cut", size |-> left - Join]
    ELSE [form |-> "names", size |-> NameSize]

\* The evidence of the last n entries, the newest entry first.
Evidence(b, items, n) ==
    FoldLeft(LAMBDA acc, e :
                LET f == Form(acc.left, e.size)
                IN [left |-> acc.left - f.size - Join,
                    parts |-> Append(acc.parts, [of |-> e.of, kind |-> e.kind, form |-> f.form, size |-> f.size])],
             [left |-> Need(b, items, n), parts |-> <<>>],
             FlattenSeq([i \in 1..n |->
                 LET k == Len(items) - i + 1 IN
                 [j \in DOMAIN Blocks(items[k]) |->
                    [of |-> k, kind |-> Blocks(items[k])[j].kind, size |-> Blocks(items[k])[j].size]]])).parts

\* _compact_turns, within its share: empty where that is too small.
Digest(b, n) ==
    IF n = 0 \/ b.digest < DigestFloor THEN <<>>
    ELSE <<[role |-> "user", parts |-> <<[of |-> 0, kind |-> "digest", form |-> "cut", size |-> b.digest]>>]>>

\* An entry with what is attached in front of it: to the question before it,
\* or as a message of its own.
Attach(out, role, own, evidence) ==
    LET last == Len(out)
        joined == last > 0 /\ out[last].role = "user"
    IN IF evidence = <<>> THEN Append(out, [role |-> role, parts |-> own])
       ELSE IF joined
       THEN Append([out EXCEPT ![last].parts = @ \o evidence], [role |-> role, parts |-> own])
       ELSE out \o <<[role |-> "user", parts |-> evidence], [role |-> role, parts |-> own]>>

\* _history_messages.
HistoryMessages(b, history) ==
    LET items == Latest(history)
        kept == Kept(b, items)
        n == Len(kept)
        evidence == Evidence(b, items, n)
    IN Digest(b, Len(items) - n)
       \o FoldLeft(LAMBDA out, i :
                     LET k == Len(items) - n + i IN
                     Attach(out, items[k].role, <<[of |-> k, kind |-> "entry", form |-> "full", size |-> kept[i]]>>,
                            SelectSeq(evidence, LAMBDA p : p.of = k)),
                   <<>>, [i \in 1..n |-> i])

-----------------------------------------------------------------------------
(* The loop of a turn.  A message is [tool, size].                         *)

\* What becomes of a result that takes too much: it loses the excess, and
\* keeps its floor.
CutTo(size, excess) == Most(LoopFloor, size - excess - Mark) + Mark

\* One result: cut only where that makes it shorter.
Shorten(acc, m) ==
    LET size == IF acc.excess <= 0 \/ ~m.tool \/ m.size <= LoopFloor THEN m.size
                ELSE Least(m.size, CutTo(m.size, acc.excess))
    IN [out |-> Append(acc.out, [m EXCEPT !.size = size]), excess |-> acc.excess - (m.size - size)]

\* _fit_loop_messages, on a wide window.
FitLoop(messages, limit) ==
    LET excess == Total([i \in DOMAIN messages |-> messages[i].size]) - limit
    IN IF limit <= 0 \/ excess <= 0 THEN messages
       ELSE FoldLeft(Shorten, [out |-> <<>>, excess |-> excess], messages).out

-----------------------------------------------------------------------------
(* Properties of one history and one loop.                                 *)

PartsOf(out) == FlattenSeq([i \in DOMAIN out |-> out[i].parts])
SizeOf(out) == Total([i \in DOMAIN PartsOf(out) |-> PartsOf(out)[i].size])

\* The conversation stays one: the newest entry is always there, the entries
\* given are an unbroken end of the conversation in its order, what came
\* before them is told by a digest; each piece of evidence of an entry that is
\* given stands once, in front of the entry, in a message of the user; and
\* where the evidence of one entry is cut, that of an older one is only named.
IsHistory(b, history, out) ==
    LET items == Latest(history)
        parts == PartsOf(out)
        entries == SelectSeq(parts, LAMBDA p : p.kind = "entry")
        n == Len(entries)
        At(k, kind) == {i \in DOMAIN parts : parts[i].of = k /\ parts[i].kind = kind}
    IN
    /\ n >= Least(1, Len(items))
    /\ \A i \in 1..n : entries[i].of = Len(items) - n + i
    /\ n < Len(items) /\ b.digest >= DigestFloor => parts[1].kind = "digest"
    /\ \A k \in (Len(items) - n + 1)..Len(items) : \A blk \in ToSet(Blocks(items[k])) :
        \E i \in DOMAIN parts : At(k, blk.kind) = {i} /\ \A j \in At(k, "entry") : i < j
    /\ \A i \in DOMAIN out : out[i].role = "assistant" => Len(out[i].parts) = 1
    /\ \A i, j \in DOMAIN parts :
        (/\ parts[i].of > parts[j].of /\ parts[i].form = "cut" /\ "entry" \notin {parts[i].kind, parts[j].kind}
         /\ parts[j].kind # "digest") => parts[j].form = "names"

\* And it fits: with what names the tools, within the budget, unless the one
\* newest entry alone takes more than that on a narrow window.
Fits(b, history, out) ==
    LET parts == PartsOf(out)
        names == Len(SelectSeq(parts, LAMBDA p : p.form = "names"))
        entries == SelectSeq(parts, LAMBDA p : p.kind = "entry")
    IN SizeOf(out) <= Most(b.all, IF b.wide \/ Len(entries) # 1 THEN 0 ELSE b.digest + b.evidence + entries[1].size)
                      + names * NameSize + Mark + 1

\* Only results of tools get shorter, the oldest first, none below its floor,
\* and by no more than it takes.
IsFitted(messages, limit, out) ==
    LET cut == {i \in DOMAIN out : out[i].size < messages[i].size}
        size == Total([i \in DOMAIN out |-> out[i].size])
        AtFloor(i) == ~messages[i].tool \/ out[i].size <= LoopFloor + Mark
    IN
    /\ \A i \in cut : messages[i].tool /\ out[i].size >= LoopFloor
    /\ \A i \in cut : \A j \in 1..(i - 1) : AtFloor(j)
    /\ size > limit /\ limit > 0 => \A i \in DOMAIN out : AtFloor(i)
    /\ cut # {} => size >= limit

=============================================================================

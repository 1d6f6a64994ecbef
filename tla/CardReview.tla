----------------------------- MODULE CardReview -----------------------------
(***************************************************************************)
(* A request of a card review (src/card_review.py, run, _drive and         *)
(* _run_chunked): one expert's card against one change.  The model is      *)
(* asked, its rows are checked, and asked again for what is missing or     *)
(* wrong; a card too long for one call is asked for in chunks, one run     *)
(* each, whose rows are merged into one.                                   *)
(*                                                                         *)
(* The rows of one identity are followed: a card's verdict, or one unit of *)
(* a sweep.  Of a row there is what decides between two of them.  The gate *)
(* of the seats is ReviewDrain's: here it may give a seat or not.          *)
(***************************************************************************)
EXTENDS Naturals, Sequences, FiniteSets, SequencesExt

CONSTANTS
    Attempts,       \* 1 + CARD_REVIEW_PARSE_RETRIES
    WaitMax,        \* CHUNK_BUSY_WAIT_MAX_S, in waits
    MaxChunks,      \* bound: chunks of a card
    RowsAtOnce,     \* bound: rows of the identity in one answer, by the chunks
    None

\* What the constants are; instances assume it.
ReviewAssumption ==
    /\ Attempts \in Nat \ {0} /\ WaitMax \in Nat
    /\ MaxChunks \in Nat \ {0} /\ RowsAtOnce \in [1..MaxChunks -> Nat]

VARIABLES
    req,        \* [kind, of]: the request; of = 1 is not chunked
    pc,         \* "admit" | "asking" | "asleep" | "over"
    at,         \* the chunk that is run; of + 1: the reconciling run
    run,        \* the run of that chunk: [n, row, rest]
    results,    \* the rows of the chunks before it, None for one without
    rec,        \* the reconciling run: [state, row]
    seat,       \* whether the request holds a seat of the gate
    waited,     \* how often the chunk has waited for a seat
    sent,       \* the last frames: "result" | "error", "done"
    answer,     \* the result's row, None for missing, once it is sent
    heard       \* history: the verdicts that the model gave in each chunk

vars == <<req, pc, at, run, results, rec, seat, waited, sent, answer, heard>>

-----------------------------------------------------------------------------
(* Rows.                                                                   *)

Row(v, quote, coerced) ==
    [v |-> v, quote |-> quote, coerced |-> coerced, dup |-> FALSE, against |-> None, flip |-> None]

\* What check_rows makes of a row: a value outside the enumeration becomes the
\* uncertain one ("coerced").  "unknown" is whether the card applies, with "na"
\* it does not.
Said(kind) ==
    IF kind = "verdict"
    THEN {Row("FAIL", "ok", FALSE), Row("FAIL", "bad", FALSE), Row("OK", "ok", FALSE),
          Row("OK", "bad", FALSE), Row("undetermined", "ok", TRUE), Row("unknown", "bad", FALSE),
          Row("na", "bad", FALSE)}
    ELSE {Row("yes", "ok", FALSE), Row("no", "ok", FALSE), Row("maybe", "ok", TRUE)}

\* WARNING is as FAIL here.
Hit(r) == r.v \in {"FAIL", "yes", "maybe"}

Protected(r) == Hit(r) /\ ~r.coerced

\* The row that lost against it had a quotation that is in the card.
ContestVerified(r) == r.against # None /\ r.against.ok

QuoteAsked(r) == r.quote = "bad" /\ r.v # "na" /\ ~ContestVerified(r)

One(b) == IF b THEN 1 ELSE 0

\* _row_problems: what a row is asked for again.
Problems(r) == One(r.coerced) + One(QuoteAsked(r))

\* row_issues
Issues(r) == One(r.coerced) + One(r.quote = "bad")

Lighter(new, old) ==
    \/ Problems(new) < Problems(old)
    \/ Problems(new) = Problems(old) /\ Issues(new) < Issues(old)

\* Mutant: a verdict that hits is not kept against a neat one that does not.
BetterByWeight(new, old) == Lighter(new, old)

\* _better: whether new takes the place of old.
Better(new, old) ==
    IF Protected(new) # Protected(old) THEN Protected(new) ELSE Lighter(new, old)

\* _carry: the marks of an earlier dispute stay.
Carry(new, prev) ==
    [new EXCEPT !.dup = @ \/ prev.dup,
                !.against = IF @ = None THEN prev.against ELSE @,
                !.flip = IF @ = None THEN prev.flip ELSE @]

\* _conflicted: the row that stays is marked, with the one that lost.
Conflicted(win, lose) ==
    [win EXCEPT !.dup = TRUE,
                !.against = IF ContestVerified(win) \/ (@ # None /\ @.raw) THEN @
                            ELSE [ok |-> lose.quote = "ok", raw |-> lose.coerced]]

\* _dedupe: two rows of one answer.
Within(old, new) ==
    LET win == IF Better(new, old) THEN Carry(new, old) ELSE old
        lose == IF Better(new, old) THEN old ELSE new
    IN  IF old = None THEN new
        ELSE IF win.v # lose.v THEN Conflicted(win, lose) ELSE win

\* merge_rows: the row so far and that of another attempt.
Merged(old, new) ==
    LET next == Carry(new, old)
    IN  CASE old = None \/ new = None -> IF new = None THEN old ELSE new
          [] old # None /\ new # None /\ Better(new, old) ->
                IF new.v # old.v /\ ~(next.flip # None /\ next.flip.raw)
                THEN [next EXCEPT !.flip = [raw |-> old.coerced]] ELSE next
          [] OTHER -> IF new.v # old.v THEN Conflicted(Carry(old, new), new)
                      ELSE Carry(old, new)

\* An answer: rows of the identity, whether there are others, and lines that
\* could not be read.
Answers == [rows : SeqOf(Said(req.kind), RowsAtOnce[req.of]), rest : BOOLEAN, bad : BOOLEAN]

-----------------------------------------------------------------------------
(* The rows of the chunks, merged.                                         *)

\* By whether the card applies, then by the judgement.
Rank(r) == CASE r.v \in {"na", "no"} -> 0
             [] r.v \in {"unknown", "maybe"} -> 1
             [] r.v = "OK" -> 2
             [] r.v = "undetermined" -> 3
             [] OTHER -> 4

\* The strongest row, the first of them.
Strongest(rows) ==
    LET S == {i \in DOMAIN rows : rows[i] # None}
    IN  IF S = {} THEN None
        ELSE rows[CHOOSE i \in S : \A j \in S : \/ Rank(rows[j]) < Rank(rows[i])
                                                \/ Rank(rows[j]) = Rank(rows[i]) /\ i <= j]

\* _unjudged: chunks of a verdict that ended without one.
Unjudged(rows) == req.kind = "verdict" /\ \E i \in DOMAIN rows : rows[i] = None

\* The chunks the card applies to, by whether they hit.
Side(rows, hits) == {i \in DOMAIN rows : /\ rows[i] # None /\ Hit(rows[i]) = hits
                                         /\ rows[i].v \in {"FAIL", "undetermined", "OK"}}

\* _chunks_split
Split(rows) == Side(rows, TRUE) # {} /\ Side(rows, FALSE) # {}

\* _reconcile_prep: both sides have a quotation that is in the card.
Reconcilable(rows) == \A hits \in BOOLEAN : \E i \in Side(rows, hits) : rows[i].quote = "ok"

\* The reconciling run that there was not, or that gave no row.
NoRec == [state |-> "none", row |-> None]
Skipped == [state |-> "skipped", row |-> None]
Failed == [state |-> "failed", row |-> None]

\* merge_chunked
Merge(rows, r) ==
    CASE Unjudged(rows) -> None
      [] ~Unjudged(rows) /\ r.state = "ok" -> r.row
      [] OTHER -> Strongest(rows)

-----------------------------------------------------------------------------
(* A run of one chunk, or of the whole card.                               *)

NoRun == [n |-> 1, row |-> None, rest |-> FALSE]

Finish(frame) == pc' = "over" /\ sent' = <<frame, "done">>

\* The next chunk, the reconciling run, or the merged result (_run_chunked).
Onward(rows) ==
    /\ run' = NoRun /\ waited' = 0
    /\ \/ /\ Len(rows) < req.of
          /\ pc' = "admit" /\ at' = at + 1 /\ UNCHANGED <<rec, sent, answer>>
       \/ /\ Len(rows) = req.of /\ req.kind = "verdict" /\ ~Unjudged(rows) /\ Split(rows)
          /\ \/ /\ Reconcilable(rows)
                /\ pc' = "admit" /\ at' = at + 1 /\ UNCHANGED <<rec, sent, answer>>
             \/ /\ rec' = Skipped /\ answer' = Merge(rows, Skipped)
                /\ Finish("result") /\ UNCHANGED at
       \/ /\ Len(rows) = req.of /\ (req.kind # "verdict" \/ Unjudged(rows) \/ ~Split(rows))
          /\ answer' = Merge(rows, NoRec)
          /\ Finish("result") /\ UNCHANGED <<at, rec>>

\* The run ends with a result.
RunResult(row) ==
    /\ seat' = FALSE
    /\ CASE req.of = 1 ->
              /\ answer' = row /\ Finish("result")
              /\ run' = NoRun /\ UNCHANGED <<at, results, rec, waited>>
         [] req.of > 1 /\ at <= req.of ->
              /\ results' = Append(results, row)
              /\ Onward(results')
         [] OTHER ->
              /\ rec' = IF row = None THEN Failed ELSE [state |-> "ok", row |-> row]
              /\ answer' = Merge(results, rec') /\ Finish("result")
              /\ run' = NoRun /\ UNCHANGED <<at, results, waited>>

\* A chunk's error is the request's; that of the reconciling run is not.
ErrorEnds ==
    IF at <= req.of THEN Finish("error") /\ UNCHANGED <<at, results, rec, answer>>
    ELSE /\ rec' = Failed /\ answer' = Merge(results, Failed)
         /\ Finish("result") /\ UNCHANGED <<at, results>>

RunError ==
    /\ seat' = FALSE /\ run' = NoRun /\ waited' = 0
    /\ ErrorEnds

\* A seat (of the gate, or of the owner's external calls); else review_busy.
Admit ==
    /\ pc = "admit"
    /\ pc' = "asking" /\ seat' = TRUE
    /\ UNCHANGED <<req, at, run, results, rec, waited, sent, answer, heard>>

\* Mutant: what was waited is not counted.
WaitUncounted == waited' = 0

Wait == waited' = waited + 1

\* No seat: a chunk is asked for again later (_drive), without a seat.
Busy ==
    /\ pc = "admit"
    /\ IF req.of > 1 /\ waited < WaitMax
       THEN /\ pc' = "asleep" /\ Wait
            /\ UNCHANGED <<at, run, results, rec, seat, sent, answer>>
       ELSE RunError
    /\ UNCHANGED <<req, heard>>

Wake ==
    /\ pc = "asleep"
    /\ pc' = "admit"
    /\ UNCHANGED <<req, at, run, results, rec, seat, waited, sent, answer, heard>>

Complete(row) == row # None /\ Problems(row) = 0

\* Whether the model is asked once more.
AsksAgain(row, bad) == run.n < Attempts /\ (bad \/ ~Complete(row))

\* The model's answer, checked and merged: asked again, or the end of the run
\* ("no_rows" if there are none).
Answer ==
    \E a \in Answers :
        LET row == Merged(run.row, FoldLeft(Within, None, a.rows))
            rest == run.rest \/ a.rest
        IN  /\ pc = "asking"
            /\ heard' = [heard EXCEPT ![at] = @ \cup {r.v : r \in ToSet(a.rows)}]
            /\ UNCHANGED req
            /\ \/ /\ AsksAgain(row, a.bad)
                  /\ run' = [n |-> run.n + 1, row |-> row, rest |-> rest]
                  /\ UNCHANGED <<pc, at, results, rec, seat, waited, sent, answer>>
               \/ ~AsksAgain(row, a.bad) /\ row = None /\ ~rest /\ RunError
               \/ ~AsksAgain(row, a.bad) /\ (row # None \/ rest) /\ RunResult(row)

\* The first answer ends at the limit of its length before any row of it
\* ("truncated_empty").
CutShort ==
    /\ pc = "asking" /\ run.n = 1
    /\ RunError
    /\ UNCHANGED <<req, heard>>

\* Nothing was read before the call failed.
NothingRead == run.row = None /\ ~run.rest

\* The call fails, or the prompt with its hints is too long: the rows of the
\* attempts before are the result.
Fails ==
    /\ pc = "asking"
    /\ IF NothingRead THEN RunError ELSE RunResult(run.row)
    /\ UNCHANGED <<req, heard>>

\* The client leaves: the call is cancelled, the seat given back.
Leave ==
    /\ pc # "over"
    /\ pc' = "over" /\ seat' = FALSE
    /\ UNCHANGED <<req, at, run, results, rec, waited, sent, answer, heard>>

Init ==
    /\ req \in [kind : {"verdict", "sweep"}, of : 1..MaxChunks]
    /\ pc = "admit" /\ at = 1
    /\ run = NoRun /\ results = <<>> /\ rec = NoRec
    /\ seat = FALSE /\ waited = 0
    /\ sent = <<>> /\ answer = None
    /\ heard = [i \in 1..(MaxChunks + 1) |-> {}]

Drive == Admit \/ Busy \/ Wake \/ Answer \/ CutShort \/ Fails

Next == Drive \/ Leave

Spec == Init /\ [][Next]_vars

\* The call of the model ends by its own limit of time; the gate answers.
LiveSpec == Spec /\ WF_vars(Drive)

-----------------------------------------------------------------------------
(* Properties.                                                             *)

\* The row of a chunk, as far as it is.
RowOf(i) ==
    CASE i \in DOMAIN results -> results[i]
      [] i = at /\ pc = "asking" -> run.row
      [] i = at /\ rec.state = "ok" -> rec.row
      [] i = at /\ req.of = 1 /\ pc = "over" -> answer
      [] OTHER -> None

\* A "maybe" is never the model's own word here.
HitHeard(i) == heard[i] \cap {"FAIL", "yes"} # {}

\* A verdict that hits, in the words of the model, is never outweighed: by a
\* neater row of the same answer or of a later attempt, nor by another chunk.
\* Only the reconciling run, or a chunk without a verdict, may take it back.
HitSurvives ==
    /\ HitHeard(at) /\ pc = "asking" => Hit(run.row)
    /\ \A i \in DOMAIN results : HitHeard(i) => (results[i] # None /\ Hit(results[i]))
    /\ (sent = <<"result", "done">> /\ \E i \in 1..req.of : HitHeard(i))
         => answer = None \/ Hit(answer) \/ rec.state = "ok"

\* Where the model said two different things of one card in one chunk, the row
\* that stays tells so, whatever order they came in and whatever took its place.
DisagreementIsMarked ==
    \A i \in 1..at : RowOf(i) # None /\ Cardinality(heard[i]) > 1
                      => RowOf(i).dup \/ RowOf(i).flip # None

\* What was read is not thrown away by a later failure: a request ends in an
\* error only if the chunk that failed gave nothing.
ErrorOnlyUnread == sent = <<"error", "done">> => heard[at] = {}

\* A long card is not called judged by some of its chunks.
WholeCardJudged ==
    (sent = <<"result", "done">> /\ req.kind = "verdict" /\ answer # None)
      => \A i \in 1..req.of : heard[i] # {}

\* The seat is given back by every end, and not kept between the chunks.
NoSeatAtRest == pc # "asking" => ~seat

\* A request gets its last frames, or its client has left, although there may
\* never be a seat.
RequestEnds == <>(pc = "over")

=============================================================================

----------------------------- MODULE SelfCheck -----------------------------
(***************************************************************************)
(* The check of an answer before it is given (src/app.py,                  *)
(* _self_checked_turn and _self_check_stream; src/sc_gate.py).  The draft  *)
(* of the turn is held back; a reviewer, a model too, names places to      *)
(* change; the gate compares each change with what the tools of the turn   *)
(* returned and lets through, points out or drops it; what is let through  *)
(* goes into the draft together or not at all.                             *)
(*                                                                         *)
(* A text is a sequence of tokens, each of them a number with its unit, a  *)
(* small number, a date, an identifier, a value of the sources, a mark     *)
(* that says "unsourced", an image or a word.  Where a token stands in the *)
(* sources is a constant; a number that is a sum, difference or ratio of   *)
(* sourced ones is "derived".                                              *)
(***************************************************************************)
EXTENDS Naturals, Sequences, SequencesExt, FiniteSetsExt, FiniteSets

CONSTANTS
    Tokens,
    Kind,           \* of each token
    Source,         \* of each token: "strong" | "weak" | "derived" | "none"
    Drafts,         \* the answers to check
    Texts,          \* the texts that a reviewer puts in
    MaxPatches

\* What the constants are; instances assume it.
SelfCheckAssumption ==
    /\ Kind \in [Tokens -> {"num", "small", "date", "id", "value", "mark", "image", "word"}]
    /\ Source \in [Tokens -> {"strong", "weak", "derived", "none"}]
    /\ Drafts \cup Texts \subseteq Seq(Tokens) /\ MaxPatches \in Nat

VARIABLES
    at,         \* "inner" | "told" (its result is held) | "check" | "out"
    draft,      \* what the turn writes
    came,       \* how many tokens of it came
    held,       \* the result that the turn told, and whether it left its draft
    failed,     \* the turn told an error
    shown,      \* the body of the answer
    told,       \* the result: its text, or None
    check       \* what the check says of it

vars == <<at, draft, came, held, failed, shown, told, check>>

None == <<"none">>
Numbers == {"num", "small"}
Units == {"date", "id"}

-----------------------------------------------------------------------------
(* The gate (src/sc_gate.py).  A patch is [old, new].                      *)

Of(text, kinds) == SelectSeq(text, LAMBDA t : Kind[t] \in kinds)

\* What two texts have in common, in order: pairs of places.
Matchings(a, b) ==
    {P \in SUBSET {p \in (DOMAIN a) \X (DOMAIN b) : a[p[1]] = b[p[2]]} :
        \A p, q \in P : p # q => (p[1] < q[1] /\ p[2] < q[2]) \/ (q[1] < p[1] /\ q[2] < p[2])}

Longest(a, b) == CHOOSE P \in Matchings(a, b) : \A Q \in Matchings(a, b) : Cardinality(Q) <= Cardinality(P)

\* _seq_diff, _num_diff, values_delta: what a patch takes away and what it adds.
Gone(p, kinds) ==
    LET a == Of(p.old, kinds) b == Of(p.new, kinds)
    IN {a[i] : i \in DOMAIN a \ {q[1] : q \in Longest(a, b)}}
More(p, kinds) ==
    LET a == Of(p.old, kinds) b == Of(p.new, kinds)
    IN {b[j] : j \in DOMAIN b \ {q[2] : q \in Longest(a, b)}}

\* RawIndex.has, has_unit.
Has(t) == IF Kind[t] = "small" THEN Source[t] = "strong" ELSE Source[t] \in {"strong", "weak"}

\* src: of a number; spent says what counts once no more sums are tried.
Sourced(t, tries, spent) == Has(t) \/ (IF tries THEN Source[t] = "derived" ELSE spent)

MarksOf(text) == Len(Of(text, {"mark"}))

\* decide: the first line that fits.  values is off where only numbers count.
Decide(p, values, tries) ==
    LET numbers == Gone(p, Numbers)
        dates == {t \in Gone(p, {"date"}) : Has(t)}
        named == ToSet(Of(p.old, Numbers \cup Units))
    IN CASE \E t \in numbers : Sourced(t, tries, TRUE) -> "drop"
         [] dates # {} /\ \E t \in More(p, {"date"}) : Has(t) -> "demote"
         [] dates # {} -> "drop"
         [] \E t \in numbers : Kind[t] = "small" /\ Source[t] = "weak" -> "demote"
         [] /\ MarksOf(p.new) > MarksOf(p.old)
            /\ IF named # {}
               THEN \A t \in named : IF Kind[t] \in Numbers THEN Sourced(t, tries, FALSE) ELSE Has(t)
               ELSE values /\ Of(p.old, {"value"}) # <<>> -> "drop"
         [] \E t \in Gone(p, {"id"}) : Has(t) -> "demote"
         [] values /\ Gone(p, {"value"}) # {} -> "demote"
         [] \E t \in More(p, Numbers) : ~Sourced(t, tries, FALSE) -> "demote"
         [] \E t \in More(p, Units) : ~Has(t) -> "demote"
         [] OTHER -> "keep"

\* What a patch brings in that another must not contradict.
Adds(p, values) == More(p, Numbers) \cup More(p, Units) \cup (IF values THEN More(p, {"value"}) ELSE {})

\* Mutant: each patch is judged for itself.
Uncoupled(patches, refused, values) == refused

\* A patch that brings in what a refused one does is refused, until none is.
Coupled(patches, refused, values) ==
    FoldLeft(LAMBDA S, k : S \cup {i \in DOMAIN patches :
                 \E j \in S : Adds(patches[i], values) \cap Adds(patches[j], values) # {}},
             refused, patches)

\* gate_patches.
GatePatches(patches, values, tries) ==
    LET first == [i \in DOMAIN patches |-> Decide(patches[i], values, tries)]
        refused == Coupled(patches, {i \in DOMAIN patches : first[i] # "keep"}, values)
    IN [i \in DOMAIN patches |-> IF i \in refused /\ first[i] = "keep" THEN "demote" ELSE first[i]]

-----------------------------------------------------------------------------
(* The judgement (src/app.py).                                             *)

Hits(text, old) ==
    {i \in DOMAIN text : i + Len(old) - 1 <= Len(text) /\ SubSeq(text, i, i + Len(old) - 1) = old}

PlaceOf(text, p) == CHOOSE i \in Hits(text, p.old) : TRUE

\* _sc_apply: every place is there once and no two overlap.
Applicable(text, patches) ==
    /\ \A i \in DOMAIN patches : patches[i].old # <<>> /\ Cardinality(Hits(text, patches[i].old)) = 1
    /\ \A i, j \in DOMAIN patches : i # j =>
        LET a == PlaceOf(text, patches[i]) b == PlaceOf(text, patches[j])
        IN (a < b /\ a + Len(patches[i].old) <= b) \/ (b < a /\ b + Len(patches[j].old) <= a)

Applied(text, patches) ==
    FlattenSeq([k \in DOMAIN text |->
        LET over == {i \in DOMAIN patches :
                        PlaceOf(text, patches[i]) <= k /\ k < PlaceOf(text, patches[i]) + Len(patches[i].old)}
        IN IF over = {} THEN <<text[k]>>
           ELSE LET p == patches[CHOOSE i \in over : TRUE]
                IN IF PlaceOf(text, p) = k THEN p.new ELSE <<>>])

\* _sc_put: not too short (_SELF_CHECK_MIN_RATIO is 0.4), and no image lost.
Puts(text, patches) ==
    /\ Applicable(text, patches)
    /\ LET ans == Applied(text, patches)
       IN 10 * Len(ans) >= 4 * Len(text) /\ ToSet(Of(text, {"image"})) \subseteq ToSet(ans)

\* _self_check_judge, _sc_judge_gated: the verdict "fixed" with its patches,
\* or NONE for none that can be read.  Nothing gated is all let through.
Judge(text, patches, flags, actions) ==
    LET kept == {i \in DOMAIN patches : actions[i] = "keep"}
        keep == SelectSeq([i \in DOMAIN patches |-> [p |-> patches[i], i |-> i]], LAMBDA e : e.i \in kept)
        put == [i \in DOMAIN keep |-> keep[i].p]
        flagged == flags \/ \E i \in DOMAIN patches : actions[i] = "demote"
        Says(ans, status) == [final |-> ans, status |-> status, kept |-> IF status = "fixed" THEN kept ELSE {}]
    IN IF patches = <<>> THEN Says(text, IF flags THEN "flagged" ELSE "suspect")
       ELSE IF kept = {} THEN Says(text, IF flagged THEN "flagged" ELSE "ok")
       ELSE IF ~Puts(text, put) THEN Says(text, "suspect")
       ELSE IF Applied(text, put) = text THEN Says(text, IF flagged THEN "flagged" ELSE "ok")
       ELSE Says(Applied(text, put), "fixed")

-----------------------------------------------------------------------------
(* The turn.                                                               *)

Unchecked == [final |-> <<>>, status |-> "none", kept |-> {}, patches |-> <<>>, gate |-> "off", values |-> FALSE]
NoResult == [result |-> FALSE, draft |-> FALSE]

Init ==
    /\ at = "inner" /\ draft \in Drafts /\ came = 0
    /\ held = NoResult /\ failed = FALSE
    /\ shown = <<>> /\ told = None /\ check = Unchecked

\* A piece of the draft: to the column of the thoughts, after an error to the
\* body.
Piece ==
    /\ at = "inner" /\ came < Len(draft)
    /\ came' = came + 1
    /\ shown' = IF failed THEN Append(shown, draft[came + 1]) ELSE shown
    /\ UNCHANGED <<at, draft, held, failed, told, check>>

\* What was held back is given in front of the error.
ErrorShows == failed' = TRUE /\ shown' = SubSeq(draft, 1, came)

Error ==
    /\ at = "inner" /\ ~failed
    /\ ErrorShows
    /\ UNCHANGED <<at, draft, came, held, told, check>>

\* The turn tells its result, with or without leaving its draft; after an
\* error it ends without one, and it may also just end.
Result ==
    /\ at = "inner"
    /\ \/ /\ ~failed /\ came = Len(draft)
          /\ \E left \in BOOLEAN : held' = [result |-> TRUE, draft |-> left]
       \/ /\ failed
          /\ held' = NoResult
    /\ at' = "told"
    /\ UNCHANGED <<draft, came, failed, shown, told, check>>

\* Nothing to check: the body is what came, the result what was held.
PassOn ==
    /\ at = "told" /\ ~(held.result /\ held.draft)
    /\ shown' = IF failed THEN shown ELSE SubSeq(draft, 1, came)
    /\ told' = IF held.result THEN draft ELSE None
    /\ at' = "out"
    /\ UNCHANGED <<draft, came, held, failed, check>>

Tells(final) == shown' = final /\ told' = final

\* A turn that a card ends, or an answer too short to check.
Skip ==
    /\ at = "told" /\ held.result /\ held.draft
    /\ check' = [Unchecked EXCEPT !.status = "skipped", !.final = draft]
    /\ Tells(draft)
    /\ at' = "out"
    /\ UNCHANGED <<draft, came, held, failed>>

\* The reviewer fails, cannot be read, is cut or has nothing to say.
Keep ==
    /\ at = "told" /\ held.result /\ held.draft
    /\ \E status \in {"failed", "unreadable", "suspect", "ok", "flagged"} :
        check' = [Unchecked EXCEPT !.status = status, !.final = draft]
    /\ Tells(draft)
    /\ at' = "out"
    /\ UNCHANGED <<draft, came, held, failed>>

\* A patch names a place of the draft, or one that is not there.
Patches(text) == [old : SubSeqs(text) \cup {Append(text, text[1])}, new : Texts \cup {<<>>}]

\* The reviewer's changes are judged: through the gate where the turn has
\* called tools and the gate is on.
Review ==
    /\ at = "told" /\ held.result /\ held.draft
    /\ \E n \in 0..MaxPatches, gate, values, tries, flags \in BOOLEAN :
       \E patches \in [1..n -> Patches(draft)] :
        LET actions == IF gate THEN GatePatches(patches, values, tries) ELSE [i \in 1..n |-> "keep"]
            judged == Judge(draft, patches, flags, actions)
        IN /\ gate \/ (~values /\ tries)
           /\ check' = [final |-> judged.final, status |-> judged.status, kept |-> judged.kept, patches |-> patches,
                        gate |-> IF gate THEN "on" ELSE "off", values |-> values]
           /\ Tells(judged.final)
    /\ at' = "out"
    /\ UNCHANGED <<draft, came, held, failed>>

Next == Piece \/ Error \/ Result \/ PassOn \/ Skip \/ Keep \/ Review

Spec == Init /\ [][Next]_vars

-----------------------------------------------------------------------------
(* Properties.                                                             *)

InOrder(a, b) == Cardinality(Longest(a, b)) = Len(a)
IsSourced(t) == IF Kind[t] \in Numbers THEN Source[t] # "none" ELSE Has(t)

\* Through the gate nothing that the sources hold leaves the answer or its
\* place among the others, nothing that they do not hold comes into it, and it does not say one thing that a
\* change which was refused would have said elsewhere too (gate_patches).
GateKeepsSources ==
    at = "out" /\ check.gate = "on" =>
        LET counted == Numbers \cup Units \cup (IF check.values THEN {"value"} ELSE {})
            refused == DOMAIN check.patches \ check.kept
        IN /\ \A kinds \in {Numbers, Units, {"value"}} : kinds \subseteq counted =>
                InOrder(SelectSeq(Of(draft, kinds), IsSourced), Of(check.final, kinds))
           /\ \A t \in ToSet(check.final) \ ToSet(draft) : Kind[t] \in Numbers \cup Units =>
                IsSourced(t)
           /\ \A i \in check.kept, j \in refused :
                Adds(check.patches[i], check.values) \cap Adds(check.patches[j], check.values) = {}

\* Whatever becomes of turn and reviewer, the client reads one answer: the
\* body is the result that it is told, with all changes that were let through
\* or none; and what came before an error is not lost.
OneAnswer ==
    at = "out" =>
        /\ told # None => shown = told
        /\ told = None => shown = SubSeq(draft, 1, came)
        /\ check.status \notin {"none", "fixed"} => shown = draft
        /\ check.status = "fixed" => \A i \in check.kept : check.patches[i].new \in SubSeqs(shown)

=============================================================================

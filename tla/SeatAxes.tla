------------------------------ MODULE SeatAxes ------------------------------
(***************************************************************************)
(* Who may sit in a deliberation, as the choice is offered to the user     *)
(* (src/app.py, _seat_axes and deliberate_experts).  The model names       *)
(* domains that the talk touches, the axes; the experts that the question  *)
(* itself recalls and those that the phrases of the axes recall are put    *)
(* into one list, of which the first are recommended.                      *)
(*                                                                         *)
(* An expert is a model value.  A ranking is a sequence of experts, empty  *)
(* where the call failed; a line of the model is its domain and whether it *)
(* can be read.                                                            *)
(***************************************************************************)
EXTENDS Naturals, Sequences, SequencesExt, FiniteSets

CONSTANTS
    Known,          \* the domains of the roster
    Operators,      \* experts that only run tools, is_operator
    ExpertAxes,     \* EXPERT_AXES
    AxisQuota,      \* _AXIS_QUOTA
    Depth,          \* how many an axis recalls
    CandidateTop    \* EXPERT_CANDIDATE_TOP_K

\* What the constants are; instances assume it.
AxesAssumption == {ExpertAxes, AxisQuota, Depth, CandidateTop} \subseteq Nat \ {0}

\* The first n elements of s, all of them where s is shorter.
FirstOf(s, n) == SubSeq(s, 1, IF n < Len(s) THEN n ELSE Len(s))

\* _seat_axes: the domains named, in their order, each once, as far as they
\* are known; none without a talk before the question.
SeatAxes(lines, history) ==
    IF ~history THEN <<>>
    ELSE FoldLeft(LAMBDA axes, line :
                    IF /\ line.read /\ line.domain \in Known /\ ~Contains(axes, line.domain)
                       /\ Len(axes) < ExpertAxes
                    THEN Append(axes, line.domain) ELSE axes, <<>>, lines)

\* _rank: the first top of what is recalled, without those who run tools.
Rank(items, top) == SelectSeq(FirstOf(items, top), LAMBDA k : k \notin Operators)

Once(s) == FoldLeft(LAMBDA acc, k : IF Contains(acc, k) THEN acc ELSE Append(acc, k), <<>>, s)

\* One place of one axis: an expert already there is only labelled, a new one
\* is picked while the axis has not brought too many.
PickOne(acc, axis, k) ==
    IF k \in acc.known THEN [acc EXCEPT !.labels = @ \cup {<<k, axis>>}]
    ELSE IF acc.brought[axis] >= AxisQuota THEN acc
    ELSE [acc EXCEPT !.known = @ \cup {k}, !.picked = Append(@, k),
                     !.brought[axis] = @ + 1, !.labels = @ \cup {<<k, axis>>}]

\* The places that the axes name, one of each axis in turn.
Places(axes, recalled) ==
    SelectSeq([p \in 1..(Depth * Len(axes)) |->
                 [axis |-> axes[((p - 1) % Len(axes)) + 1], at |-> ((p - 1) \div Len(axes)) + 1]],
              LAMBDA p : p.at <= Len(recalled[p.axis]))

Picked(axes, base, recalled) ==
    FoldLeft(LAMBDA acc, p : PickOne(acc, p.axis, recalled[p.axis][p.at]),
             [known |-> ToSet(base), picked |-> <<>>, brought |-> [d \in ToSet(axes) |-> 0], labels |-> {}],
             Places(axes, recalled))

\* In turn, the first of a first, and the rest of the longer.
Alternate(a, b) ==
    FlattenSeq([i \in 1..(IF Len(a) > Len(b) THEN Len(a) ELSE Len(b)) |->
        (IF i <= Len(a) THEN <<a[i]>> ELSE <<>>) \o (IF i <= Len(b) THEN <<b[i]>> ELSE <<>>)])

\* deliberate_experts: the list that is offered.  recall is what the question
\* and the phrase of each domain recall.
Experts(lines, history, question, recall) ==
    LET axes == SeatAxes(lines, history)
        base == Once(Rank(question, CandidateTop))
        recalled == [d \in ToSet(axes) |-> Rank(recall[d], Depth)]
        picks == Picked(axes, base, recalled)
    IN [axes |-> axes, base |-> base, recalled |-> recalled, picked |-> picks.picked, labels |-> picks.labels,
        candidates |-> Once(Alternate(picks.picked, base))]

-----------------------------------------------------------------------------
(* Properties.                                                             *)

IndexIn(s, k) == CHOOSE i \in DOMAIN s : s[i] = k

\* The axes add to the experts of the question and do not replace them: those
\* stay, in their order, and hold every second place; an axis brings at most
\* its quota and loses an expert to nothing else; nobody is offered twice, and
\* no operator is.
SeatsAreFair(lines, history, question, recall) ==
    LET e == Experts(lines, history, question, recall)
        at(k) == IndexIn(e.candidates, k)
        NewOf(d) == {k \in ToSet(e.picked) : <<k, d>> \in e.labels /\ k \notin ToSet(e.base)}
    IN
    /\ IsInjective(e.candidates) /\ ToSet(e.candidates) \cap Operators = {}
    /\ \A i \in DOMAIN e.base : Contains(e.candidates, e.base[i]) /\ at(e.base[i]) <= 2 * i
    /\ \A i, j \in DOMAIN e.base : i < j => at(e.base[i]) < at(e.base[j])
    /\ \A d \in ToSet(e.axes) :
        LET lost == ToSet(e.recalled[d]) \ ToSet(e.candidates)
        IN /\ lost # {} => Cardinality(NewOf(d)) >= AxisQuota
           /\ \A k \in ToSet(e.recalled[d]) \cap ToSet(e.base) : <<k, d>> \in e.labels
    /\ Len(e.picked) <= AxisQuota * Len(e.axes) /\ Len(e.axes) <= ExpertAxes

=============================================================================

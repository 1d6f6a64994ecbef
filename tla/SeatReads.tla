------------------------------ MODULE SeatReads ------------------------------
(***************************************************************************)
(* What a seat of a deliberation is shown of what its lookups return       *)
(* (src/deliberation.py).  A risk review must judge without the verdicts   *)
(* of earlier panels on its project: reports, conversations and findings   *)
(* of that project are taken out of every answer (_risk_hide_priors).  A   *)
(* deliberation with a date must not see cards from after it: the engine   *)
(* sends the date and looks for its echo (_as_of_guard).  The wrappers     *)
(* stand in an order: the date inside, then the limit on the length of an  *)
(* answer (app._cap), then the hiding, which meets answers cut in two.     *)
(*                                                                         *)
(* An answer is a sequence of rows; a row that is cut shows its title and  *)
(* not its body.  What a title says of its project is the set of the       *)
(* project heads in it.                                                    *)
(***************************************************************************)
EXTENDS Integers, SequencesExt

CONSTANTS
    Codes,          \* the projects
    Days,           \* the days of cards and of the deliberation, an interval
    Objects,        \* the objects of the ontology
    IsFinding,      \* those that are risk findings
    FindingOf,      \* their projects
    MaxRows,        \* bound of the model
    None

\* What the constants are; instances assume it.
ReadsAssumption == None \notin Codes \cup Objects /\ Days \subseteq Nat \ {0} /\ MaxRows \in Nat

VARIABLES
    code,           \* the project of the question, _risk_q_code; None: it cannot be read
    day,            \* as_of; 0: none
    tool,           \* the tool that was called; None: none yet
    answer,         \* what the backend holds or returned
    shown           \* what the seat is shown

vars == <<code, day, tool, answer, shown>>

FirstOf(s, n) == SubSeq(s, 1, IF n < Len(s) THEN n ELSE Len(s))
UpTo(set, n) == UNION {[1..k -> set] : k \in 0..n}

-----------------------------------------------------------------------------
\* Reports and conversations.

Title(i) == [row |-> i, what |-> "title"]
Body(i) == [row |-> i, what |-> "body"]
Fields(n) == [j \in 1..(2 * n) |-> IF j % 2 = 1 THEN Title((j + 1) \div 2) ELSE Body(j \div 2)]
Refused == [refused |-> TRUE, fields |-> <<>>, withheld |-> 0]

\* An issue panel's draft need not show a project in its title.
Reports ==
    {r \in [draft : BOOLEAN, issue : BOOLEAN, heads : SUBSET Codes, of : Codes \cup {None}] :
        /\ r.issue => r.draft
        /\ IF r.heads = {} THEN r.issue \/ r.of = None ELSE r.draft /\ r.of \in r.heads}

\* A conversation may quote another project's head; one without a risk head
\* names no project, and a review of a known project keeps it.
Talks ==
    {t \in [conversation : {1, 2}, risk : BOOLEAN, delib : BOOLEAN, heads : SUBSET Codes,
            quotes : SUBSET Codes, of : Codes \cup {None}] :
        /\ ~(t.risk /\ t.delib)
        /\ t.heads # {} => t.risk /\ t.of \in t.heads
        /\ t.risk \/ t.of = None}

PriorReport(r) == IF code = None THEN r.draft ELSE code \in r.heads \/ (r.issue /\ r.heads = {})

PriorTalk(t) ==
    IF code = None THEN t.risk \/ t.delib \/ t.quotes # {}
    ELSE code \in t.heads \cup t.quotes \/ (t.risk /\ t.heads = {})

\* What shows in a text that cannot be parsed.
MarkInReport(r, f) == f.what = "title" /\ (IF code = None THEN r.draft ELSE code \in r.heads \/ r.issue)
MarkInTalk(t, f) ==
    \/ f.what = "title" /\ (t.risk \/ (code = None /\ t.delib))
    \/ f.what = "body" /\ t.quotes # {}

\* An answer cut short is refused where a mark is seen in it.
Opaque(fields, rows, Mark(_, _)) ==
    IF \E f \in ToSet(fields) : Mark(rows[f.row], f) THEN Refused
    ELSE [refused |-> FALSE, fields |-> fields, withheld |-> 0]

\* _risk_hide_prior_panels and _risk_hide_prior_conversations of an answer of
\* which the first n fields are left; Number counts what is left out.
Hidden(rows, n, Prior(_), Mark(_, _), Number(_)) ==
    LET all == Fields(Len(rows))
        gone == {i \in DOMAIN rows : Prior(rows[i])}
    IN IF n < Len(all) THEN Opaque(FirstOf(all, n), rows, Mark)
       ELSE [refused |-> FALSE, fields |-> SelectSeq(all, LAMBDA f : f.row \notin gone), withheld |-> Number(gone)]

ReadReports ==
    /\ tool = None
    /\ \E rows \in UpTo(Reports, MaxRows), n \in 0..(2 * MaxRows) :
        /\ n <= 2 * Len(rows)
        /\ tool' = "search_reports" /\ answer' = rows
        /\ shown' = Hidden(rows, n, PriorReport, MarkInReport, Cardinality)
    /\ UNCHANGED <<code, day>>

ReadTalks ==
    /\ tool = None
    /\ \E rows \in UpTo(Talks, MaxRows), n \in 0..(2 * MaxRows) :
        /\ n <= 2 * Len(rows)
        /\ tool' = "search_conversations" /\ answer' = rows
        /\ shown' = Hidden(rows, n, PriorTalk, MarkInTalk,
                           LAMBDA gone : Cardinality({rows[i].conversation : i \in gone}))
    /\ UNCHANGED <<code, day>>

-----------------------------------------------------------------------------
\* Findings among the objects of the ontology.

Mine(o) == o \in IsFinding /\ (code = None \/ FindingOf[o] = code)

\* Where the objects of an answer may stand: the rows of a list and their
\* grounds, the nodes of a graph, the other ends of an object's relations.
Lists == [items : UpTo(Objects, 2), objects : SUBSET Objects, more : 0..1]
Graphs == {g \in [nodes : SUBSET Objects, edges : SUBSET (Objects \X Objects), seed : Objects \cup {None}] :
             g.edges \subseteq g.nodes \X g.nodes /\ Cardinality(g.edges) <= 2}
Things == [self : Objects, ends : SUBSET Objects]

Nothing == [withheld |-> 1]
Visible(set) == {o \in set : ~Mine(o)}

HiddenList(l) ==
    LET items == SelectSeq(l.items, LAMBDA o : ~Mine(o))
        gone == {o \in ToSet(l.items) \cup l.objects : Mine(o)}
        total == Len(l.items) + l.more
        less == total - (Len(l.items) - Len(items))
    IN [items |-> items, objects |-> Visible(l.objects), shown |-> Len(items),
        total |-> IF less > Len(items) THEN less ELSE Len(items), withheld |-> Cardinality(gone)]

\* Mutant: the graph around a finding is shown without it.
SeedIgnored(g) == FALSE

\* The graph was asked for around one of the findings.
SeedIsMine(g) == g.seed # None /\ g.seed \in g.nodes /\ Mine(g.seed)

EdgesLeft(g, gone) == {e \in g.edges : e[1] \notin gone /\ e[2] \notin gone}

HiddenGraph(g) ==
    LET gone == {o \in g.nodes : Mine(o)}
    IN IF SeedIsMine(g) THEN Nothing
       ELSE [nodes |-> Visible(g.nodes), edges |-> EdgesLeft(g, gone),
             nodeCount |-> Cardinality(Visible(g.nodes)), edgeCount |-> Cardinality(EdgesLeft(g, gone)),
             withheld |-> Cardinality(gone)]

HiddenThing(t) ==
    IF Mine(t.self) THEN Nothing
    ELSE [self |-> t.self, ends |-> Visible(t.ends), withheld |-> Cardinality(t.ends \ Visible(t.ends))]

\* A text of objects that was cut is refused where a finding is seen in it,
\* and, where the project is known, the head of the project.
OpaqueObjects(objects, fields) ==
    /\ \E f \in ToSet(fields) : f.what = "type" /\ objects[f.row] \in IsFinding
    /\ \/ code = None
       \/ \E f \in ToSet(fields) : f.what = "label" /\ objects[f.row] \in IsFinding /\ FindingOf[objects[f.row]] = code

\* An object's type stands before its label, and the rest behind.
ObjectFields(n) ==
    [j \in 1..(3 * n) |-> [row |-> (j + 2) \div 3, what |-> <<"type", "label", "body">>[((j - 1) % 3) + 1]]]

CutObjects(objects, n) ==
    LET fields == FirstOf(ObjectFields(Len(objects)), n)
    IN IF OpaqueObjects(objects, fields) THEN Refused ELSE [refused |-> FALSE, fields |-> fields, withheld |-> 0]

ReadObjects ==
    /\ tool = None
    /\ \/ \E l \in Lists : tool' = "search_objects" /\ answer' = l /\ shown' = HiddenList(l)
       \/ \E g \in Graphs : tool' = "get_subgraph" /\ answer' = g /\ shown' = HiddenGraph(g)
       \/ \E t \in Things : tool' = "get_object" /\ answer' = t /\ shown' = HiddenThing(t)
       \/ \E objects \in UpTo(Objects, MaxRows), n \in 0..(3 * MaxRows) :
            n < 3 * Len(objects) /\ tool' = "cut_objects" /\ answer' = objects /\ shown' = CutObjects(objects, n)
    /\ UNCHANGED <<code, day>>

-----------------------------------------------------------------------------
\* Cards by their date.

Undated == 0
Cards == UpTo(Days \cup {Undated}, MaxRows)

\* What the hub does with the two arguments: a hub that knows them filters and
\* echoes the day; an older one drops them.  No day is 0.
HubReply(cards, hub, sent, exclude) ==
    IF hub = "old" \/ sent = 0 THEN [hits |-> cards, echo |-> 0]
    ELSE [hits |-> SelectSeq(cards, LAMBDA at : IF at = Undated THEN ~exclude ELSE at <= sent),
          echo |-> IF hub = "other" THEN 0 ELSE sent]

Mark(i) == [row |-> i, what |-> "mark"]
Date(i) == [row |-> i, what |-> "date"]

\* A card is its text, then its date; one without a date is marked first.
Card(hits, i) == (IF hits[i] = Undated /\ day # 0 THEN <<Mark(i)>> ELSE <<>>) \o <<Body(i), Date(i)>>

\* _as_of_check: without the echo of the day no card is shown.
Checked(reply) ==
    IF day # 0 /\ reply.echo # day THEN [refused |-> TRUE, hits |-> <<>>] ELSE [refused |-> FALSE, hits |-> reply.hits]

\* _as_of_guard: the day is the deliberation's, whatever the seat asked for.
Sent(asked, exclude) == [day |-> day, exclude |-> FALSE]

ReadCards ==
    /\ tool = None
    /\ \E cards \in Cards, hub \in {"new", "old", "other"}, asked \in Days \cup {0}, exclude \in BOOLEAN :
        LET sent == Sent(asked, exclude)
            got == Checked(HubReply(cards, hub, sent.day, sent.exclude))
            fields == FlattenSeq([i \in DOMAIN got.hits |-> Card(got.hits, i)])
        IN \E n \in 0..Len(fields) :
            /\ tool' = "agent_search" /\ answer' = cards
            /\ shown' = [refused |-> got.refused, hits |-> got.hits, fields |-> FirstOf(fields, n)]
    /\ UNCHANGED <<code, day>>

Init ==
    /\ code \in Codes \cup {None} /\ day \in Days \cup {0}
    /\ tool = None /\ answer = None /\ shown = None

Next == ReadReports \/ ReadTalks \/ ReadObjects \/ ReadCards
Spec == Init /\ [][Next]_vars

-----------------------------------------------------------------------------
\* The objects that an answer about findings shows.
ShownObjects ==
    CASE tool = "search_objects" -> ToSet(shown.items) \cup shown.objects
      [] tool = "get_subgraph" /\ shown # Nothing ->
            shown.nodes \cup {e[1] : e \in shown.edges} \cup {e[2] : e \in shown.edges}
      [] tool = "get_object" /\ shown # Nothing -> {shown.self} \cup shown.ends
      [] tool = "cut_objects" -> {answer[f.row] : f \in {g \in ToSet(shown.fields) : g.what = "body"}}
      [] OTHER -> {}

\* A seat never reads what an earlier panel on its project wrote, nor a
\* finding of its project, nor what stands around one, in a whole answer or
\* in one that was cut (D-18, _risk_hide_priors).
PriorIsHidden ==
    /\ tool \in {"search_reports", "search_conversations"} =>
        \A f \in ToSet(shown.fields) :
            f.what = "body" => answer[f.row].of # code \/ code = None
    /\ code = None =>
        /\ tool = "search_reports" => \A f \in ToSet(shown.fields) : ~answer[f.row].draft
        /\ tool = "search_conversations" => \A f \in ToSet(shown.fields) : ~answer[f.row].risk /\ ~answer[f.row].delib
    /\ \A o \in ShownObjects : o \in IsFinding => code # None /\ FindingOf[o] # code
    /\ tool = "get_subgraph" /\ answer.seed \in IsFinding \cap answer.nodes /\ shown # Nothing =>
        code # None /\ FindingOf[answer.seed] # code

\* The counts of an answer are those of what it shows, and it shows whatever
\* is not to be hidden: other projects' verdicts are precedents.
CountsAgree ==
    /\ tool = "search_objects" =>
        /\ shown.shown = Len(shown.items) /\ shown.total >= shown.shown
        /\ shown.total - shown.shown = answer.more
        /\ ToSet(answer.items) \ ToSet(shown.items) \subseteq IsFinding
    /\ tool = "get_subgraph" /\ shown # Nothing =>
        /\ shown.nodeCount + shown.withheld = Cardinality(answer.nodes)
        /\ shown.edgeCount = Cardinality(shown.edges)
        /\ \A e \in shown.edges : e[1] \in shown.nodes /\ e[2] \in shown.nodes

\* A deliberation with a date sees no card from after it, and a card without
\* a date only behind its mark, however the hub behaves and wherever the
\* answer is cut; one without a date sees every card.
DayIsKept ==
    tool = "agent_search" =>
        /\ day # 0 =>
            \A j \in DOMAIN shown.fields :
                LET f == shown.fields[j] at == shown.hits[f.row]
                IN f.what = "body" =>
                    IF at = Undated THEN Mark(f.row) \in ToSet(FirstOf(shown.fields, j)) ELSE at <= day
        /\ day = 0 => shown.hits = answer
=============================================================================

------------------------------ MODULE SeatCall ------------------------------
(***************************************************************************)
(* What a deliberation does before its first round (src/deliberation.py,   *)
(* _deliberation_stream up to the journal's e:pre): it gathers what the    *)
(* question needs, seats the experts - those it was given, whose roles it  *)
(* restores, or those the hub recommends, with seats of other domains -    *)
(* and searches each seat's knowledge cards, so many at once, each call    *)
(* with its own limit of time.  The server may be killed at any step; an   *)
(* attempt that finds e:pre in the journal starts from it.                 *)
(*                                                                         *)
(* An expert is a key of a domain; what the hub recommends and what the    *)
(* calls give is free.  A request may name an expert more than once: he    *)
(* then has so many seats, each with calls of its own, while his cards are *)
(* kept by his key.  Texts, sizes and the model's axes are left out.       *)
(***************************************************************************)
EXTENDS Naturals, Sequences, FiniteSets, SequencesExt

CONSTANTS
    Keys,           \* the experts of the hub
    Domains,
    DomainOf,       \* of a key, _dom_of
    Units, UnitOf,  \* what a new seat must add: the domain, or a part of a wide one (_seat_unit)
    Synthetic,      \* keys that no expert is registered under
    Adversary,      \* the seat that the chair's template adds
    Named,          \* the lists of seats a request may name, <<>> if it names none
    MaxSeats,       \* MAX_REQ_SEATS
    Wanted,         \* N_PERSONAS
    CounterSeats, RescreenSeats, Axes, \* the most of each
    AtOnce,         \* _KN_CONC
    MaxRank,        \* bound: how many the hub recommends
    MaxKills,
    None

\* A seat, named or found, with the kinds of _ORIGIN_KINDS.
SeatsOf(keys) == [key : keys, origin : {"primary", "counter", "adversary", "carry", "new"}]

\* What the constants are; instances assume it.
SeatAssumption ==
    /\ DomainOf \in [Keys -> Domains] /\ UnitOf \in [Keys -> Units]
    /\ Synthetic \subseteq Keys /\ Adversary \in Synthetic
    /\ Named \subseteq Seq(SeatsOf(Keys)) /\ <<>> \in Named
    /\ {Wanted, CounterSeats, RescreenSeats, Axes, AtOnce, MaxRank} \subseteq Nat \ {0}
    /\ MaxSeats \in Nat \ {0, 1} /\ MaxKills \in Nat

VARIABLES
    opts,       \* what the request asks for
    pc,         \* "gather" | "seats" | "roles" | "more" | "adversary" | "search" |
                \* "cards" | "notes" | "rounds" | "error" | "gone"
    personas,   \* the seats: [key, origin]
    task,       \* of each seat, its call: "none" | "queued" | "calling" | "cancelled",
                \* or what it gave, "done" | "cards" | "unfiltered" (cards that the hub
                \* did not filter by the date) | "nothing", or "told" to the client
    cards,      \* of each key, knowledge_by_key: "none" | "cards" | "unfiltered"
    evidence,   \* ev_count
    pre,        \* e:pre of the journal, and the attempt that wrote it, or None
    searched,   \* of each key, its searches of this attempt
    kills

vars == <<opts, pc, personas, task, cards, evidence, pre, searched, kills>>

NoTask == <<>>
NoCards == [k \in Keys |-> "none"]
KeysOf(seats) == {seats[i].key : i \in DOMAIN seats}
Seat(origin) == [k \in Keys |-> [key |-> k, origin |-> origin]]
Seated(q, origin) == [i \in DOMAIN q |-> [key |-> q[i], origin |-> origin]]
First(q, n) == SubSeq(q, 1, IF Len(q) < n THEN Len(q) ELSE n)

\* What recommend_agents may answer, without operators and duplicates
\* (_rank_keys); a failure is an empty ranking.
Rankings == {q \in SetToAllKPermutations(Keys \ Synthetic) : Len(q) <= MaxRank}

-----------------------------------------------------------------------------
(* The seats.                                                              *)

\* An attempt without e:pre begins here; the briefing of faults (the
\* search beforehand counts likewise) may fail, what it gives is evidence.
Gather ==
    /\ pc = "gather"
    /\ evidence' \in 0..1
    /\ pc' = "seats"
    /\ UNCHANGED <<opts, personas, task, cards, pre, searched, kills>>

\* _discover.
Discovered(ranking, limit, exclude) == First(SelectSeq(ranking, LAMBDA k : k \notin exclude), limit)

\* One axis of _counter_seats: the first of three whose domain is not seated.
CounterOf(seats, out, ranking) ==
    LET taken == KeysOf(seats) \cup KeysOf(out)
        found == Discovered(ranking, 3, taken)
        new == SelectSeq(found, LAMBDA k : DomainOf[k] \notin {DomainOf[j] : j \in taken})
    IN IF Len(out) >= CounterSeats \/ new = <<>> THEN out ELSE Append(out, Seat("counter")[new[1]])

Counters(seats, rankings) == FoldLeft(LAMBDA out, q : CounterOf(seats, out, q), <<>>, rankings)

\* The named seats that are taken (_resolve_opts): the adversary of the
\* chair's template is left out, he is seated beyond the limit.
Kept == First(SelectSeq(opts.named, LAMBDA p : ~(opts.adversary /\ p.key = Adversary)), MaxSeats)

\* Nobody was named: the hub's first ones, and seats of other domains.
Discover ==
    /\ pc = "seats" /\ Kept = <<>>
    /\ \E q \in Rankings, n \in 0..Axes : \E rankings \in [1..n -> Rankings] :
        LET found == Seated(Discovered(q, Wanted, {}), "primary")
        IN personas' = found \o (IF found = <<>> THEN <<>> ELSE Counters(found, rankings))
    /\ pc' = "adversary"
    /\ UNCHANGED <<opts, task, cards, evidence, pre, searched, kills>>

\* Each named seat's role is restored, so many at once.
Carry ==
    /\ pc = "seats" /\ Kept # <<>>
    /\ personas' = Kept
    /\ task' = [i \in DOMAIN Kept |-> "queued"]
    /\ pc' = "roles"
    /\ UNCHANGED <<opts, cards, evidence, pre, searched, kills>>

Calling == {i \in DOMAIN task : task[i] = "calling"}

\* A seat's call leaves the line of the semaphore, first come first served.
StartCall(i) ==
    /\ task[i] = "queued" /\ Cardinality(Calling) < AtOnce
    /\ \A j \in 1..(i - 1) : task[j] # "queued"
    /\ task' = [task EXCEPT ![i] = "calling"]
    /\ searched' = [searched EXCEPT ![personas[i].key] = IF pc = "cards" THEN @ + 1 ELSE @]
    /\ UNCHANGED <<opts, pc, personas, cards, evidence, pre, kills>>

\* A role is restored, or the one that was given stays.
RoleEnds(i) ==
    /\ pc = "roles" /\ task[i] = "calling"
    /\ task' = [task EXCEPT ![i] = "done"]
    /\ UNCHANGED <<opts, pc, personas, cards, evidence, pre, searched, kills>>

RolesDone ==
    /\ pc = "roles" /\ \A i \in DOMAIN task : task[i] = "done"
    /\ task' = NoTask
    /\ pc' = IF opts.rescreen = "no" THEN "adversary" ELSE "more"
    /\ UNCHANGED <<opts, personas, cards, evidence, pre, searched, kills>>

\* Mutant: the seats that were there do not count for the new ones.
UnitsOfNew(seats, picks) == {UnitOf[k] : k \in ToSet(picks)}

UnitsTaken(seats, picks) == {UnitOf[k] : k \in KeysOf(seats) \cup ToSet(picks)}

Pick(seats, picks, k) ==
    IF Len(picks) < RescreenSeats /\ UnitOf[k] \notin UnitsTaken(seats, picks) THEN Append(picks, k) ELSE picks

\* The first new unit of each axis, as they come.
FirstOfAxis(seats, picks, ranking) ==
    LET new == SelectSeq(ranking, LAMBDA k : UnitOf[k] \notin UnitsTaken(seats, picks))
    IN IF new = <<>> THEN picks ELSE Pick(seats, picks, new[1])

\* Then by depth, over the axes that were asked.
ByDepth(seats, picks, rankings) ==
    LET all == FlattenSeq([d \in 1..MaxRank |->
                  FlattenSeq([i \in DOMAIN rankings |-> IF d \in DOMAIN rankings[i] THEN <<rankings[i][d]>> ELSE <<>>])])
    IN FoldLeft(LAMBDA p, k : Pick(seats, p, k), picks, all)

\* _rescreen_blob, without an opinion to draw axes from: one search, and of
\* what it gives the keys of domains that are not seated.
Blob(seats, ranking) ==
    Seated(First(SelectSeq(Discovered(ranking, RescreenSeats * 3, KeysOf(seats)),
                           LAMBDA k : DomainOf[k] \notin {DomainOf[j] : j \in KeysOf(seats)}),
                 RescreenSeats), "new")

\* _rescreen_seats: of the axes those are asked that answer within the
\* deadline, and none any more once the new seats are full.
Rescreened(seats, rankings) ==
    LET picks == FoldLeft(LAMBDA p, q : FirstOfAxis(seats, p, q), <<>>, rankings)
    IN Seated(ByDepth(seats, picks, rankings), "new")

Rescreen ==
    /\ pc = "more"
    /\ \E n \in 0..Axes : \E rankings \in [1..n -> Rankings] :
        personas' = personas \o (IF opts.rescreen = "axes" THEN Rescreened(personas, rankings)
                                 ELSE IF n = 0 THEN <<>> ELSE Blob(personas, rankings[1]))
    /\ pc' = "adversary"
    /\ UNCHANGED <<opts, task, cards, evidence, pre, searched, kills>>

WithAdversary(seats) ==
    IF opts.adversary /\ Adversary \notin KeysOf(seats) THEN Append(seats, Seat("adversary")[Adversary]) ELSE seats

\* With less than two seats there is nothing to deliberate.
Seating ==
    /\ pc = "adversary"
    /\ personas' = WithAdversary(personas)
    /\ pc' = IF Len(WithAdversary(personas)) < 2 THEN "error" ELSE "search"
    /\ UNCHANGED <<opts, task, cards, evidence, pre, searched, kills>>

-----------------------------------------------------------------------------
(* The knowledge cards.                                                    *)

\* The seats that are searched for: a synthetic one has no cards.
Asked == {i \in DOMAIN personas : personas[i].origin # "adversary" /\ personas[i].key \notin Synthetic}

Search ==
    /\ pc = "search"
    /\ IF opts.cards
       THEN pc' = "cards" /\ task' = [i \in DOMAIN personas |-> IF i \in Asked THEN "queued" ELSE "none"]
       ELSE pc' = "notes" /\ UNCHANGED task
    /\ UNCHANGED <<opts, personas, cards, evidence, pre, searched, kills>>

\* Mutant: the cards are kept whatever the hub says of the date.
KeepsAll(found) == found

\* With a date, only cards that the hub says it has filtered.
KeptOf(found) == IF opts.asOf /\ found = "unfiltered" THEN "nothing" ELSE found

Searches == {"cards", "unfiltered", "nothing"}

\* The search of one seat ends, by its own limit at the latest.
SearchEnds(i) ==
    /\ pc = "cards" /\ task[i] = "calling"
    /\ \E found \in Searches : task' = [task EXCEPT ![i] = KeptOf(found)]
    /\ UNCHANGED <<opts, pc, personas, cards, evidence, pre, searched, kills>>

HasCards(found) == found \in {"cards", "unfiltered"}

\* The stream takes it: cards replace what a seat of the same key gave,
\* and each seat with cards is evidence.
Report(i) ==
    /\ pc = "cards" /\ task[i] \in Searches
    /\ task' = [task EXCEPT ![i] = "told"]
    /\ cards' = [cards EXCEPT ![personas[i].key] = IF HasCards(task[i]) THEN task[i] ELSE @]
    /\ evidence' = evidence + (IF HasCards(task[i]) THEN 1 ELSE 0)
    /\ UNCHANGED <<opts, pc, personas, pre, searched, kills>>

CardsDone ==
    /\ pc = "cards" /\ \A i \in DOMAIN task : task[i] \in {"none", "told"}
    /\ pc' = "notes" /\ task' = NoTask
    /\ UNCHANGED <<opts, personas, cards, evidence, pre, searched, kills>>

-----------------------------------------------------------------------------
(* The evidence of the request, the journal, and a new attempt.            *)

Given == IF opts.given THEN 1 ELSE 0

\* A resumed attempt shows the request's evidence again, and then takes the
\* counts of the journal.
CountOf == IF pre = None THEN evidence + Given ELSE pre.evidence

\* What the attempt before has written is not written again.
Notes ==
    /\ pc = "notes"
    /\ evidence' = CountOf
    /\ pre' = IF pre = None /\ opts.journal
              THEN [personas |-> personas, cards |-> cards, evidence |-> evidence + Given,
                    attempt |-> kills] ELSE pre
    /\ pc' = "rounds"
    /\ UNCHANGED <<opts, personas, task, cards, searched, kills>>

\* An attempt with e:pre calls nobody again.
Begins == IF pre = None THEN "gather" ELSE "notes"

\* The server is killed and the job begins anew.
Kill ==
    /\ kills < MaxKills /\ pc \notin {"error", "gone"}
    /\ kills' = kills + 1
    /\ pc' = Begins
    /\ personas' = IF pre = None THEN <<>> ELSE pre.personas
    /\ cards' = IF pre = None THEN NoCards ELSE pre.cards
    /\ evidence' = 0 /\ task' = NoTask
    /\ searched' = [k \in Keys |-> 0]
    /\ UNCHANGED <<opts, pre>>

\* Mutant: the calls under way go on.
LeavesCalls == task

CancelsCalls == [i \in DOMAIN task |-> IF task[i] \in {"queued", "calling"} THEN "cancelled" ELSE task[i]]

\* The job is cancelled or its client leaves: the rounds' finally.
Leave ==
    /\ pc \in {"gather", "seats", "roles", "more", "cards"}
    /\ pc' = "gone" /\ task' = CancelsCalls
    /\ UNCHANGED <<opts, personas, cards, evidence, pre, searched, kills>>

-----------------------------------------------------------------------------
Init ==
    /\ opts \in [named : Named, rescreen : {"no", "blob", "axes"}, adversary : BOOLEAN,
                 cards : BOOLEAN, asOf : BOOLEAN, given : BOOLEAN, journal : BOOLEAN]
    /\ opts.rescreen # "no" => opts.named # <<>>
    /\ pc = "gather" /\ personas = <<>>
    /\ task = NoTask /\ cards = NoCards
    /\ evidence = 0 /\ pre = None
    /\ searched = [k \in Keys |-> 0] /\ kills = 0

Stream ==
    \/ Gather \/ Discover \/ Carry \/ RolesDone \/ Rescreen \/ Seating
    \/ Search \/ CardsDone \/ Notes
    \/ \E i \in DOMAIN task : Report(i)

Calls == \E i \in DOMAIN task : StartCall(i) \/ RoleEnds(i) \/ SearchEnds(i)

Next == Stream \/ Calls \/ Kill \/ Leave

Spec == Init /\ [][Next]_vars

-----------------------------------------------------------------------------
(* Properties.                                                             *)

\* The named seats that sit, when it is them who were seated.
Carried == IF Kept = <<>> THEN {} ELSE DOMAIN Kept

SeatsOfKey(k, seats) == {i \in seats : personas[i].key = k}

\* The panel is as it was asked for.  Whoever was named sits first, in every
\* attempt, once for each time he was named, and nobody else sits twice; the
\* template's adversary sits exactly once, also when he was named.  A seat
\* that is added to widen the view widens it: a counter seat brings a domain,
\* a seat of the rescreening a unit (without axes, a domain that was not
\* named), that nobody else brings (_resolve_opts, _counter_seats,
\* _rescreen_seats, _rescreen_blob).
SeatsDiffer ==
    LET Added == DOMAIN personas \ Carried
        Widening == {i \in Added : personas[i].origin \in {"counter", "new"}}
        Others(i) == {j \in DOMAIN personas \ {i} : j \in Carried \/ personas[j].origin # "adversary"}
        Domain(i) == DomainOf[personas[i].key]
        Unit(i) == UnitOf[personas[i].key]
    IN personas # <<>> =>
        /\ IsPrefix(Kept, personas)
        /\ \A i \in Added : SeatsOfKey(personas[i].key, DOMAIN personas) = {i}
        /\ (opts.adversary /\ pc \notin {"roles", "more", "adversary", "gone"}) =>
               Cardinality(SeatsOfKey(Adversary, DOMAIN personas)) = 1
        /\ \A i \in Widening : \A j \in Others(i) :
               CASE personas[i].origin = "counter" -> Domain(i) # Domain(j)
                 [] opts.rescreen = "axes" -> Unit(i) # Unit(j)
                 [] OTHER -> j \in Carried => Domain(i) # Domain(j)

\* When the rounds begin, no cards are of the wrong date, and the evidence
\* counts the request's own and the briefing once and every key with cards,
\* as often as it has a seat at most, however often the server was killed;
\* a resumed attempt has the seats, the cards and the counts of the journal.
CountedOnce ==
    LET withCards == {k \in Keys : HasCards(cards[k])}
        seatsOfThem == {i \in Asked : personas[i].key \in withCards}
        counted == evidence - Given
    IN pc = "rounds" =>
        /\ pre # None => evidence = pre.evidence /\ personas = pre.personas /\ cards = pre.cards
        /\ withCards \subseteq {personas[i].key : i \in Asked} /\ (~opts.cards => withCards = {})
        /\ opts.asOf => \A k \in Keys : cards[k] # "unfiltered"
        /\ \E fault \in 0..1 : counted - fault \in Cardinality(withCards)..Cardinality(seatsOfThem)

\* An attempt searches once for every seat that has cards, and not at all for
\* what the journal has; never are too many calls under way, and none once
\* the attempt is past them.
SearchedOnce ==
    /\ \A k \in Keys :
        LET most == IF pre # None /\ pre.attempt < kills THEN 0 ELSE Cardinality(SeatsOfKey(k, Asked))
        IN searched[k] <= most /\ ((pc = "rounds" /\ opts.cards) => searched[k] = most)
    /\ Cardinality(Calling) <= AtOnce
    /\ pc \in {"rounds", "error", "gone", "notes"} =>
           \A i \in DOMAIN task : task[i] \notin {"queued", "calling"}

=============================================================================

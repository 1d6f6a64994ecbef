------------------------------ MODULE Thinking ------------------------------
(***************************************************************************)
(* The thinking mode (src/thinking.py): the experts that the hub names are *)
(* screened in parallel by what they own, those that pass are asked, each  *)
(* for itself and so many at once, and answer, pass on or fail; one hop    *)
(* further those are summoned to whom the passing ones referred.  The      *)
(* stream may break off by an error or be left by the client at any time.  *)
(*                                                                         *)
(* An expert is a seat with its domain.  What it says is a verdict and,    *)
(* for a pass, the fields it refers to; prompts, documents, pictures and   *)
(* the session's history are left out.                                     *)
(***************************************************************************)
EXTENDS Naturals, Sequences, FiniteSets, SequencesExt

CONSTANTS
    Seats, Domains,
    DomainOf,       \* of a seat
    Phrases,        \* the fields that a passing seat may refer to
    MaxAnswers,     \* THINK_MAX_ANSWERS
    Hops,           \* THINK_HOPS
    Concurrency,    \* THINK_CONCURRENCY
    ReferMax

ASSUME ThinkingAssumption ==
    /\ IsFiniteSet(Seats) /\ DomainOf \in [Seats -> Domains]
    /\ MaxAnswers \in Nat \ {0} /\ Hops \in Nat
    /\ Concurrency \in Nat \ {0} /\ ReferMax \in Nat \ {0}

VARIABLES
    pc,         \* "summon" | "screen" | "judge" | "next" | "result" | "error"
                \* | "none" (nobody found) | "left"
    hop,
    roster,     \* the seats summoned for the hop, by rank
    seen,       \* seen_keys
    lists,      \* answered, passed, screened_out, errored, capped: in order
    task,       \* of each seat, its call of this hop: "none" | "queued" | "calling"
                \* | "read" (its verdict is there) | "over" | "cancelled"
    verdict,    \* of each seat, once it is read
    refer,      \* of each seat that passed
    calls,      \* how often each seat's model was called
    shown       \* what the stream showed: the lists of the last result

vars == <<pc, hop, roster, seen, lists, task, verdict, refer, calls, shown>>

Names == {"answered", "passed", "screened_out", "errored", "capped"}
NoLists == [n \in Names |-> <<>>]
NoTask == [s \in Seats |-> "none"]

In(n) == ToSet(lists[n])
Take(q, n) == SubSeq(q, 1, IF Len(q) < n THEN Len(q) ELSE n)
Drop(q, n) == SubSeq(q, n + 1, Len(q))

\* Those of the seats q that are in S, in the order of q.
Those(q, S) ==
    LET kept[i \in 0..Len(q)] ==
            IF i = 0 THEN <<>>
            ELSE IF q[i] \in S THEN Append(kept[i - 1], q[i]) ELSE kept[i - 1]
    IN  kept[Len(q)]

\* The calls that hold a place of the semaphore.
Calling == {s \in Seats : task[s] = "calling"}

-----------------------------------------------------------------------------
\* The rankings that the hub may give: keys of its own choice, none of them
\* summoned before (_summon).
Rankings(S) == SetToAllKPermutations(S) \ {<<>>}

Fresh == Seats \ seen

\* A hop begins with its roster.
StartHop(q, n) ==
    /\ pc' = "screen" /\ hop' = n /\ roster' = q
    /\ seen' = seen \cup ToSet(q)
    /\ task' = NoTask
    /\ UNCHANGED <<lists, verdict, refer, calls, shown>>

Summon ==
    /\ pc = "summon"
    /\ \E q \in Rankings(Seats) : StartHop(q, 0)

NobodyFound ==
    /\ pc = "summon"
    /\ pc' = "none"
    /\ UNCHANGED <<hop, roster, seen, lists, task, verdict, refer, calls, shown>>

\* Mutant: who is beyond the limit is not written down.
CutSilently(q) == <<>>

BeyondLimit(q) == Drop(q, MaxAnswers)

\* The screening of all seats, in parallel, is awaited as a whole: those
\* without evidence and without the words drop out, the first ones of the
\* others are asked.
Screen ==
    /\ pc = "screen"
    /\ \E out \in SUBSET ToSet(roster) :
        LET dropped == Those(roster, out)
            live == Those(roster, Seats \ out)
        IN
        /\ lists' = [lists EXCEPT !["screened_out"] = @ \o dropped, !["capped"] = @ \o BeyondLimit(live)]
        /\ task' = [s \in Seats |-> IF s \in ToSet(Take(live, MaxAnswers)) THEN "queued" ELSE "none"]
        /\ pc' = IF live = <<>> THEN "next" ELSE "judge"
    /\ UNCHANGED <<hop, roster, seen, verdict, refer, calls, shown>>

-----------------------------------------------------------------------------
(* The seats' calls.                                                       *)

\* With one of the places of the semaphore.
Call(s) ==
    /\ task[s] = "queued" /\ Cardinality(Calling) < Concurrency
    /\ task' = [task EXCEPT ![s] = "calling"]
    /\ calls' = [calls EXCEPT ![s] = @ + 1]
    /\ UNCHANGED <<pc, hop, roster, seen, lists, verdict, refer, shown>>

\* An answer, a pass with the fields it refers to, or an error: a failure, a
\* timeout or a text that is neither.
Answer(s) ==
    /\ task[s] = "calling"
    /\ \E v \in {"answered", "passed", "errored"}, r \in SUBSET Phrases :
        /\ v # "passed" => r = {}
        /\ task' = [task EXCEPT ![s] = "read"]
        /\ verdict' = [verdict EXCEPT ![s] = v]
        /\ refer' = [refer EXCEPT ![s] = r]
    /\ UNCHANGED <<pc, hop, roster, seen, lists, calls, shown>>

\* The stream takes the verdicts in the order in which they come.
Read(s) ==
    /\ pc = "judge" /\ task[s] = "read"
    /\ task' = [task EXCEPT ![s] = "over"]
    /\ lists' = [lists EXCEPT ![verdict[s]] = Append(@, s)]
    /\ UNCHANGED <<pc, hop, roster, seen, verdict, refer, calls, shown>>

AllRead ==
    /\ pc = "judge" /\ \A s \in Seats : task[s] \in {"none", "over"}
    /\ pc' = "next"
    /\ UNCHANGED <<hop, roster, seen, lists, task, verdict, refer, calls, shown>>

-----------------------------------------------------------------------------
(* The next hop, and the end.                                              *)

Referred == UNION {refer[s] : s \in In("passed")}

HopFollows == hop < Hops /\ Len(lists["answered"]) < MaxAnswers /\ Referred # {}

SeenDomains == {DomainOf[s] : s \in In("answered") \cup In("passed") \cup In("screened_out")}

\* For each of the first fields one seat of a domain not heard yet.
Founds ==
    {q \in Rankings({s \in Fresh : DomainOf[s] \notin SeenDomains}) :
        /\ Len(q) <= ReferMax /\ Len(q) <= Cardinality(Referred)
        /\ \A i, j \in DOMAIN q : i # j => DomainOf[q[i]] # DomainOf[q[j]]}

Handoff ==
    /\ pc = "next" /\ HopFollows
    /\ \E q \in Founds : StartHop(q, hop + 1)

\* No hop follows, or the hub has nobody for it: the result of all lists.
Result ==
    /\ pc = "next"
    /\ pc' = "result" /\ shown' = lists
    /\ UNCHANGED <<hop, roster, seen, lists, task, verdict, refer, calls>>

\* Mutant: the calls under way go on.
LeavesCalls == task

\* The round's finally: what is not done is cancelled.
CancelsCalls == [s \in Seats |-> IF task[s] \in {"queued", "calling"} THEN "cancelled" ELSE task[s]]

PartialResult == lists["answered"] # <<>> \/ lists["passed"] # <<>>

\* An exception in any step: what was heard so far is the result.
Break ==
    /\ pc \in {"summon", "screen", "judge", "next"}
    /\ task' = CancelsCalls
    /\ IF PartialResult THEN pc' = "result" /\ shown' = lists
                        ELSE pc' = "error" /\ UNCHANGED shown
    /\ UNCHANGED <<hop, roster, seen, lists, verdict, refer, calls>>

\* The client leaves.
Leave ==
    /\ pc \in {"summon", "screen", "judge", "next"}
    /\ pc' = "left" /\ task' = CancelsCalls
    /\ UNCHANGED <<hop, roster, seen, lists, verdict, refer, calls, shown>>

-----------------------------------------------------------------------------
Init ==
    /\ pc = "summon" /\ hop = 0 /\ roster = <<>> /\ seen = {}
    /\ lists = NoLists /\ shown = NoLists
    /\ task = NoTask /\ verdict = NoTask
    /\ refer = [s \in Seats |-> {}] /\ calls = [s \in Seats |-> 0]

Stream == Summon \/ NobodyFound \/ Screen \/ AllRead \/ Handoff \/ Result \/ \E s \in Seats : Read(s)

Next ==
    \/ Stream
    \/ \E s \in Seats : Call(s) \/ Answer(s)
    \/ Break \/ Leave

Spec == Init /\ [][Next]_vars

\* The stream is read on; a call ends by the seat's timeout.
LiveSpec ==
    /\ Spec /\ WF_vars(Stream)
    /\ WF_vars(\E s \in Seats : Call(s) \/ Answer(s))

-----------------------------------------------------------------------------
(* Properties.                                                             *)

Over == pc \in {"result", "error", "none", "left"}

\* Everyone who was summoned is in exactly one list, once: asked with its
\* verdict, screened out, or not asked for the limit - nobody is lost without
\* a word, and nobody who was not asked counts as having passed.
EverySeatAccounted ==
    LET all == lists["answered"] \o lists["passed"] \o lists["errored"]
                 \o lists["screened_out"] \o lists["capped"]
    IN
    /\ IsInjective(all)
    /\ pc = "next" => ToSet(all) = seen
    /\ In("answered") \cup In("passed") \cup In("errored") = {s \in Seats : calls[s] = 1 /\ s \in ToSet(all)}

\* However many hops, nobody is asked twice, and so many are at most.
AskedOnce == Cardinality(Calling) <= Concurrency /\ \A s \in Seats : calls[s] <= 1

\* Once the stream is over, no call goes on, and none begins.
NoCallLeft == Over => \A s \in Seats : task[s] \notin {"queued", "calling"}

\* An answer that was heard reaches the user, also when an error ends the
\* stream.
HeardIsShown ==
    [][pc' \in {"result", "error"} => ToSet(shown'["answered"]) = ToSet(lists["answered"])]_vars

\* Of a consultation: every seat that was summoned is in one of the lists,
\* once, none is asked twice, and no call is left behind (run_thinking).
ConsultationIsWhole == EverySeatAccounted /\ AskedOnce /\ NoCallLeft
=============================================================================

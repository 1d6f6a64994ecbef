----------------------------- MODULE SeatLookups -----------------------------
(***************************************************************************)
(* The lookups of a deliberation (src/deliberation.py): the tools the user *)
(* designated, called one after another by the engine, and before a round  *)
(* the seats' own lookups, in parallel.  The seats share a cache of calls  *)
(* (_wrap_cached) and both share the gate to the external backends         *)
(* (_ConnGate): so many calls at once, and none after the backend said     *)
(* that there were too many (429) or that the owner is not registered.     *)
(*                                                                         *)
(* A call is its key, the tool with its arguments; of its result there is  *)
(* whether it can be used.  What the seats say, and the journal of the     *)
(* lookups, are DelibEngine's.                                             *)
(***************************************************************************)
EXTENDS Naturals, Sequences, FiniteSets, SequencesExt

CONSTANTS
    Seats, Keys, Backends,
    BackendOf,      \* the external backend that answers a key (other tools pass
                    \* no gate and are left out)
    Designated,     \* the keys of the designated tools, lists first
    AtOnce,         \* DELIB_CONN_CONCURRENCY
    Budget,         \* tool_budget: calls of a seat in a round
    Rounds,         \* rounds with lookups
    MaxTurns,       \* bound: turns of the library's agent (recursion_limit)
    MaxRaises,      \* bound: calls that raise
    None

ASSUME LookupsAssumption ==
    /\ AtOnce \in Nat \ {0} /\ Budget \in Nat \ {0} /\ Rounds \in Nat
    /\ MaxTurns \in 1..(Budget + 2)
    /\ BackendOf \in [Keys -> Backends] /\ None \notin Seats
    /\ Designated \in Seq(Keys) /\ IsFiniteSet(Keys)

VARIABLES
    ext,        \* the seats are answered for by the external responder
    pc,         \* "designated" | "round" | "between" | "over"
    todo,       \* the designated tools still to be called, attempts of the first
    round,
    futs,       \* of each key, its calls: "queued" | "called" | "ok" | "fail" | "raised"
    cache,      \* of each key, the call in the cache, 0 for none
    line,       \* the calls that wait for a place at a backend
    limited, noconn,    \* backends that are not called any more
    told,       \* <<code, backend>> that count as told
    notices,    \* the warnings sent, in order
    seat,       \* of each seat [at, turn, used, turnOf, have]
    owner,      \* of each key, the seat whose coroutine awaits the call that it
                \* put in the cache, or None
    pool        \* the evidence all seats see

lookVars == <<futs, cache, line, limited, noconn>>
vars == <<ext, pc, todo, round, lookVars, told, notices, seat, owner, pool>>

Idle == [at |-> "done", turn |-> 0, used |-> 0, turnOf |-> <<>>, have |-> <<>>]
Asking == [Idle EXCEPT !.at = "asking"]

Over == {"ok", "fail", "raised"}

Closed(b) == b \in limited \cup noconn

\* The closings by code.
ClosingsOf(lim, noc) == ({"conn_rate_limited"} \X lim) \cup ({"conn_unregistered"} \X noc)

Closings == ClosingsOf(limited, noconn)

InFlight(b) == {k \in Keys : BackendOf[k] = b /\ \E n \in DOMAIN futs[k] : futs[k][n] = "called"}

\* A call's answer: one can be used, or a text that says why not, a backend's
\* limit and a missing registration among them.
Limited(k, how) == IF how = "429" THEN limited \cup {BackendOf[k]} ELSE limited
Noconn(k, how) == IF how = "401" THEN noconn \cup {BackendOf[k]} ELSE noconn

Marks(k, how) == limited' = Limited(k, how) /\ noconn' = Noconn(k, how)

Hows == {"ok", "fail", "429", "401"}

-----------------------------------------------------------------------------
(* The designated tools.                                                   *)

\* Once the last is through, what was closed is told.
TellsDesignated(lim, noc) == told \cup ClosingsOf(lim, noc)

\* lim, noc: the backends closed after this tool.
NextTool(lim, noc) ==
    IF Len(todo.keys) > 1
    THEN todo' = [keys |-> Tail(todo.keys), tries |-> 0] /\ UNCHANGED <<pc, told, notices>>
    ELSE /\ todo' = [keys |-> <<>>, tries |-> 0] /\ pc' = "between"
         /\ told' = TellsDesignated(lim, noc)
         /\ notices' = notices \o SetToSeq(ClosingsOf(lim, noc))

\* The planner gives no arguments, or the backend is closed: not called.
SkipTool ==
    /\ pc = "designated" /\ todo.keys # <<>>
    /\ NextTool(limited, noconn)
    /\ UNCHANGED <<ext, round, lookVars, seat, owner, pool>>

\* The call and its answer: a failure that is not the backend's is tried once
\* more with other arguments.
CallTool ==
    \E how \in Hows :
        LET k == Head(todo.keys) IN
        /\ pc = "designated" /\ todo.keys # <<>>
        /\ ~Closed(BackendOf[k])
        /\ Marks(k, how)
        /\ IF how = "fail" /\ todo.tries = 0
           THEN todo' = [todo EXCEPT !.tries = 1] /\ UNCHANGED <<pc, told, notices>>
           ELSE NextTool(Limited(k, how), Noconn(k, how))
        /\ UNCHANGED <<ext, round, futs, cache, line, seat, owner, pool>>

-----------------------------------------------------------------------------
(* A seat's lookup (_free_gather_one, _TextReactAgent).                     *)

StartRound ==
    /\ pc = "between" /\ round < Rounds
    /\ pc' = "round" /\ round' = round + 1
    /\ seat' = [s \in Seats |-> Asking]
    /\ UNCHANGED <<ext, todo, lookVars, told, notices, owner, pool>>

\* Mutant: only a result is found in the cache, not a call under way.
KeptResult(k) == cache[k] # 0 /\ futs[k][cache[k]] \in Over

Kept(k) == cache[k] # 0

\* The call that a coroutine of the seat awaits: that of the cache or a new one.
FutOf(k) == IF Kept(k) THEN cache[k] ELSE Len(futs[k]) + 1

\* The calls of one turn start together, in the order in which they are asked;
\* the ones that are not in the cache are made.
Made(q) == {k \in ToSet(q) : ~Kept(k)}

Starts(s, q) ==
    /\ futs' = [k \in Keys |-> IF k \in Made(q) THEN Append(futs[k], "queued") ELSE futs[k]]
    /\ cache' = [k \in Keys |-> IF k \in Made(q) THEN Len(futs[k]) + 1 ELSE cache[k]]
    /\ line' = [b \in Backends |->
                   LET new == SelectSeq(q, LAMBDA k : k \in Made(q) /\ BackendOf[k] = b)
                   IN line[b] \o [i \in 1..Len(new) |-> <<new[i], FutOf(new[i])>>]]
    /\ owner' = [k \in Keys |-> IF k \in Made(q) THEN s ELSE owner[k]]
    /\ seat' = [seat EXCEPT ![s].at = "waiting", ![s].turn = @ + 1,
                            ![s].used = IF ext THEN @ + Len(q) ELSE @,
                            ![s].turnOf = [i \in DOMAIN q |-> <<q[i], FutOf(q[i])>>]]
    /\ UNCHANGED <<limited, noconn>>

\* _read: the lines beyond the budget are not run.
Fits(s, q) == seat[s].used + Len(q) <= Budget

\* The turns a lookup may take: by the loop of the text agent, by the
\* recursion limit of the other.
LastTurn(s) == IF ext THEN seat[s].turn >= Budget \/ seat[s].used >= Budget
               ELSE seat[s].turn >= MaxTurns

\* The model asks for tools; of an external responder's lines those that name
\* a tool of the list and are within the budget are run.
Ask(s) ==
    \E q \in SetToAllKPermutations(Keys) \ {<<>>} :
        /\ pc = "round" /\ seat[s].at = "asking" /\ ~LastTurn(s)
        /\ ext => Fits(s, q)
        /\ Starts(s, q)
        /\ UNCHANGED <<ext, pc, todo, round, told, notices, pool>>

\* No line of the answer could be run: told so, the responder is asked again.
Unread(s) ==
    /\ pc = "round" /\ seat[s].at = "asking" /\ ext /\ ~LastTurn(s)
    /\ seat' = [seat EXCEPT ![s].turn = @ + 1]
    /\ UNCHANGED <<ext, pc, todo, round, lookVars, told, notices, owner, pool>>

StateOf(f) == futs[f[1]][f[2]]

\* The results that are shown and shared.
Shares(s) ==
    pool' = pool \cup {f \in ToSet(seat[s].have) : StateOf(f) = "ok"}

Finishes(s) ==
    /\ Shares(s)
    /\ seat' = [seat EXCEPT ![s].at = "done", ![s].turnOf = <<>>]

\* The model has no call to make any more, or none is run in the last turn.
Summary(s) ==
    /\ pc = "round" /\ seat[s].at = "asking"
    /\ Finishes(s)
    /\ UNCHANGED <<ext, pc, todo, round, lookVars, told, notices, owner>>

\* The model's call fails, or the recursion limit is met: what was received
\* before stays.
BreaksOff(s) ==
    /\ pc = "round" /\ seat[s].at = "asking"
    /\ Finishes(s)
    /\ UNCHANGED <<ext, pc, todo, round, lookVars, told, notices, owner>>

-----------------------------------------------------------------------------
(* The calls.                                                              *)

\* Mutant: whether it is closed is not asked again after the wait.
BeginsAnyway(b) == "called"

\* At the head of the line with a place free.
Begins(b) == IF Closed(b) THEN "fail" ELSE "called"

HasPlace(b) == Cardinality(InFlight(b)) < AtOnce

\* The call passes the gate: it is made, or refused with a text.
Pass(k) ==
    \E n \in DOMAIN futs[k] :
        LET b == BackendOf[k] IN
        /\ futs[k][n] = "queued"
        /\ line[b] # <<>> /\ Head(line[b]) = <<k, n>> /\ HasPlace(b)
        /\ futs' = [futs EXCEPT ![k][n] = Begins(b)]
        /\ line' = [line EXCEPT ![b] = Tail(@)]
        /\ UNCHANGED <<ext, pc, todo, round, cache, limited, noconn, told, notices, seat, owner, pool>>

\* The backend answers.
Return(k) ==
    \E n \in DOMAIN futs[k], how \in Hows :
        /\ futs[k][n] = "called"
        /\ futs' = [futs EXCEPT ![k][n] = IF how = "ok" THEN "ok" ELSE "fail"]
        /\ Marks(k, how)
        /\ UNCHANGED <<ext, pc, todo, round, cache, line, told, notices, seat, owner, pool>>

Raise(k) ==
    \E n \in DOMAIN futs[k] :
        /\ futs[k][n] = "called"
        /\ Cardinality({f \in Keys \X (1..MaxRaises) :
                            f[2] \in DOMAIN futs[f[1]] /\ StateOf(f) = "raised"}) < MaxRaises
        /\ futs' = [futs EXCEPT ![k][n] = "raised"]
        /\ UNCHANGED <<ext, pc, todo, round, cache, line, limited, noconn, told, notices, seat, owner, pool>>

Cached(k) == StateOf(<<k, cache[k]>>)

\* Only a call that raised is taken out of the cache.
Forgets(k) == Cached(k) = "raised"

\* The coroutine that made the call goes on: it alone takes its failure out of
\* the cache, and until then others still find it there.
Resume(s) ==
    \E k \in Keys :
        /\ owner[k] = s /\ Cached(k) \in Over
        /\ owner' = [owner EXCEPT ![k] = None]
        /\ cache' = IF Forgets(k) THEN [cache EXCEPT ![k] = 0] ELSE cache
        /\ UNCHANGED <<ext, pc, todo, round, futs, line, limited, noconn, told, notices, seat, pool>>

AllHere(s) ==
    /\ pc = "round" /\ seat[s].at = "waiting"
    /\ \A f \in ToSet(seat[s].turnOf) : StateOf(f) \in Over
    /\ \A k \in Keys : owner[k] # s

\* What is shown of a seat's calls: the first Budget (the text agent has no more).
FirstOf(q) == SubSeq(q, 1, IF Len(q) < Budget THEN Len(q) ELSE Budget)

\* All answers of the turn are there: the next turn has them, an error as a text.
Received(s) ==
    /\ AllHere(s)
    /\ seat' = [seat EXCEPT ![s].at = "asking", ![s].turnOf = <<>>,
                            ![s].have = FirstOf(@ \o seat[s].turnOf)]
    /\ UNCHANGED <<ext, pc, todo, round, lookVars, told, notices, owner, pool>>

\* Or the library's tool node breaks off with the error: the turn is lost.
TurnLost(s) ==
    /\ AllHere(s) /\ ~ext
    /\ \E f \in ToSet(seat[s].turnOf) : StateOf(f) = "raised"
    /\ Finishes(s)
    /\ UNCHANGED <<ext, pc, todo, round, lookVars, told, notices, owner>>

\* fresh
Fresh == Closings \ told

\* All seats are through: what was closed since is told.
EndRound ==
    /\ pc = "round" /\ \A s \in Seats : seat[s].at = "done"
    /\ pc' = IF round < Rounds THEN "between" ELSE "over"
    /\ notices' = notices \o SetToSeq(Fresh)
    /\ told' = told \cup Fresh
    /\ seat' = [s \in Seats |-> Idle]
    /\ UNCHANGED <<ext, todo, round, lookVars, owner, pool>>

\* The deliberation is cancelled: its coroutines with it, the calls they
\* shared are not (shield).
Leave ==
    /\ pc # "over"
    /\ pc' = "over"
    /\ owner' = [k \in Keys |-> None]
    /\ seat' = [s \in Seats |-> Idle]
    /\ UNCHANGED <<ext, todo, round, lookVars, told, notices, pool>>

-----------------------------------------------------------------------------
Init ==
    /\ ext \in BOOLEAN
    /\ pc = IF Designated = <<>> THEN "between" ELSE "designated"
    /\ todo = [keys |-> Designated, tries |-> 0]
    /\ round = 0
    /\ futs = [k \in Keys |-> <<>>] /\ cache = [k \in Keys |-> 0]
    /\ line = [b \in Backends |-> <<>>]
    /\ limited = {} /\ noconn = {} /\ told = {} /\ notices = <<>>
    /\ seat = [s \in Seats |-> Idle] /\ owner = [k \in Keys |-> None] /\ pool = {}

SeatStep(s) ==
    Ask(s) \/ Unread(s) \/ Summary(s) \/ BreaksOff(s) \/ Resume(s) \/ Received(s) \/ TurnLost(s)

CallStep(k) == Pass(k) \/ Return(k) \/ Raise(k)

Engine == SkipTool \/ CallTool \/ StartRound \/ EndRound

Next ==
    \/ Engine
    \/ \E s \in Seats : SeatStep(s)
    \/ \E k \in Keys : CallStep(k)
    \/ Leave

Spec == Init /\ [][Next]_vars

\* The engine goes on, models and tools answer or fail by their own limits.
LiveSpec ==
    /\ Spec /\ WF_vars(Engine)
    /\ \A s \in Seats : WF_vars(SeatStep(s))
    /\ \A k \in Keys : WF_vars(CallStep(k))

-----------------------------------------------------------------------------
(* Properties.                                                             *)

\* Seats that look up the same thing share one call, also while it is under
\* way: only a call that raised is made again.
SharedCall ==
    \A k \in Keys : Cardinality({n \in DOMAIN futs[k] : futs[k][n] # "raised"}) <= 1

\* A backend gets at most so many calls at once, and none begins once it has
\* refused one of the job, the calls that were already in line included.
Began(b) == {k \in Keys : BackendOf[k] = b /\
                \E n \in DOMAIN futs'[k] : futs'[k][n] = "called" /\ futs[k][n] # "called"}

GateHolds ==
    [][\A b \in Backends : Began(b) # {} =>
          ~Closed(b) /\ Cardinality(InFlight(b)') <= AtOnce]_vars

\* Each backend that was closed is told once and for all rounds, by the end of
\* the round in which it was closed at the latest.
ToldOnce ==
    /\ IsInjective(notices)
    /\ pc = "between" => Closings \subseteq ToSet(notices)

\* What a seat was given in time is seen by all, although its lookup breaks off
\* later; a failure is never shown as evidence.  The budget holds over turns.
EvidenceIsKept ==
    /\ \A s \in Seats : pc = "round" /\ seat[s].at = "done" =>
          \A f \in ToSet(seat[s].have) : StateOf(f) = "ok" => f \in pool
    /\ \A f \in pool : StateOf(f) = "ok"
    /\ ext => \A s \in Seats : seat[s].used <= Budget

\* However the calls end, the lookups of a deliberation come to an end.
LookupsEnd == <>(pc = "over")

\* Seats share one call, are told of a failing backend once, and keep what
\* was found: the evidence of a lookup is neither lost nor made twice.
LookupsAreShared == SharedCall /\ ToldOnce /\ EvidenceIsKept
=============================================================================

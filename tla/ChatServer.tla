----------------------------- MODULE ChatServer -----------------------------
(***************************************************************************)
(* Requests to POST /chat (app.py): chat turns, whose tool calls pass the  *)
(* confirmation gate, wait in code for jobs (status_wait.py) and end with  *)
(* a card that asks for the calls held back; and web deliberations, which  *)
(* run detached from their stream and can be cancelled.  Requests of the   *)
(* same conversation run side by side (two tabs, a repeated send).         *)
(*                                                                         *)
(* A call is a tool with its arguments; what a model answers, what a tool  *)
(* returns and when the client goes away are free choices.                 *)
(***************************************************************************)
EXTENDS Naturals, Sequences, FiniteSets

CONSTANTS Reqs,         \* requests
          Convs,        \* conversations
          Calls,        \* tool calls that a model can make
          Kind,         \* of each call: "job", "confirm", "status"
          Earlier,      \* sequences of the cards that earlier turns left
          ConfirmMax,   \* _CONFIRM_MAX: cards kept
          MaxCards,     \* bound: cards made
          MaxAtOnce,    \* bound: calls that a model makes at once
          MaxRounds,    \* AGENT_RECURSION_LIMIT: rounds of tool calls
          AutoRetry,    \* CHAT_AUTO_RETRY
          WaitMax,      \* CHAT_STATUS_WAIT_MAX_S
          MaxStages     \* bound: stages of a web deliberation

ASSUME ChatAssumption ==
    /\ Kind \in [Calls -> {"job", "confirm", "status"}]
    /\ ConfirmMax \in Nat \ {0} /\ MaxCards \in Nat /\ MaxRounds \in Nat \ {0}
    /\ AutoRetry \in Nat /\ WaitMax \in Nat \ {0} /\ MaxStages \in Nat \ {0}

\* A card: the calls it asks for, whether it is still to be answered, is out of
\* date, and what it was answered.
CardOf == [conv : Convs, calls : SUBSET Calls, pat : BOOLEAN, held : BOOLEAN,
           late : BOOLEAN, answer : {"", "approve", "decline"}]

\* What earlier turns left: one card of a conversation to answer, at most.
ASSUME EarlierAssumption ==
    \A s \in Earlier :
        LET held == {i \in 1..Len(s) : s[i].held}
        IN /\ s \in Seq(CardOf) /\ Len(s) <= MaxCards /\ Cardinality(held) <= ConfirmMax
           /\ \A i \in held : s[i].answer = ""
           /\ \A i, j \in held : s[i].conv = s[j].conv => i = j

VARIABLES cards,    \* _CONFIRM_PENDING with its past: the cards in order
          turn,     \* chat turns: the generator and its _ConfirmCtx
          byCard,   \* history: calls sent on each card's approval
          byOrder,  \* history: calls sent on each turn's own words
          run       \* web deliberations: _WEB_RUNS, task, queue

chatvars == <<cards, turn, byCard, byOrder>>
vars == <<cards, turn, byCard, byOrder, run>>

Card == 1..MaxCards
Gated(c) == Kind[c] # "status"

-----------------------------------------------------------------------------
(* Cards.                                                                   *)

Held == {i \in 1..Len(cards) : cards[i].held}
Matches(i, conv) == i \in Held /\ cards[i].conv = conv
Gone(S) == [i \in 1..Len(cards) |-> IF i \in S THEN [cards[i] EXCEPT !.held = FALSE]
                                    ELSE cards[i]]

\* a new card replaces the ones of its conversation and those out of date,
\* and the oldest ones when there are too many
Stored(conv, calls, pat) ==
    LET keep == {i \in Held : cards[i].conv # conv /\ ~cards[i].late}
        over == {i \in keep : Cardinality({j \in keep : j >= i}) >= ConfirmMax}
    IN Append(Gone(Held \ (keep \ over)),
              [conv |-> conv, calls |-> calls, pat |-> pat, held |-> TRUE,
               late |-> FALSE, answer |-> ""])

Expire(i) ==
    /\ i \in Held /\ ~cards[i].late
    /\ cards' = [cards EXCEPT ![i].late = TRUE]
    /\ UNCHANGED <<turn, byCard, byOrder, run>>

-----------------------------------------------------------------------------
(* A chat turn begins.                                                      *)

Turn(conv, pat) ==
    [at |-> "persona", conv |-> conv, pat |-> pat, order |-> FALSE, from |-> 0,
     noPat |-> FALSE, approved |-> {}, todo |-> {}, used |-> {}, rejected |-> {},
     pending |-> {}, hold |-> FALSE, toCall |-> {}, flight |-> {}, left |-> [c \in Calls |-> 0],
     spent |-> 0, mode |-> "stream", rounds |-> 0, tries |-> 0, partial |-> FALSE,
     card |-> 0, final |-> "draft"]
Idle == [Turn(0, FALSE) EXCEPT !.at = "idle"]

\* words that are no answer to a card drop the conversation's card
Say(p, conv, pat, order) ==
    /\ turn[p].at = "idle" /\ run[p].task = "idle"
    /\ turn' = [turn EXCEPT ![p] = [Turn(conv, pat) EXCEPT !.order = order]]
    /\ cards' = Gone({i \in Held : cards[i].conv = conv})
    /\ UNCHANGED <<byCard, byOrder, run>>

\* mutant: the card stays for the next answer
ReplyLeavesCard(p, conv, pat, i, verdict) ==
    /\ turn[p].at = "idle" /\ run[p].task = "idle"
    /\ i \in 1..Len(cards)
    /\ LET mine == Matches(i, conv)
           good == mine /\ ~cards[i].late
           yes == good /\ verdict = "approve"
       IN /\ cards' = IF mine THEN [cards EXCEPT ![i].held = TRUE,
                                       ![i].answer = IF good THEN verdict ELSE @]
                      ELSE cards
          /\ turn' = [turn EXCEPT ![p] = [Turn(conv, pat) EXCEPT
                !.from = IF yes THEN i ELSE 0,
                !.approved = IF yes THEN cards[i].calls ELSE {},
                !.noPat = yes /\ cards[i].pat /\ ~pat]]
    /\ UNCHANGED <<byCard, byOrder, run>>

\* an answer takes the card, once, if it is this conversation's and in time
Reply(p, conv, pat, i, verdict) ==
    /\ turn[p].at = "idle" /\ run[p].task = "idle"
    /\ i \in 1..Len(cards)
    /\ LET mine == Matches(i, conv)
           good == mine /\ ~cards[i].late
           yes == good /\ verdict = "approve"
       IN /\ cards' = IF mine THEN [cards EXCEPT ![i].held = FALSE,
                                       ![i].answer = IF good THEN verdict ELSE @]
                      ELSE cards
          /\ turn' = [turn EXCEPT ![p] = [Turn(conv, pat) EXCEPT
                !.from = IF yes THEN i ELSE 0,
                !.approved = IF yes THEN cards[i].calls ELSE {},
                !.noPat = yes /\ cards[i].pat /\ ~pat]]
    /\ UNCHANGED <<byCard, byOrder, run>>

T(p) == turn[p]
\* of a turn that is over, what its end says is kept
Kept(t) ==
    IF t.at \notin {"out", "gone"} THEN t
    ELSE IF t.at = "gone" THEN [Idle EXCEPT !.at = "gone", !.order = t.order]
    ELSE [Idle EXCEPT !.at = "out", !.order = t.order, !.pending = t.pending,
                      !.card = t.card, !.final = t.final, !.from = t.from]
Set(p, t) == turn' = [turn EXCEPT ![p] = Kept(t)]
Only(p, t) == Set(p, t) /\ UNCHANGED <<cards, byCard, byOrder, run>>

\* persona, helpers and the agent with its tools
Persona(p) ==
    /\ T(p).at = "persona"
    /\ Only(p, [T(p) EXCEPT !.at = "brief"])

\* knowledge cards, history, documents and pictures
Brief(p) ==
    /\ T(p).at = "brief"
    /\ Only(p, [T(p) EXCEPT !.at = IF T(p).approved = {} THEN "agent" ELSE "approve"])

-----------------------------------------------------------------------------
(* The calls of an approved card are sent before the agent starts.          *)

\* calls that cannot be sent go back to a card at the end of the turn: all
\* without the user's token or without tools, those whose application moved
Approve(p) ==
    /\ T(p).at = "approve"
    /\ \E back \in SUBSET T(p).approved :
         /\ T(p).noPat => back = T(p).approved
         /\ Only(p, [T(p) EXCEPT !.at = "sending", !.todo = T(p).approved \ back,
                       !.approved = @ \ back, !.pending = @ \union back])

\* the gate lets an approved call pass once
Send(p, c) ==
    /\ T(p).at = "sending" /\ T(p).flight = {} /\ c \in T(p).todo
    /\ Set(p, [T(p) EXCEPT !.flight = {c}, !.todo = @ \ {c}, !.used = @ \union {c}])
    /\ byCard' = [byCard EXCEPT ![T(p).from][c] = @ + 1]
    /\ UNCHANGED <<cards, byOrder, run>>

SendsDone(p) ==
    /\ T(p).at = "sending" /\ T(p).flight = {} /\ T(p).todo = {}
    /\ Only(p, [T(p) EXCEPT !.at = "agent"])

-----------------------------------------------------------------------------
(* The agent.                                                               *)

\* the model is asked again: not in the stream once a call was held
ModelStops(p) ==
    /\ T(p).at = "agent" /\ T(p).mode = "stream" /\ T(p).hold
    /\ Only(p, [T(p) EXCEPT !.at = "post"])

Asked(p) == T(p).at = "agent" /\ ~(T(p).mode = "stream" /\ T(p).hold)

\* the model calls tools, several at once
ModelCalls(p, S) ==
    /\ Asked(p) /\ Cardinality(S) \in 1..MaxAtOnce /\ T(p).rounds < MaxRounds
    /\ Only(p, [T(p) EXCEPT !.at = "tools", !.toCall = S, !.rounds = @ + 1])

\* the model answers in words; an automatic retry that got an answer is over
ModelAnswers(p) ==
    /\ Asked(p)
    /\ Only(p, [T(p) EXCEPT
          !.at = IF T(p).mode = "retry"
                 THEN IF T(p).pending # {} THEN "card" ELSE "check" ELSE "post"])

\* the model or the graph fails, in the stream perhaps after some words; what
\* fails in a second run after the stream is passed over, and without an agent
\* there is nothing to run again
ModelFails(p) ==
    /\ T(p).at \in {"persona", "brief", "agent"} /\ (T(p).at = "agent" => Asked(p))
    /\ \E some \in BOOLEAN :
         /\ some => T(p).at = "agent" /\ T(p).mode = "stream"
         /\ Only(p, [T(p) EXCEPT !.partial = some,
                       !.at = IF T(p).at = "persona" THEN "out"
                              ELSE IF T(p).mode \in {"again", "direct"} THEN "post"
                              ELSE "error"])

\* mutant: words already said end the turn before the card
AfterErrorAnswers(p) ==
    /\ T(p).at = "error"
    /\ Only(p, [T(p) EXCEPT
          !.at = IF ~T(p).partial /\ T(p).pending # {} /\ (T(p).mode = "stream" \/ T(p).tries = AutoRetry)
                 THEN "card"
                 ELSE IF T(p).partial \/ T(p).tries = AutoRetry THEN "out" ELSE "agent",
          !.mode = "retry", !.tries = IF @ < AutoRetry THEN @ + 1 ELSE @, !.rounds = 0])

\* after an error: a card if calls were held, an answer broken off if there
\* were words, else the graph is run again without a stream
AfterError(p) ==
    /\ T(p).at = "error"
    /\ Only(p, [T(p) EXCEPT
          !.at = IF T(p).pending # {} /\ (T(p).mode = "stream" \/ T(p).tries = AutoRetry)
                 THEN "card"
                 ELSE IF T(p).partial \/ T(p).tries = AutoRetry THEN "out" ELSE "agent",
          !.mode = "retry", !.tries = IF @ < AutoRetry THEN @ + 1 ELSE @, !.rounds = 0])

\* the gate: a call whose credentials were refused is refused, one that was
\* approved or that the words of this turn order passes once, any other is
\* held for a card
Approved(p, c) == c \notin T(p).used \union T(p).rejected /\ c \in T(p).approved
Ordered(p, c) ==
    /\ c \notin T(p).used \union T(p).rejected \union T(p).approved
    /\ T(p).order /\ Kind[c] = "job"
ToolStart(p, c) ==
    /\ T(p).at = "tools" /\ c \in T(p).toCall /\ Gated(c)
    /\ LET t == [T(p) EXCEPT !.toCall = @ \ {c}]
           passed == [t EXCEPT !.flight = @ \union {c}, !.used = @ \union {c}]
       IN \/ /\ c \in t.rejected
             /\ Set(p, t) /\ UNCHANGED <<byCard, byOrder>>
          \/ /\ Approved(p, c) /\ Set(p, passed)
             /\ byCard' = [byCard EXCEPT ![t.from][c] = @ + 1] /\ UNCHANGED byOrder
          \/ /\ Ordered(p, c) /\ Set(p, passed)
             /\ byOrder' = [byOrder EXCEPT ![p][c] = @ + 1] /\ UNCHANGED byCard
          \/ /\ c \notin t.rejected /\ ~Approved(p, c) /\ ~Ordered(p, c)
             /\ Set(p, [t EXCEPT !.pending = @ \union {c}, !.hold = TRUE])
             /\ UNCHANGED <<byCard, byOrder>>
    /\ UNCHANGED <<cards, run>>

\* a call returns, is answered with an error, or with 401
ToolEnd(p, c) ==
    /\ c \in T(p).flight /\ Gated(c)
    /\ \E refused \in BOOLEAN :
         Only(p, [T(p) EXCEPT !.flight = @ \ {c},
                    !.rejected = IF refused THEN @ \union {c} ELSE @])

\* a status call finds the job running: the code waits, as long as the turn
\* has time left
WaitStart(p, c) ==
    /\ T(p).at = "tools" /\ c \in T(p).toCall /\ ~Gated(c)
    /\ Only(p, IF T(p).spent < WaitMax
               THEN [T(p) EXCEPT !.toCall = @ \ {c}, !.flight = @ \union {c},
                        !.left[c] = WaitMax - T(p).spent]
               ELSE [T(p) EXCEPT !.toCall = @ \ {c}])

\* it ends with the job, the limit, a failed poll, or a call held elsewhere
WaitEnd(p, c) ==
    /\ c \in T(p).flight /\ ~Gated(c)
    /\ \E took \in 0..T(p).left[c] :
         Only(p, [T(p) EXCEPT !.flight = @ \ {c}, !.spent = @ + took,
                    !.left[c] = 0])

ToolsDone(p) ==
    /\ T(p).at = "tools" /\ T(p).toCall = {} /\ T(p).flight = {}
    /\ Only(p, [T(p) EXCEPT !.at = "agent"])

-----------------------------------------------------------------------------
(* After the stream.                                                        *)

\* an answer that only announces a call, leaks one or leaves one out: the
\* graph runs once more, unless a call waits for a card
Again(p) ==
    /\ T(p).at = "post" /\ T(p).pending = {} /\ T(p).mode = "stream"
    /\ Only(p, [T(p) EXCEPT !.at = "agent", !.mode = "again", !.rounds = 0])

\* or the server makes the call itself, through the gate
Direct(p, c) ==
    /\ T(p).at = "post" /\ T(p).pending = {} /\ T(p).mode # "direct" /\ Gated(c)
    /\ Only(p, [T(p) EXCEPT !.at = "tools", !.toCall = {c}, !.mode = "direct",
                  !.rounds = MaxRounds])

PostDone(p) ==
    /\ T(p).at = "post"
    /\ Only(p, [T(p) EXCEPT !.at = IF T(p).pending = {} THEN "check" ELSE "card"])

\* the card, after a question for the expected work
CardMade(p) ==
    /\ T(p).at = "card" /\ Len(cards) < MaxCards
    /\ cards' = Stored(T(p).conv, T(p).pending, T(p).pat)
    /\ Set(p, [T(p) EXCEPT !.at = "check", !.card = Len(cards) + 1])
    /\ UNCHANGED <<byCard, byOrder, run>>

\* the self check may replace the answer, not one that ends with a card
SelfCheck(p) ==
    /\ T(p).at = "check"
    /\ \E final \in {"draft", "fixed"} :
         /\ T(p).card # 0 => final = "draft"
         /\ Only(p, [T(p) EXCEPT !.at = "out", !.final = final])

\* the client goes away: the task of the turn is cancelled at an await, with
\* its polls
ClientGoes(p) ==
    /\ T(p).at \notin {"idle", "out", "gone"}
    /\ Only(p, [T(p) EXCEPT !.at = "gone"])

-----------------------------------------------------------------------------
(* Web deliberations.  A client that goes away leaves the task running.     *)

NoRun == [task |-> "idle", state |-> "running", finishing |-> FALSE, error |-> FALSE,
          conv |-> 0, stage |-> 0, q |-> <<>>]
Q(p) == run[p]
RunIs(p, r) == run' = [run EXCEPT ![p] = r] /\ UNCHANGED chatvars
Frames(p) == {run[p].q[i] : i \in 1..Len(run[p].q)}
Put(r, fs) == [r EXCEPT !.q = @ \o fs]

Deliberate(p, conv) ==
    /\ turn[p].at = "idle" /\ run[p].task = "idle"
    /\ RunIs(p, [NoRun EXCEPT !.task = "runs", !.conv = conv, !.stage = 1])

\* the engine hands out the events of a stage: its end begins with "finishing"
\* and ends with the decision
Finishing(p) ==
    /\ Q(p).task = "runs" /\ ~Q(p).finishing /\ Q(p).stage <= MaxStages
    /\ RunIs(p, [Put(Q(p), <<"finishing">>) EXCEPT !.finishing = TRUE])

Decision(p) ==
    /\ Q(p).task = "runs" /\ Q(p).finishing
    /\ RunIs(p, [Put(Q(p), <<"decision">>) EXCEPT !.finishing = FALSE, !.stage = @ + 1])

\* the engine ends, with an error event or by an exception perhaps
EngineEnds(p) ==
    /\ Q(p).task = "runs"
    /\ \/ /\ Q(p).stage > 1 /\ ~Q(p).finishing
          /\ RunIs(p, [Put(Q(p), <<"done">>) EXCEPT !.task = "ended"])
       \/ RunIs(p, [Put(Q(p), <<"error">>) EXCEPT !.task = "ended", !.error = TRUE])

\* a cancelled task ends at its await; the server going down cancels all
CancelArrives(p) ==
    /\ Q(p).task = "cancel"
    /\ RunIs(p, [Q(p) EXCEPT !.task = "cancelled"])
Shutdown(p) ==
    /\ Q(p).task = "runs"
    /\ RunIs(p, [Q(p) EXCEPT !.task = "cancel"])

Closed(r) ==
    IF r.state \notin {"running", "cancelling"} THEN r
    ELSE [r EXCEPT !.state = IF @ = "cancelling" THEN "cancelled"
                             ELSE IF r.task = "cancelled" THEN "interrupted"
                             ELSE IF r.error THEN "error" ELSE "done"]

\* mutant: only a task that was not cancelled closes its stream
CallbackOfEnded(p) ==
    /\ Q(p).task = "ended" /\ "end" \notin Frames(p)
    /\ LET told == IF Q(p).state \in {"cancelling", "cancelled"}
                   THEN <<"stopped", "done", "end">> ELSE <<"end">>
       IN RunIs(p, Closed(Put(Q(p), told)))

\* the task's callback closes the record and the stream
Callback(p) ==
    /\ Q(p).task \in {"ended", "cancelled"} /\ "end" \notin Frames(p)
    /\ LET told == IF Q(p).state \in {"cancelling", "cancelled"}
                   THEN <<"stopped", "done", "end">> ELSE <<"end">>
       IN RunIs(p, Closed(Put(Q(p), told)))

\* mutant: a decision under way is stopped as well
StopAnyway(p) ==
    /\ Q(p).task # "idle"
    /\ IF Q(p).task \in {"ended", "cancelled"} THEN RunIs(p, Closed(Q(p)))
       ELSE /\ Q(p).state = "running"
            /\ RunIs(p, [Q(p) EXCEPT !.state = "cancelling", !.task = "cancel"])

\* a user stops the deliberation: a task that has ended is closed first, one
\* that is finishing is left alone, one already stopped is not stopped again
Stop(p) ==
    /\ Q(p).task # "idle"
    /\ IF Q(p).task \in {"ended", "cancelled"} THEN RunIs(p, Closed(Q(p)))
       ELSE /\ Q(p).state = "running" /\ ~Q(p).finishing
            /\ RunIs(p, [Q(p) EXCEPT !.state = "cancelling", !.task = "cancel"])

-----------------------------------------------------------------------------
Zero(S) == [x \in S |-> [c \in Calls |-> 0]]

\* an earlier turn may have left a card
Init ==
    /\ cards \in Earlier
    /\ turn = [p \in Reqs |-> Idle] /\ run = [p \in Reqs |-> NoRun]
    /\ byCard = Zero(Card) /\ byOrder = Zero(Reqs)

TurnStep(p) ==
    \/ Persona(p) \/ Brief(p) \/ Approve(p) \/ SendsDone(p)
    \/ \E c \in Calls : Send(p, c) \/ ToolEnd(p, c) \/ WaitEnd(p, c)
                       \/ ToolStart(p, c) \/ WaitStart(p, c) \/ Direct(p, c)
    \/ \E S \in SUBSET Calls : ModelCalls(p, S)
    \/ ModelStops(p) \/ ModelAnswers(p) \/ ModelFails(p) \/ AfterError(p)
    \/ ToolsDone(p) \/ Again(p) \/ PostDone(p) \/ CardMade(p) \/ SelfCheck(p)

RunStep(p) ==
    \/ Finishing(p) \/ Decision(p) \/ EngineEnds(p) \/ CancelArrives(p) \/ Callback(p)

Arrive(p) ==
    \E conv \in Convs :
        \/ Deliberate(p, conv)
        \/ \E pat \in BOOLEAN :
              \/ \E order \in BOOLEAN : Say(p, conv, pat, order)
              \/ \E i \in Card, v \in {"approve", "decline"} : Reply(p, conv, pat, i, v)

Next ==
    \/ \E p \in Reqs : TurnStep(p) \/ RunStep(p) \/ Arrive(p) \/ ClientGoes(p)
                       \/ Shutdown(p) \/ Stop(p)
    \/ \E i \in Card : Expire(i)

Spec == Init /\ [][Next]_vars

-----------------------------------------------------------------------------
TurnAt == {"idle", "persona", "brief", "approve", "sending", "agent", "tools", "error",
           "post", "card", "check", "out", "gone"}

Turns ==
    [at : TurnAt, conv : Convs \cup {0}, pat : BOOLEAN, order : BOOLEAN, from : 0..MaxCards,
     noPat : BOOLEAN, approved : SUBSET Calls, todo : SUBSET Calls, used : SUBSET Calls,
     rejected : SUBSET Calls, pending : SUBSET Calls, hold : BOOLEAN, toCall : SUBSET Calls,
     flight : SUBSET Calls, left : [Calls -> 0..WaitMax], spent : Nat,
     mode : {"stream", "again", "direct", "retry"}, rounds : 0..MaxRounds, tries : 0..AutoRetry,
     partial : BOOLEAN, card : 0..MaxCards, final : {"draft", "fixed"}]

TypeOK ==
    /\ cards \in Seq(CardOf) /\ Len(cards) <= MaxCards
    /\ turn \in [Reqs -> Turns]
    /\ byCard \in [Card -> [Calls -> Nat]] /\ byOrder \in [Reqs -> [Calls -> Nat]]

\* However often an approval is sent, and whatever is run again after an
\* error, a card's call is sent at most once, and only if the card was approved
\* and names it (_confirm_take, _confirm_gate, _confirm_send).
ApprovedOnce ==
    \A i \in Card, c \in Calls :
        /\ byCard[i][c] <= 1
        /\ byCard[i][c] = 1 => c \in cards[i].calls /\ cards[i].answer = "approve"

\* On its own words a turn sends a call once, through all its retries, and
\* never one that is hard to undo or that its credentials were refused for.
OrderedOnce ==
    \A p \in Reqs, c \in Calls :
        /\ byOrder[p][c] <= 1
        /\ byOrder[p][c] = 1 => T(p).order /\ Kind[c] = "job"

\* A turn that ends in an answer after holding calls ends with a card that
\* asks for them, on every path out of it, and the answer the card is in is
\* not replaced by the self check.
HeldIsAsked ==
    \A p \in Reqs : T(p).at = "out" /\ T(p).pending # {} =>
        /\ T(p).card # 0 /\ cards[T(p).card].calls = T(p).pending
        /\ T(p).final = "draft"

\* A conversation has one card to answer, and the store does not outgrow its
\* limit.
OneCardToAnswer ==
    /\ Cardinality(Held) <= ConfirmMax
    /\ \A i, j \in Held : cards[i].conv = cards[j].conv => i = j

\* Stream and record of a web deliberation agree: it is told as stopped exactly
\* if it is recorded as cancelled, nothing follows the end, and no decision
\* under way is stopped (_web_cancel beside _done).
StreamTellsTheEnd ==
    \A p \in Reqs : "end" \in Frames(p) =>
        LET q == Q(p).q IN
        /\ q[Len(q)] = "end" /\ Cardinality({i \in 1..Len(q) : q[i] = "end"}) = 1
        /\ Q(p).state \notin {"running", "cancelling"}
        /\ Q(p).state = "cancelled" <=> "stopped" \in Frames(p)
        /\ \A i \in 1..Len(q) : q[i] = "stopped" => i = 1 \/ q[i - 1] # "finishing"

\* No request waits for what never comes: a turn that is not over and a stream
\* that has not ended can move on by themselves, whatever the others did.
RequestsMove ==
    \A p \in Reqs :
        /\ T(p).at \notin {"idle", "out", "gone"} => ENABLED TurnStep(p)
        /\ Q(p).task # "idle" /\ "end" \notin Frames(p) => ENABLED RunStep(p)

\* What approval and order send, each call of it once.
CalledOnce == ApprovedOnce /\ OrderedOnce

\* A call that is held is shown on a card, and one card of a conversation can
\* be answered.
CardIsAsked == HeldIsAsked /\ OneCardToAnswer
=============================================================================

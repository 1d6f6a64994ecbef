-------------------------- MODULE ChatServerProofs --------------------------
(***************************************************************************)
(* Chat turns and the confirmation gate, for any number of requests,       *)
(* conversations, calls and retries: what is sent on an approval and on a  *)
(* turn's own words is sent once, what is held is asked for.               *)
(***************************************************************************)
EXTENDS ChatServer, FiniteSetTheorems, SequenceTheorems,
        WellFoundedInduction, TLAPS

-----------------------------------------------------------------------------
(* The inductive invariant.                                                *)

\* A card that can be answered has not been, and there is one in a
\* conversation.
CardsOK ==
    /\ \A i \in Held : cards[i].answer = ""
    /\ \A i, j \in Held : cards[i].conv = cards[j].conv => i = j
    /\ Cardinality(Held) <= ConfirmMax

\* What a turn t may send: calls of the card that was approved for it, whose
\* sends are counted in bc, each until it is used.
SendOK(t, cs, bc) ==
    /\ t.from # 0 => t.from <= Len(cs) /\ cs[t.from].answer = "approve"
    /\ t.approved # {} => t.from # 0 /\ t.approved \subseteq cs[t.from].calls
    /\ t.todo \subseteq t.approved /\ t.todo \cap t.used = {}
    /\ t.at # "sending" => t.todo = {}
    /\ t.at \notin {"out", "gone"} /\ t.from # 0 =>
          \A c \in Calls : bc[t.from][c] > 0 => c \in t.used

\* What it sends on its own words, counted in bo.
OrderOK(t, bo) ==
    /\ t.at \in {"idle", "persona", "brief", "approve"} => t.used = {}
    /\ \A c \in Calls : /\ bo[c] <= 1
                        /\ bo[c] = 1 => t.order /\ Kind[c] = "job"
                        /\ t.at \notin {"out", "gone"} /\ bo[c] > 0 => c \in t.used

\* What it holds, until it is over, and the card that asks for it.
AskOK(t, cs) ==
    /\ t.at \notin {"idle", "out", "gone"} => t.conv \in Convs
    /\ t.at \in {"idle", "persona", "brief", "approve"} => t.pending = {}
    /\ t.at \notin {"check", "out"} => t.card = 0
    /\ t.card # 0 => t.card <= Len(cs) /\ cs[t.card].calls = t.pending
    /\ t.at \in {"check", "out"} /\ t.pending # {} => t.card # 0 /\ t.final = "draft"
    /\ t.at # "out" => t.final = "draft"
    /\ t.at = "error" /\ t.partial => t.mode = "stream"

TurnsOK ==
    \A p \in Reqs : /\ SendOK(turn[p], cards, byCard)
                    /\ OrderOK(turn[p], byOrder[p])
                    /\ AskOK(turn[p], cards)

\* An approved card belongs to one turn, and calls are counted for cards that
\* were made.
OneTurn == \A p, q \in Reqs : turn[p].from # 0 /\ turn[p].from = turn[q].from => p = q
SentOK == \A i \in Card, c \in Calls : byCard[i][c] > 0 => i <= Len(cards)

IInv == TypeOK /\ CardsOK /\ TurnsOK /\ OneTurn /\ SentOK /\ ApprovedOnce

-----------------------------------------------------------------------------
(* What a turn's end keeps is still right.                                  *)

LEMMA Consts == /\ MaxCards \in Nat /\ MaxRounds \in Nat \ {0} /\ AutoRetry \in Nat
                /\ WaitMax \in Nat \ {0} /\ ConfirmMax \in Nat \ {0}
                /\ Kind \in [Calls -> {"job", "confirm", "status"}]
BY ChatAssumption

LEMMA FreshIsTurn ==
    ASSUME NEW conv \in Convs \cup {0}, NEW pat \in BOOLEAN
    PROVE  Turn(conv, pat) \in Turns
BY Consts DEF Turn, Turns, TurnAt

LEMMA IdleIsTurn == Idle \in Turns
<1> DEFINE t == Turn(0, FALSE)
<1>1. t \in Turns
  BY FreshIsTurn
<1>2. Idle = [t EXCEPT !.at = "idle"]
  BY DEF Idle
<1> HIDE DEF t
<1> QED BY <1>1, <1>2 DEF Turns, TurnAt

LEMMA KeptIsTurn ==
    ASSUME NEW t \in Turns
    PROVE  Kept(t) \in Turns
<1>1. [Idle EXCEPT !.at = "gone", !.order = t.order] \in Turns
  BY IdleIsTurn DEF Turns, TurnAt
<1>2. [Idle EXCEPT !.at = "out", !.order = t.order, !.pending = t.pending,
                   !.card = t.card, !.final = t.final, !.from = t.from] \in Turns
  BY IdleIsTurn DEF Turns, TurnAt
<1> QED BY <1>1, <1>2 DEF Kept

LEMMA KeptFrom ==
    ASSUME NEW t \in Turns
    PROVE  /\ Kept(t).from \in {0, t.from}
           /\ t.at \notin {"out", "gone"} => Kept(t) = t
BY IdleIsTurn DEF Kept, Idle, Turn, Turns

LEMMA KeptIsOK ==
    ASSUME NEW t \in Turns, NEW cs, NEW bc, NEW bo, 
           t.at # "gone" => SendOK(t, cs, bc) /\ AskOK(t, cs),
           OrderOK(t, bo)
    PROVE  SendOK(Kept(t), cs, bc) /\ AskOK(Kept(t), cs) /\ OrderOK(Kept(t), bo)
<1> DEFINE u == Kept(t)
<1> SUFFICES SendOK(u, cs, bc) /\ AskOK(u, cs) /\ OrderOK(u, bo)
  OBVIOUS
<1>1. CASE t.at = "gone"
  <2>1. /\ u.at = "gone" /\ u.order = t.order /\ u.pending = {} /\ u.card = 0
        /\ u.final = "draft" /\ u.from = 0 /\ u.approved = {} /\ u.todo = {}
        /\ u.used = {}
    BY <1>1 DEF Kept, Idle, Turn, Turns
  <2> HIDE DEF u
  <2> QED BY <2>1, <1>1 DEF SendOK, AskOK, OrderOK
<1>2. CASE t.at = "out"
  <2>1. /\ u.at = "out" /\ u.order = t.order /\ u.pending = t.pending /\ u.card = t.card
        /\ u.final = t.final /\ u.from = t.from /\ u.approved = {} /\ u.todo = {}
        /\ u.used = {}
    BY <1>2 DEF Kept, Idle, Turn, Turns
  <2> HIDE DEF u
  <2> QED BY <2>1, <1>2 DEF SendOK, AskOK, OrderOK
<1>3. CASE t.at \notin {"out", "gone"}
  BY <1>3 DEF Kept
<1> QED BY <1>1, <1>2, <1>3

-----------------------------------------------------------------------------
(* A step of one turn that leaves the cards and the counts alone.           *)

LEMMA TurnMoves ==
    ASSUME IInv, NEW p \in Reqs, NEW t \in Turns, Only(p, t),
           t.at # "gone" => SendOK(t, cards, byCard) /\ AskOK(t, cards),
           OrderOK(t, byOrder[p]), t.from = turn[p].from
    PROVE  IInv'
<1> DEFINE u == Kept(t)
<1>1. u \in Turns /\ u.from \in {0, turn[p].from}
  BY KeptIsTurn, KeptFrom
<1>2. SendOK(u, cards, byCard) /\ AskOK(u, cards) /\ OrderOK(u, byOrder[p])
  BY KeptIsOK
<1>3. turn' = [turn EXCEPT ![p] = u] /\ UNCHANGED <<cards, byCard, byOrder>>
  BY DEF Only, Set
<1> HIDE DEF u
<1>4. turn \in [Reqs -> Turns]
  BY DEF IInv, TypeOK
<1>5. TypeOK'
  BY <1>1, <1>3, <1>4 DEF IInv, TypeOK
<1>6. CardsOK' /\ SentOK' /\ ApprovedOnce'
  BY <1>3 DEF IInv, CardsOK, SentOK, ApprovedOnce, Held
<1>7. TurnsOK'
  BY <1>2, <1>3, <1>4 DEF IInv, TurnsOK
<1>8. OneTurn'
  BY <1>1, <1>3, <1>4 DEF IInv, OneTurn
<1> QED BY <1>5, <1>6, <1>7, <1>8 DEF IInv

LEMMA MyTurn ==
    ASSUME IInv, NEW p \in Reqs
    PROVE  /\ turn[p] \in Turns
           /\ SendOK(turn[p], cards, byCard)
           /\ OrderOK(turn[p], byOrder[p])
           /\ AskOK(turn[p], cards)
BY DEF IInv, TypeOK, TurnsOK

LEMMA PersonaStep ==
    ASSUME IInv, NEW p \in Reqs, Persona(p)
    PROVE  IInv'
<1> DEFINE t == [turn[p] EXCEPT !.at = "brief"]
<1>1. t \in Turns
  BY MyTurn, Consts DEF Persona, T, Turns, TurnAt
<1>2. /\ t.at # "gone" => SendOK(t, cards, byCard) /\ AskOK(t, cards)
      /\ OrderOK(t, byOrder[p])
      /\ t.from = turn[p].from
  BY MyTurn DEF Persona, T, Turns, SendOK, OrderOK, AskOK
<1>3. Only(p, t)
  BY DEF Persona, T
<1> HIDE DEF t
<1> QED BY <1>1, <1>2, <1>3, TurnMoves

LEMMA BriefStep ==
    ASSUME IInv, NEW p \in Reqs, Brief(p)
    PROVE  IInv'
<1> DEFINE t == [turn[p] EXCEPT !.at = IF turn[p].approved = {} THEN "agent" ELSE "approve"]
<1>1. t \in Turns
  BY MyTurn, Consts DEF Brief, T, Turns, TurnAt
<1>2. /\ t.at # "gone" => SendOK(t, cards, byCard) /\ AskOK(t, cards)
      /\ OrderOK(t, byOrder[p])
      /\ t.from = turn[p].from
  BY MyTurn DEF Brief, T, Turns, SendOK, OrderOK, AskOK
<1>3. Only(p, t)
  BY DEF Brief, T
<1> HIDE DEF t
<1> QED BY <1>1, <1>2, <1>3, TurnMoves

LEMMA SendsDoneStep ==
    ASSUME IInv, NEW p \in Reqs, SendsDone(p)
    PROVE  IInv'
<1> DEFINE t == [turn[p] EXCEPT !.at = "agent"]
<1>1. t \in Turns
  BY MyTurn, Consts DEF SendsDone, T, Turns, TurnAt
<1>2. /\ t.at # "gone" => SendOK(t, cards, byCard) /\ AskOK(t, cards)
      /\ OrderOK(t, byOrder[p])
      /\ t.from = turn[p].from
  BY MyTurn DEF SendsDone, T, Turns, SendOK, OrderOK, AskOK
<1>3. Only(p, t)
  BY DEF SendsDone, T
<1> HIDE DEF t
<1> QED BY <1>1, <1>2, <1>3, TurnMoves

LEMMA ModelStopsStep ==
    ASSUME IInv, NEW p \in Reqs, ModelStops(p)
    PROVE  IInv'
<1> DEFINE t == [turn[p] EXCEPT !.at = "post"]
<1>1. t \in Turns
  BY MyTurn, Consts DEF ModelStops, T, Turns, TurnAt
<1>2. /\ t.at # "gone" => SendOK(t, cards, byCard) /\ AskOK(t, cards)
      /\ OrderOK(t, byOrder[p])
      /\ t.from = turn[p].from
  BY MyTurn DEF ModelStops, T, Turns, SendOK, OrderOK, AskOK
<1>3. Only(p, t)
  BY DEF ModelStops, T
<1> HIDE DEF t
<1> QED BY <1>1, <1>2, <1>3, TurnMoves

LEMMA ModelCallsStep ==
    ASSUME IInv, NEW p \in Reqs, NEW S \in SUBSET Calls, ModelCalls(p, S)
    PROVE  IInv'
<1> DEFINE t == [turn[p] EXCEPT !.at = "tools", !.toCall = S, !.rounds = @ + 1]
<1>1. t \in Turns
  <2>1. turn[p] \in Turns
    BY MyTurn
  <2>2. turn[p].rounds + 1 \in 0..MaxRounds
    BY <2>1, Consts DEF ModelCalls, T, Asked, Turns
  <2> QED BY <2>1, <2>2 DEF Turns, TurnAt
<1>2. /\ t.at # "gone" => SendOK(t, cards, byCard) /\ AskOK(t, cards)
      /\ OrderOK(t, byOrder[p])
      /\ t.from = turn[p].from
  BY MyTurn DEF ModelCalls, T, Asked, Turns, SendOK, OrderOK, AskOK
<1>3. Only(p, t)
  BY DEF ModelCalls, T
<1> HIDE DEF t
<1> QED BY <1>1, <1>2, <1>3, TurnMoves

LEMMA ModelAnswersStep ==
    ASSUME IInv, NEW p \in Reqs, ModelAnswers(p)
    PROVE  IInv'
<1> DEFINE t == [turn[p] EXCEPT
          !.at = IF turn[p].mode = "retry"
                 THEN IF turn[p].pending # {} THEN "card" ELSE "check" ELSE "post"]
<1>1. t \in Turns
  BY MyTurn, Consts DEF ModelAnswers, T, Asked, Turns, TurnAt
<1>2. /\ t.at # "gone" => SendOK(t, cards, byCard) /\ AskOK(t, cards)
      /\ OrderOK(t, byOrder[p])
      /\ t.from = turn[p].from
  BY MyTurn DEF ModelAnswers, T, Asked, Turns, SendOK, OrderOK, AskOK
<1>3. Only(p, t)
  BY DEF ModelAnswers, T
<1> HIDE DEF t
<1> QED BY <1>1, <1>2, <1>3, TurnMoves

LEMMA AfterErrorStep ==
    ASSUME IInv, NEW p \in Reqs, AfterError(p)
    PROVE  IInv'
<1> DEFINE t == [turn[p] EXCEPT
          !.at = IF turn[p].pending # {} /\ (turn[p].mode = "stream" \/ turn[p].tries = AutoRetry)
                 THEN "card"
                 ELSE IF turn[p].partial \/ turn[p].tries = AutoRetry THEN "out" ELSE "agent",
          !.mode = "retry", !.tries = IF @ < AutoRetry THEN @ + 1 ELSE @, !.rounds = 0]
<1>1. t \in Turns
  <2>1. turn[p] \in Turns
    BY MyTurn
  <2>2. 0 \in 0..MaxRounds
    BY <2>1, Consts DEF AfterError, T, Turns
  <2>3. (IF turn[p].tries < AutoRetry THEN turn[p].tries + 1 ELSE turn[p].tries) \in 0..AutoRetry
    BY <2>1, Consts DEF AfterError, T, Turns
  <2> QED BY <2>1, <2>2, <2>3 DEF Turns, TurnAt
<1>2. /\ t.at # "gone" => SendOK(t, cards, byCard) /\ AskOK(t, cards)
      /\ OrderOK(t, byOrder[p])
      /\ t.from = turn[p].from
  BY MyTurn DEF AfterError, T, Turns, SendOK, OrderOK, AskOK
<1>3. Only(p, t)
  BY DEF AfterError, T
<1> HIDE DEF t
<1> QED BY <1>1, <1>2, <1>3, TurnMoves

LEMMA ToolsDoneStep ==
    ASSUME IInv, NEW p \in Reqs, ToolsDone(p)
    PROVE  IInv'
<1> DEFINE t == [turn[p] EXCEPT !.at = "agent"]
<1>1. t \in Turns
  BY MyTurn, Consts DEF ToolsDone, T, Turns, TurnAt
<1>2. /\ t.at # "gone" => SendOK(t, cards, byCard) /\ AskOK(t, cards)
      /\ OrderOK(t, byOrder[p])
      /\ t.from = turn[p].from
  BY MyTurn DEF ToolsDone, T, Turns, SendOK, OrderOK, AskOK
<1>3. Only(p, t)
  BY DEF ToolsDone, T
<1> HIDE DEF t
<1> QED BY <1>1, <1>2, <1>3, TurnMoves

LEMMA AgainStep ==
    ASSUME IInv, NEW p \in Reqs, Again(p)
    PROVE  IInv'
<1> DEFINE t == [turn[p] EXCEPT !.at = "agent", !.mode = "again", !.rounds = 0]
<1>1. t \in Turns
  <2>1. turn[p] \in Turns
    BY MyTurn
  <2>2. 0 \in 0..MaxRounds
    BY <2>1, Consts DEF Again, T, Turns
  <2> QED BY <2>1, <2>2 DEF Turns, TurnAt
<1>2. /\ t.at # "gone" => SendOK(t, cards, byCard) /\ AskOK(t, cards)
      /\ OrderOK(t, byOrder[p])
      /\ t.from = turn[p].from
  BY MyTurn DEF Again, T, Turns, SendOK, OrderOK, AskOK
<1>3. Only(p, t)
  BY DEF Again, T
<1> HIDE DEF t
<1> QED BY <1>1, <1>2, <1>3, TurnMoves

LEMMA DirectStep ==
    ASSUME IInv, NEW p \in Reqs, NEW c \in Calls, Direct(p, c)
    PROVE  IInv'
<1> DEFINE t == [turn[p] EXCEPT !.at = "tools", !.toCall = {c}, !.mode = "direct",
                                   !.rounds = MaxRounds]
<1>1. t \in Turns
  <2>1. turn[p] \in Turns
    BY MyTurn
  <2>2. MaxRounds \in 0..MaxRounds
    BY <2>1, Consts DEF Direct, T, Turns
  <2> QED BY <2>1, <2>2 DEF Turns, TurnAt
<1>2. /\ t.at # "gone" => SendOK(t, cards, byCard) /\ AskOK(t, cards)
      /\ OrderOK(t, byOrder[p])
      /\ t.from = turn[p].from
  BY MyTurn DEF Direct, T, Turns, SendOK, OrderOK, AskOK
<1>3. Only(p, t)
  BY DEF Direct, T
<1> HIDE DEF t
<1> QED BY <1>1, <1>2, <1>3, TurnMoves

LEMMA PostDoneStep ==
    ASSUME IInv, NEW p \in Reqs, PostDone(p)
    PROVE  IInv'
<1> DEFINE t == [turn[p] EXCEPT !.at = IF turn[p].pending = {} THEN "check" ELSE "card"]
<1>1. t \in Turns
  BY MyTurn, Consts DEF PostDone, T, Turns, TurnAt
<1>2. /\ t.at # "gone" => SendOK(t, cards, byCard) /\ AskOK(t, cards)
      /\ OrderOK(t, byOrder[p])
      /\ t.from = turn[p].from
  BY MyTurn DEF PostDone, T, Turns, SendOK, OrderOK, AskOK
<1>3. Only(p, t)
  BY DEF PostDone, T
<1> HIDE DEF t
<1> QED BY <1>1, <1>2, <1>3, TurnMoves

LEMMA ClientGoesStep ==
    ASSUME IInv, NEW p \in Reqs, ClientGoes(p)
    PROVE  IInv'
<1> DEFINE t == [turn[p] EXCEPT !.at = "gone"]
<1>1. t \in Turns
  BY MyTurn, Consts DEF ClientGoes, T, Turns, TurnAt
<1>2. /\ t.at # "gone" => SendOK(t, cards, byCard) /\ AskOK(t, cards)
      /\ OrderOK(t, byOrder[p])
      /\ t.from = turn[p].from
  BY MyTurn DEF ClientGoes, T, Turns, SendOK, OrderOK, AskOK
<1>3. Only(p, t)
  BY DEF ClientGoes, T
<1> HIDE DEF t
<1> QED BY <1>1, <1>2, <1>3, TurnMoves

LEMMA ApproveStep ==
    ASSUME IInv, NEW p \in Reqs, Approve(p)
    PROVE  IInv'
<1>1. PICK back \in SUBSET turn[p].approved :
         Only(p, [turn[p] EXCEPT !.at = "sending", !.todo = turn[p].approved \ back,
                       !.approved = @ \ back, !.pending = @ \union back])
  BY DEF Approve, T
<1> DEFINE t == [turn[p] EXCEPT !.at = "sending", !.todo = turn[p].approved \ back,
                       !.approved = @ \ back, !.pending = @ \union back]
<1>2. t \in Turns
  <2>1. turn[p] \in Turns
    BY MyTurn
  <2>2. turn[p].approved \ back \in SUBSET Calls
    BY <1>1, <2>1, Consts DEF Approve, T, Turns
  <2>3. turn[p].pending \union back \in SUBSET Calls
    BY <1>1, <2>1, Consts DEF Approve, T, Turns
  <2> QED BY <1>1, <2>1, <2>2, <2>3 DEF Turns, TurnAt
<1>3. /\ t.at # "gone" => SendOK(t, cards, byCard) /\ AskOK(t, cards)
      /\ OrderOK(t, byOrder[p])
      /\ t.from = turn[p].from
  BY <1>1, MyTurn DEF Approve, T, Turns, SendOK, OrderOK, AskOK
<1>4. Only(p, t)
  BY <1>1
<1> HIDE DEF t
<1> QED BY <1>2, <1>3, <1>4, TurnMoves

LEMMA ModelFailsStep ==
    ASSUME IInv, NEW p \in Reqs, ModelFails(p)
    PROVE  IInv'
<1>1. PICK some \in BOOLEAN :
         /\ some => turn[p].at = "agent" /\ turn[p].mode = "stream"
         /\ Only(p, [turn[p] EXCEPT !.partial = some,
                       !.at = IF turn[p].at = "persona" THEN "out"
                              ELSE IF turn[p].mode \in {"again", "direct"} THEN "post"
                              ELSE "error"])
  BY DEF ModelFails, T
<1> DEFINE t == [turn[p] EXCEPT !.partial = some,
                       !.at = IF turn[p].at = "persona" THEN "out"
                              ELSE IF turn[p].mode \in {"again", "direct"} THEN "post"
                              ELSE "error"]
<1>2. t \in Turns
  <2>1. turn[p] \in Turns
    BY MyTurn
  <2>2. some \in {TRUE, FALSE}
    BY <1>1, <2>1, Consts DEF ModelFails, T, Turns
  <2> QED BY <1>1, <2>1, <2>2 DEF Turns, TurnAt
<1>3. /\ t.at # "gone" => SendOK(t, cards, byCard) /\ AskOK(t, cards)
      /\ OrderOK(t, byOrder[p])
      /\ t.from = turn[p].from
  BY <1>1, MyTurn DEF ModelFails, T, Turns, SendOK, OrderOK, AskOK
<1>4. Only(p, t)
  BY <1>1
<1> HIDE DEF t
<1> QED BY <1>2, <1>3, <1>4, TurnMoves

LEMMA ToolEndStep ==
    ASSUME IInv, NEW p \in Reqs, NEW c \in Calls, ToolEnd(p, c)
    PROVE  IInv'
<1>1. PICK refused \in BOOLEAN :
         Only(p, [turn[p] EXCEPT !.flight = @ \ {c},
                    !.rejected = IF refused THEN @ \union {c} ELSE @])
  BY DEF ToolEnd, T
<1> DEFINE t == [turn[p] EXCEPT !.flight = @ \ {c},
                    !.rejected = IF refused THEN @ \union {c} ELSE @]
<1>2. t \in Turns
  <2>1. turn[p] \in Turns
    BY MyTurn
  <2>2. turn[p].flight \ {c} \in SUBSET Calls
    BY <1>1, <2>1, Consts DEF ToolEnd, T, Turns
  <2>3. (IF refused THEN turn[p].rejected \union {c} ELSE turn[p].rejected) \in SUBSET Calls
    BY <1>1, <2>1, Consts DEF ToolEnd, T, Turns
  <2> QED BY <1>1, <2>1, <2>2, <2>3 DEF Turns, TurnAt
<1>3. /\ t.at # "gone" => SendOK(t, cards, byCard) /\ AskOK(t, cards)
      /\ OrderOK(t, byOrder[p])
      /\ t.from = turn[p].from
  BY <1>1, MyTurn DEF ToolEnd, T, Turns, SendOK, OrderOK, AskOK
<1>4. Only(p, t)
  BY <1>1
<1> HIDE DEF t
<1> QED BY <1>2, <1>3, <1>4, TurnMoves

LEMMA WaitEndStep ==
    ASSUME IInv, NEW p \in Reqs, NEW c \in Calls, WaitEnd(p, c)
    PROVE  IInv'
<1>1. PICK took \in 0..turn[p].left[c] :
         Only(p, [turn[p] EXCEPT !.flight = @ \ {c}, !.spent = @ + took,
                    !.left[c] = 0])
  BY DEF WaitEnd, T
<1> DEFINE t == [turn[p] EXCEPT !.flight = @ \ {c}, !.spent = @ + took,
                    !.left[c] = 0]
<1>2. t \in Turns
  <2>1. turn[p] \in Turns
    BY MyTurn
  <2>2. turn[p].spent + took \in Nat
    BY <1>1, <2>1, Consts DEF WaitEnd, T, Turns
  <2>3. [turn[p].left EXCEPT ![c] = 0] \in [Calls -> 0..WaitMax]
    BY <1>1, <2>1, Consts DEF WaitEnd, T, Turns
  <2> QED BY <1>1, <2>1, <2>2, <2>3 DEF Turns, TurnAt
<1>3. /\ t.at # "gone" => SendOK(t, cards, byCard) /\ AskOK(t, cards)
      /\ OrderOK(t, byOrder[p])
      /\ t.from = turn[p].from
  BY <1>1, MyTurn DEF WaitEnd, T, Turns, SendOK, OrderOK, AskOK
<1>4. Only(p, t)
  BY <1>1
<1> HIDE DEF t
<1> QED BY <1>2, <1>3, <1>4, TurnMoves

LEMMA SelfCheckStep ==
    ASSUME IInv, NEW p \in Reqs, SelfCheck(p)
    PROVE  IInv'
<1>1. PICK final \in {"draft", "fixed"} :
         /\ turn[p].card # 0 => final = "draft"
         /\ Only(p, [turn[p] EXCEPT !.at = "out", !.final = final])
  BY DEF SelfCheck, T
<1> DEFINE t == [turn[p] EXCEPT !.at = "out", !.final = final]
<1>2. t \in Turns
  <2>1. turn[p] \in Turns
    BY MyTurn
  <2>2. final \in {"draft", "fixed"}
    BY <1>1, <2>1, Consts DEF SelfCheck, T, Turns
  <2> QED BY <1>1, <2>1, <2>2 DEF Turns, TurnAt
<1>3. /\ t.at # "gone" => SendOK(t, cards, byCard) /\ AskOK(t, cards)
      /\ OrderOK(t, byOrder[p])
      /\ t.from = turn[p].from
  BY <1>1, MyTurn DEF SelfCheck, T, Turns, SendOK, OrderOK, AskOK
<1>4. Only(p, t)
  BY <1>1
<1> HIDE DEF t
<1> QED BY <1>2, <1>3, <1>4, TurnMoves

LEMMA WaitStartStep ==
    ASSUME IInv, NEW p \in Reqs, NEW c \in Calls, WaitStart(p, c)
    PROVE  IInv'
<1> DEFINE t == IF turn[p].spent < WaitMax
                THEN [turn[p] EXCEPT !.toCall = @ \ {c}, !.flight = @ \union {c},
                         !.left[c] = WaitMax - turn[p].spent]
                ELSE [turn[p] EXCEPT !.toCall = @ \ {c}]
<1>1. t \in Turns
  <2>1. turn[p] \in Turns
    BY MyTurn
  <2>2. CASE turn[p].spent < WaitMax
    <3>1. WaitMax - turn[p].spent \in 0..WaitMax
      BY <2>1, <2>2, Consts DEF Turns
    <3>2. [turn[p].left EXCEPT ![c] = WaitMax - turn[p].spent] \in [Calls -> 0..WaitMax]
      BY <2>1, <3>1 DEF Turns
    <3> QED BY <2>1, <2>2, <3>2 DEF Turns
  <2>3. CASE ~(turn[p].spent < WaitMax)
    BY <2>1, <2>3 DEF Turns
  <2> QED BY <2>2, <2>3
<1>2. /\ t.at # "gone" => SendOK(t, cards, byCard) /\ AskOK(t, cards)
      /\ OrderOK(t, byOrder[p])
      /\ t.from = turn[p].from
  BY MyTurn DEF Turns, SendOK, OrderOK, AskOK
<1>3. Only(p, t)
  BY DEF WaitStart, T
<1> HIDE DEF t
<1> QED BY <1>1, <1>2, <1>3, TurnMoves

-----------------------------------------------------------------------------
(* Calls that are sent, and counted.                                        *)

LEMMA SendCounted ==
    ASSUME IInv, NEW p \in Reqs, NEW c \in Calls, NEW t \in Turns, Set(p, t),
           byCard' = [byCard EXCEPT ![turn[p].from][c] = @ + 1],
           UNCHANGED <<cards, byOrder>>,
           turn[p].at \notin {"idle", "out", "gone"}, t.at = turn[p].at,
           c \in turn[p].approved, c \notin turn[p].used,
           t.from = turn[p].from, t.approved = turn[p].approved,
           t.used = turn[p].used \cup {c}, t.todo = turn[p].todo \ {c},
           AskOK(t, cards), OrderOK(t, byOrder[p])
    PROVE  IInv'
<1> DEFINE k == turn[p].from
<1>1. /\ turn \in [Reqs -> Turns] /\ byCard \in [Card -> [Calls -> Nat]]
      /\ cards \in Seq(CardOf) /\ Len(cards) <= MaxCards /\ Len(cards) \in Nat
  BY DEF IInv, TypeOK
<1>2. turn' = [turn EXCEPT ![p] = t]
  BY KeptFrom DEF Set
<1>3. /\ k # 0 /\ k \in 0..MaxCards /\ k <= Len(cards) /\ cards[k].answer = "approve"
      /\ c \in cards[k].calls /\ byCard[k][c] <= 0
  <2>1. k \in 0..MaxCards
    BY MyTurn DEF Turns
  <2>2. k # 0 /\ k <= Len(cards) /\ cards[k].answer = "approve" /\ c \in cards[k].calls
    BY MyTurn DEF SendOK
  <2>3. k \in Card
    BY <2>1, <2>2, Consts DEF Card
  <2>4. ~(byCard[k][c] > 0)
    BY MyTurn, <2>2 DEF SendOK
  <2>5. byCard[k][c] \in Nat
    BY <2>3, <1>1
  <2> QED BY <2>1, <2>2, <2>4, <2>5
<1>4. k \in Card
  BY <1>3, Consts DEF Card
<1>5. /\ byCard' \in [Card -> [Calls -> Nat]]
      /\ \A i \in Card, d \in Calls :
            byCard'[i][d] = IF i = k /\ d = c THEN byCard[i][d] + 1 ELSE byCard[i][d]
  BY <1>1, <1>4
<1>6. byCard'[k][c] = 1
  BY <1>1, <1>3, <1>4, <1>5
<1> HIDE DEF k
<1>7. TypeOK'
  BY <1>1, <1>2, <1>5 DEF IInv, TypeOK
<1>8. CardsOK' /\ SentOK' /\ ApprovedOnce'
  <2>1. CardsOK'
    BY DEF IInv, CardsOK, Held
  <2>2. SentOK'
    BY <1>3, <1>5 DEF IInv, SentOK
  <2>3. ApprovedOnce'
    BY <1>1, <1>3, <1>5, <1>6 DEF IInv, ApprovedOnce
  <2> QED BY <2>1, <2>2, <2>3
<1>9. OneTurn'
  BY <1>1, <1>2 DEF IInv, OneTurn
<1>10. TurnsOK'
  <2> SUFFICES ASSUME NEW q \in Reqs
               PROVE  /\ SendOK(turn'[q], cards, byCard')
                      /\ OrderOK(turn'[q], byOrder[q])
                      /\ AskOK(turn'[q], cards)
    BY DEF TurnsOK
  <2>1. CASE q = p
    <3>1. turn'[q] = t
      BY <1>1, <1>2, <2>1
    <3>2. SendOK(t, cards, byCard')
      BY <1>3, <1>4, <1>5, MyTurn DEF SendOK, k
    <3> QED BY <2>1, <3>1, <3>2
  <2>2. CASE q # p
    <3>1. turn'[q] = turn[q] /\ turn[q] \in Turns
      BY <1>1, <1>2, <2>2
    <3>2. turn[q].from # 0 => turn[q].from # k
      BY <2>2 DEF IInv, OneTurn, k
    <3>3. SendOK(turn[q], cards, byCard) /\ OrderOK(turn[q], byOrder[q]) /\ AskOK(turn[q], cards)
      BY MyTurn
    <3>4. turn[q].from # 0 => turn[q].from \in Card
      BY <3>1, Consts DEF Turns, Card
    <3>5. SendOK(turn[q], cards, byCard')
      BY <1>5, <3>2, <3>3, <3>4 DEF SendOK
    <3> QED BY <3>1, <3>3, <3>5
  <2> QED BY <2>1, <2>2
<1> QED BY <1>7, <1>8, <1>9, <1>10 DEF IInv

LEMMA SendStep ==
    ASSUME IInv, NEW p \in Reqs, NEW c \in Calls, Send(p, c)
    PROVE  IInv'
<1> DEFINE t == [turn[p] EXCEPT !.flight = {c}, !.todo = @ \ {c}, !.used = @ \union {c}]
<1>1. t \in Turns
  <2>1. turn[p] \in Turns
    BY MyTurn
  <2>2. {c} \in SUBSET Calls /\ turn[p].todo \ {c} \in SUBSET Calls
    BY <2>1 DEF Turns
  <2>3. turn[p].used \union {c} \in SUBSET Calls
    BY <2>1 DEF Turns
  <2> QED BY <2>1, <2>2, <2>3 DEF Turns
<1>2. /\ turn[p].at \notin {"idle", "out", "gone"} /\ t.at = turn[p].at
      /\ c \in turn[p].approved /\ c \notin turn[p].used
      /\ t.from = turn[p].from /\ t.approved = turn[p].approved
      /\ t.used = turn[p].used \cup {c} /\ t.todo = turn[p].todo \ {c}
  BY MyTurn DEF Send, T, Turns, SendOK
<1>3. AskOK(t, cards) /\ OrderOK(t, byOrder[p])
  BY MyTurn DEF Send, T, Turns, AskOK, OrderOK
<1>4. /\ Set(p, t) /\ byCard' = [byCard EXCEPT ![turn[p].from][c] = @ + 1]
      /\ UNCHANGED <<cards, byOrder>>
  BY DEF Send, T
<1> HIDE DEF t
<1> QED BY <1>1, <1>2, <1>3, <1>4, SendCounted

LEMMA ToolStartStep ==
    ASSUME IInv, NEW p \in Reqs, NEW c \in Calls, ToolStart(p, c)
    PROVE  IInv'
<1> DEFINE t == [turn[p] EXCEPT !.toCall = @ \ {c}]
           passed == [t EXCEPT !.flight = @ \union {c}, !.used = @ \union {c}]
           asks == [t EXCEPT !.pending = @ \union {c}, !.hold = TRUE]
<1>1. turn[p] \in Turns /\ turn[p].at = "tools"
  BY MyTurn DEF ToolStart, T
<1>2. t \in Turns /\ passed \in Turns
  BY <1>1 DEF Turns
<1>3. asks \in Turns
  <2>1. TRUE \in BOOLEAN /\ turn[p].pending \union {c} \in SUBSET Calls
    BY <1>1 DEF Turns
  <2> QED BY <1>2, <2>1 DEF Turns
<1>4. CASE Set(p, t) /\ UNCHANGED <<byCard, byOrder>>
  <2>1. SendOK(t, cards, byCard) /\ AskOK(t, cards) /\ OrderOK(t, byOrder[p]) /\ t.from = turn[p].from
    BY <1>1, MyTurn DEF Turns, SendOK, AskOK, OrderOK
  <2>2. Only(p, t)
    BY <1>4 DEF ToolStart, Only
  <2> HIDE DEF t
  <2> QED BY <1>2, <2>1, <2>2, TurnMoves
<1>5. CASE Set(p, asks) /\ UNCHANGED <<byCard, byOrder>>
  <2>1. /\ SendOK(asks, cards, byCard) /\ AskOK(asks, cards) /\ OrderOK(asks, byOrder[p])
        /\ asks.from = turn[p].from
    BY <1>1, MyTurn DEF Turns, SendOK, AskOK, OrderOK
  <2>2. Only(p, asks)
    BY <1>5 DEF ToolStart, Only
  <2> HIDE DEF asks
  <2> QED BY <1>3, <2>1, <2>2, TurnMoves
<1>6. CASE /\ Approved(p, c) /\ Set(p, passed)
           /\ byCard' = [byCard EXCEPT ![t.from][c] = @ + 1] /\ UNCHANGED byOrder
  <2>1. /\ passed.at = turn[p].at /\ c \in turn[p].approved /\ c \notin turn[p].used
        /\ passed.from = turn[p].from /\ passed.approved = turn[p].approved
        /\ passed.used = turn[p].used \cup {c} /\ passed.todo = turn[p].todo
        /\ turn[p].todo = {} /\ t.from = turn[p].from
    BY <1>1, <1>6, MyTurn DEF Turns, Approved, T, SendOK
  <2>2. passed.todo = turn[p].todo \ {c}
    BY <2>1
  <2>3. AskOK(passed, cards) /\ OrderOK(passed, byOrder[p])
    BY <1>1, MyTurn DEF Turns, AskOK, OrderOK
  <2>4. /\ byCard' = [byCard EXCEPT ![turn[p].from][c] = @ + 1]
        /\ UNCHANGED <<cards, byOrder>>
    BY <1>6, <2>1 DEF ToolStart
  <2> HIDE DEF passed
  <2> QED BY <1>1, <1>2, <1>6, <2>1, <2>2, <2>3, <2>4, SendCounted
<1>7. CASE /\ Ordered(p, c) /\ Set(p, passed)
           /\ byOrder' = [byOrder EXCEPT ![p][c] = @ + 1] /\ UNCHANGED byCard
  <2>1. /\ turn \in [Reqs -> Turns] /\ byOrder \in [Reqs -> [Calls -> Nat]]
        /\ UNCHANGED <<cards, byCard>>
    BY <1>7 DEF IInv, TypeOK, ToolStart
  <2>2. turn' = [turn EXCEPT ![p] = passed]
    <3>1. passed.at = turn[p].at
      BY <1>1 DEF Turns
    <3> HIDE DEF passed
    <3> QED BY <1>1, <1>2, <1>7, <3>1, KeptFrom DEF Set
  <2>3. /\ byOrder' \in [Reqs -> [Calls -> Nat]]
        /\ \A q \in Reqs, d \in Calls :
              byOrder'[q][d] = IF q = p /\ d = c THEN byOrder[q][d] + 1 ELSE byOrder[q][d]
        /\ \A q \in Reqs : q # p => byOrder'[q] = byOrder[q]
    BY <1>7, <2>1
  <2>4. byOrder[p][c] = 0
    BY <1>1, <1>7, <2>1, MyTurn DEF Ordered, T, OrderOK
  <2>5. /\ SendOK(passed, cards, byCard) /\ AskOK(passed, cards) /\ passed.from = turn[p].from
    BY <1>1, MyTurn DEF Turns, SendOK, AskOK
  <2>6. OrderOK(passed, byOrder'[p])
    <3>1. /\ passed.at = "tools" /\ passed.order = turn[p].order
          /\ passed.used = turn[p].used \cup {c} /\ turn[p].order /\ Kind[c] = "job"
      BY <1>1, <1>7 DEF Turns, Ordered, T
    <3> HIDE DEF passed
    <3> QED BY <1>1, <2>3, <2>4, <3>1, MyTurn DEF OrderOK
  <2> HIDE DEF passed
  <2>7. TypeOK'
    BY <1>2, <2>1, <2>2, <2>3 DEF IInv, TypeOK
  <2>8. CardsOK' /\ SentOK' /\ ApprovedOnce'
    BY <2>1 DEF IInv, CardsOK, SentOK, ApprovedOnce, Held
  <2>9. OneTurn'
    BY <2>1, <2>2, <2>5 DEF IInv, OneTurn
  <2>10. TurnsOK'
    BY <2>1, <2>2, <2>3, <2>5, <2>6 DEF IInv, TurnsOK
  <2> QED BY <2>7, <2>8, <2>9, <2>10 DEF IInv
<1>8. \/ Set(p, t) /\ UNCHANGED <<byCard, byOrder>>
      \/ Set(p, asks) /\ UNCHANGED <<byCard, byOrder>>
      \/ /\ Approved(p, c) /\ Set(p, passed)
         /\ byCard' = [byCard EXCEPT ![t.from][c] = @ + 1] /\ UNCHANGED byOrder
      \/ /\ Ordered(p, c) /\ Set(p, passed)
         /\ byOrder' = [byOrder EXCEPT ![p][c] = @ + 1] /\ UNCHANGED byCard
  BY Zenon DEF ToolStart, T
<1> QED BY <1>4, <1>5, <1>6, <1>7, <1>8

-----------------------------------------------------------------------------
(* Cards are added and answered.                                            *)

CardsGrow(cs, ds) ==
    /\ Len(cs) <= Len(ds)
    /\ \A i \in 1..Len(cs) : /\ ds[i].calls = cs[i].calls
                             /\ cs[i].answer = "approve" => ds[i].answer = "approve"

LEMMA GrowKeeps ==
    ASSUME NEW t \in Turns, NEW cs \in Seq(CardOf), NEW ds \in Seq(CardOf), NEW bc,
           CardsGrow(cs, ds), SendOK(t, cs, bc), AskOK(t, cs)
    PROVE  SendOK(t, ds, bc) /\ AskOK(t, ds)
<1>1. Len(cs) \in Nat /\ Len(ds) \in Nat /\ Len(cs) <= Len(ds)
  BY DEF CardsGrow
<1>2. t.from \in Nat /\ t.card \in Nat
  BY Consts DEF Turns
<1>3. SendOK(t, ds, bc)
  BY <1>1, <1>2 DEF CardsGrow, SendOK
<1>4. AskOK(t, ds)
  BY <1>1, <1>2 DEF CardsGrow, AskOK
<1> QED BY <1>3, <1>4

LEMMA CardsAre ==
    ASSUME IInv
    PROVE  /\ cards \in Seq(CardOf) /\ Len(cards) \in Nat /\ Len(cards) <= MaxCards
           /\ \A i \in 1..Len(cards) : cards[i] \in CardOf
           /\ Held \subseteq 1..Len(cards) /\ IsFiniteSet(Held)
           /\ Cardinality(Held) <= ConfirmMax /\ Cardinality(Held) \in Nat
<1>1. cards \in Seq(CardOf) /\ Len(cards) \in Nat /\ Len(cards) <= MaxCards
  BY DEF IInv, TypeOK
<1>2. Cardinality(Held) <= ConfirmMax
  BY DEF IInv, CardsOK
<1>3. Held \subseteq 1..Len(cards)
  BY DEF Held
<1>4. IsFiniteSet(1..Len(cards))
  BY <1>1, FS_Interval
<1>5. IsFiniteSet(Held)
  BY <1>3, <1>4, FS_Subset
<1>6. \A i \in 1..Len(cards) : cards[i] \in CardOf
  BY <1>1
<1>7. Cardinality(Held) \in Nat
  BY <1>5, FS_CardinalityType
<1> QED BY <1>1, <1>2, <1>3, <1>5, <1>6, <1>7

LEMMA GoneIs ==
    ASSUME IInv, NEW S
    PROVE  /\ Gone(S) \in Seq(CardOf) /\ Len(Gone(S)) = Len(cards)
           /\ \A i \in 1..Len(cards) :
                 /\ Gone(S)[i].conv = cards[i].conv /\ Gone(S)[i].calls = cards[i].calls
                 /\ Gone(S)[i].answer = cards[i].answer
                 /\ Gone(S)[i].held <=> cards[i].held /\ i \notin S
<1>1. \A i \in 1..Len(cards) :
        (IF i \in S THEN [cards[i] EXCEPT !.held = FALSE] ELSE cards[i]) \in CardOf
  BY CardsAre DEF CardOf
<1>2. Gone(S) \in Seq(CardOf) /\ Len(Gone(S)) = Len(cards)
  BY <1>1, CardsAre DEF Gone
<1>3. \A i \in 1..Len(cards) :
        Gone(S)[i] = IF i \in S THEN [cards[i] EXCEPT !.held = FALSE] ELSE cards[i]
  BY DEF Gone
<1> QED BY <1>2, <1>3, CardsAre DEF CardOf

\* fewer cards than before can be answered
LEMMA FewerHeld ==
    ASSUME IInv, NEW ds \in Seq(CardOf), Len(ds) = Len(cards), cards' = ds,
           \A i \in 1..Len(cards) : ds[i].held =>
                 cards[i].held /\ ds[i].conv = cards[i].conv /\ ds[i].answer = cards[i].answer
    PROVE  CardsOK'
<1>1. Held' \subseteq Held
  BY DEF Held
<1>2. Cardinality(Held') <= ConfirmMax
  <2>1. /\ IsFiniteSet(Held) /\ Cardinality(Held) \in Nat /\ Cardinality(Held) <= ConfirmMax
        /\ ConfirmMax \in Nat
    BY CardsAre, Consts
  <2>2. IsFiniteSet(Held') /\ Cardinality(Held') <= Cardinality(Held)
    BY <1>1, <2>1, FS_Subset
  <2>3. Cardinality(Held') \in Nat
    BY <2>2, FS_CardinalityType
  <2> QED BY <2>1, <2>2, <2>3
<1>3. \A i \in Held' : cards'[i].conv = cards[i].conv /\ cards'[i].answer = cards[i].answer
  BY DEF Held
<1>4. \A i \in Held' : cards'[i].answer = ""
  BY <1>1, <1>3 DEF CardsOK, IInv
<1>5. \A i, j \in Held' : cards'[i].conv = cards'[j].conv => i = j
  <2> SUFFICES ASSUME NEW i \in Held', NEW j \in Held', cards'[i].conv = cards'[j].conv
               PROVE  i = j
    OBVIOUS
  <2>1. i \in Held /\ j \in Held /\ cards[i].conv = cards[j].conv
    BY <1>1, <1>3
  <2> QED BY <2>1 DEF CardsOK, IInv
<1> QED BY <1>2, <1>4, <1>5 DEF CardsOK

\* the other turns when cards are added or answered
LEMMA CardsMove ==
    ASSUME IInv, NEW ds \in Seq(CardOf), cards' = ds, Len(ds) <= MaxCards,
           CardsGrow(cards, ds), CardsOK', UNCHANGED <<byCard, byOrder>>
    PROVE  /\ SentOK' /\ ApprovedOnce'
           /\ cards' \in Seq(CardOf) /\ Len(cards') <= MaxCards
           /\ \A q \in Reqs : SendOK(turn[q], ds, byCard) /\ AskOK(turn[q], ds)
<1>1. Len(ds) \in Nat /\ Len(cards) \in Nat /\ Len(cards) <= Len(ds)
  <2>1. Len(cards) \in Nat
    BY CardsAre
  <2> QED BY <2>1 DEF CardsGrow
<1>2. byCard \in [Card -> [Calls -> Nat]] /\ \A i \in Card : i \in Nat /\ i >= 1
  BY Consts DEF IInv, TypeOK, Card
<1>3. SentOK'
  BY <1>1, <1>2 DEF IInv, SentOK
<1>4. ApprovedOnce'
  <2> SUFFICES ASSUME NEW i \in Card, NEW c \in Calls
               PROVE  /\ byCard[i][c] <= 1
                      /\ byCard[i][c] = 1 => c \in ds[i].calls /\ ds[i].answer = "approve"
    BY DEF ApprovedOnce
  <2>1. byCard[i][c] <= 1 /\ (byCard[i][c] = 1 => c \in cards[i].calls /\ cards[i].answer = "approve")
    BY DEF IInv, ApprovedOnce
  <2>2. byCard[i][c] = 1 => i \in 1..Len(cards)
    BY <1>1, <1>2 DEF IInv, SentOK
  <2> QED BY <2>1, <2>2 DEF CardsGrow
<1>5. ASSUME NEW q \in Reqs PROVE SendOK(turn[q], ds, byCard) /\ AskOK(turn[q], ds)
  BY MyTurn, GrowKeeps, CardsAre
<1> QED BY <1>3, <1>4, <1>5

LEMMA ExpireStep ==
    ASSUME IInv, NEW i \in Card, Expire(i)
    PROVE  IInv'
<1> DEFINE ds == [cards EXCEPT ![i].late = TRUE]
<1>1. i \in 1..Len(cards) /\ cards' = ds /\ UNCHANGED <<turn, byCard, byOrder>>
  BY DEF Expire, Held
<1>2. /\ ds \in Seq(CardOf) /\ Len(ds) = Len(cards)
      /\ \A j \in 1..Len(cards) :
            ds[j] = IF j = i THEN [cards[i] EXCEPT !.late = TRUE] ELSE cards[j]
  <2>1. /\ cards \in Seq(CardOf) /\ cards[i] \in CardOf
    BY <1>1, CardsAre
  <2>2. [cards[i] EXCEPT !.late = TRUE] \in CardOf
    BY <2>1 DEF CardOf
  <2> QED BY <1>1, <2>1, <2>2
<1>3. \A j \in 1..Len(cards) :
        /\ ds[j].held = cards[j].held /\ ds[j].conv = cards[j].conv
        /\ ds[j].answer = cards[j].answer /\ ds[j].calls = cards[j].calls
  <2> SUFFICES ASSUME NEW j \in 1..Len(cards)
               PROVE  /\ ds[j].held = cards[j].held /\ ds[j].conv = cards[j].conv
                      /\ ds[j].answer = cards[j].answer /\ ds[j].calls = cards[j].calls
    OBVIOUS
  <2>1. cards[j] \in CardOf /\ ds[j] = IF j = i THEN [cards[i] EXCEPT !.late = TRUE] ELSE cards[j]
    BY CardsAre, <1>2
  <2> HIDE DEF ds
  <2>2. CASE j = i
    BY <2>1, <2>2 DEF CardOf
  <2>3. CASE j # i
    BY <2>1, <2>3
  <2> QED BY <2>2, <2>3
<1> HIDE DEF ds
<1>a. Len(cards) \in Nat /\ Len(cards) <= MaxCards
  BY CardsAre
<1>4. CardsOK'
  BY <1>1, <1>2, <1>3, FewerHeld
<1>5. CardsGrow(cards, ds)
  BY <1>2, <1>3, <1>a DEF CardsGrow
<1>6. /\ SentOK' /\ ApprovedOnce' /\ cards' \in Seq(CardOf) /\ Len(cards') <= MaxCards
      /\ \A q \in Reqs : SendOK(turn[q], ds, byCard) /\ AskOK(turn[q], ds)
  BY <1>1, <1>2, <1>4, <1>5, CardsAre, CardsMove
<1>7. TypeOK'
  BY <1>1, <1>6 DEF IInv, TypeOK
<1>8. TurnsOK'
  BY <1>1, <1>6 DEF IInv, TurnsOK
<1>9. OneTurn'
  BY <1>1 DEF IInv, OneTurn
<1> QED BY <1>4, <1>6, <1>7, <1>8, <1>9 DEF IInv

\* a turn begins, on a card perhaps
FreshTurn(t) ==
    /\ t.at = "persona" /\ t.conv \in Convs /\ t.pending = {} /\ t.card = 0 /\ t.final = "draft"
    /\ t.todo = {} /\ t.used = {}
    /\ t.from = 0 => t.approved = {}
OnCard(t, cs, ds) ==
    t.from # 0 => /\ t.from \in 1..Len(cs) /\ cs[t.from].answer = ""
                  /\ ds[t.from].answer = "approve" /\ t.approved \subseteq ds[t.from].calls

LEMMA TurnBegins ==
    ASSUME IInv, NEW p \in Reqs, NEW t \in Turns, NEW ds \in Seq(CardOf), cards' = ds,
           turn[p].at = "idle", turn' = [turn EXCEPT ![p] = t],
           Len(ds) <= MaxCards, CardsGrow(cards, ds), CardsOK', UNCHANGED <<byCard, byOrder>>,
           FreshTurn(t), OnCard(t, cards, ds)
    PROVE  IInv'
<1>1. /\ SentOK' /\ ApprovedOnce' /\ cards' \in Seq(CardOf) /\ Len(cards') <= MaxCards
      /\ \A q \in Reqs : SendOK(turn[q], ds, byCard) /\ AskOK(turn[q], ds)
  BY CardsMove
<1>2. turn \in [Reqs -> Turns] /\ byCard \in [Card -> [Calls -> Nat]]
      /\ byOrder \in [Reqs -> [Calls -> Nat]]
  BY DEF IInv, TypeOK
<1>3. TypeOK'
  BY <1>1, <1>2 DEF IInv, TypeOK
<1>4. Len(ds) \in Nat /\ Len(cards) \in Nat /\ Len(cards) <= Len(ds) /\ Len(cards) <= MaxCards
  <2>1. Len(cards) \in Nat /\ Len(cards) <= MaxCards
    BY CardsAre
  <2> QED BY <2>1 DEF CardsGrow
<1>5. ASSUME t.from # 0, NEW c \in Calls PROVE ~(byCard[t.from][c] > 0)
  <2>1. t.from \in Card
    <3>1. t.from \in 1..Len(cards) /\ MaxCards \in Nat
      BY <1>5, Consts DEF OnCard
    <3> QED BY <1>4, <3>1 DEF Card
  <2>2. byCard[t.from][c] \in Nat /\ byCard[t.from][c] <= 1 /\ byCard[t.from][c] # 1
    BY <1>2, <1>5, <2>1 DEF IInv, ApprovedOnce, OnCard
  <2> QED BY <2>2
<1>6. SendOK(t, ds, byCard) /\ AskOK(t, ds)
  <2>1. SendOK(t, ds, byCard)
    <3>1. t.from # 0 => /\ t.from <= Len(ds) /\ ds[t.from].answer = "approve"
                        /\ t.approved \subseteq ds[t.from].calls
      <4> SUFFICES ASSUME t.from # 0
                   PROVE  /\ t.from <= Len(ds) /\ ds[t.from].answer = "approve"
                          /\ t.approved \subseteq ds[t.from].calls
        OBVIOUS
      <4>1. t.from \in 1..Len(cards)
        BY DEF OnCard
      <4>2. t.from <= Len(ds)
        BY <1>4, <4>1
      <4> QED BY <4>2 DEF OnCard
    <3>2. t.from = 0 => t.approved = {}
      BY DEF FreshTurn
    <3>3. t.at = "persona" /\ t.todo = {} /\ t.used = {}
      BY DEF FreshTurn
    <3> QED BY <1>5, <3>1, <3>2, <3>3 DEF SendOK
  <2>2. AskOK(t, ds)
    BY DEF AskOK, FreshTurn
  <2> QED BY <2>1, <2>2
<1>7. OrderOK(t, byOrder[p])
  <2>1. \A c \in Calls : byOrder[p][c] \in Nat
    BY <1>2
  <2>2. OrderOK(turn[p], byOrder[p])
    BY MyTurn
  <2>3. \A c \in Calls : byOrder[p][c] = 0
    BY <2>1, <2>2 DEF OrderOK
  <2>4. t.used = {}
    BY DEF FreshTurn
  <2> QED BY <2>3, <2>4 DEF OrderOK
<1>8. TurnsOK'
  BY <1>1, <1>2, <1>6, <1>7 DEF IInv, TurnsOK
<1>9. OneTurn'
  <2>1. \A q \in Reqs : t.from # 0 => turn[q].from # t.from
    BY MyTurn DEF SendOK, OnCard
  <2> QED BY <1>2, <2>1 DEF IInv, OneTurn
<1> QED BY <1>1, <1>3, <1>8, <1>9 DEF IInv

LEMMA SayStep ==
    ASSUME IInv, NEW p \in Reqs, NEW conv \in Convs, NEW pat \in BOOLEAN,
           NEW order \in BOOLEAN, Say(p, conv, pat, order)
    PROVE  IInv'
<1> DEFINE S == {i \in Held : cards[i].conv = conv}
           ds == Gone(S)
           t == [Turn(conv, pat) EXCEPT !.order = order]
<1>1. /\ turn[p].at = "idle" /\ turn' = [turn EXCEPT ![p] = t] /\ cards' = ds
      /\ UNCHANGED <<byCard, byOrder>>
  BY DEF Say
<1>2. t \in Turns
  BY FreshIsTurn DEF Turns
<1>3. FreshTurn(t) /\ OnCard(t, cards, ds)
  BY DEF Turn, FreshTurn, OnCard
<1>4. /\ ds \in Seq(CardOf) /\ Len(ds) = Len(cards)
      /\ \A i \in 1..Len(cards) :
            /\ ds[i].conv = cards[i].conv /\ ds[i].calls = cards[i].calls
            /\ ds[i].answer = cards[i].answer /\ (ds[i].held => cards[i].held)
  BY GoneIs
<1>9. Len(cards) \in Nat /\ Len(cards) <= MaxCards
  BY CardsAre
<1> HIDE DEF ds, t
<1>5. CardsOK'
  <2>1. \A i \in 1..Len(cards) : ds[i].held =>
            cards[i].held /\ ds[i].conv = cards[i].conv /\ ds[i].answer = cards[i].answer
    BY <1>4
  <2> QED BY <1>1, <1>4, <2>1, FewerHeld
<1>6. CardsGrow(cards, ds) /\ Len(ds) <= MaxCards
  BY <1>4, <1>9 DEF CardsGrow
<1> QED BY <1>1, <1>2, <1>3, <1>4, <1>5, <1>6, TurnBegins

LEMMA ReplyStep ==
    ASSUME IInv, NEW p \in Reqs, NEW conv \in Convs, NEW pat \in BOOLEAN, NEW i \in Card,
           NEW verdict \in {"approve", "decline"}, Reply(p, conv, pat, i, verdict)
    PROVE  IInv'
<1> DEFINE mine == Matches(i, conv)
           good == mine /\ ~cards[i].late
           yes == good /\ verdict = "approve"
           answer == IF good THEN verdict ELSE cards[i].answer
           taken == [cards EXCEPT ![i].held = FALSE, ![i].answer = answer]
           ds == IF mine THEN taken ELSE cards
           t == [Turn(conv, pat) EXCEPT
                    !.from = IF yes THEN i ELSE 0,
                    !.approved = IF yes THEN cards[i].calls ELSE {},
                    !.noPat = yes /\ cards[i].pat /\ ~pat]
<1>1. /\ turn[p].at = "idle" /\ UNCHANGED <<byCard, byOrder>> /\ i \in 1..Len(cards)
      /\ turn' = [turn EXCEPT ![p] = t]
  BY DEF Reply
<1>2. cards' = ds
  <2>1. CASE mine
    <3>1. cards' = [cards EXCEPT ![i].held = FALSE, ![i].answer = IF good THEN verdict ELSE @]
      BY <2>1 DEF Reply
    <3>2. cards[i] \in CardOf /\ cards \in Seq(CardOf)
      BY <1>1, CardsAre
    <3>3. cards' = taken
      BY <1>1, <3>1, <3>2 DEF CardOf
    <3> QED BY <2>1, <3>3
  <2>2. CASE ~mine
    BY <2>2 DEF Reply
  <2> QED BY <2>1, <2>2
<1>3. cards[i] \in CardOf
  BY <1>1, CardsAre
<1>4. t \in Turns
  <2>1. /\ (IF yes THEN i ELSE 0) \in 0..MaxCards
        /\ (IF yes THEN cards[i].calls ELSE {}) \in SUBSET Calls
    <3>1. i \in 0..MaxCards /\ 0 \in 0..MaxCards
      BY Consts DEF Card
    <3>2. cards[i].calls \in SUBSET Calls
      BY <1>3 DEF CardOf
    <3> HIDE DEF yes
    <3> QED BY <3>1, <3>2
  <2>2. Turn(conv, pat) \in Turns
    BY FreshIsTurn
  <2> HIDE DEF yes
  <2> QED BY <2>1, <2>2 DEF Turns
<1>5. /\ FreshTurn(t)
      /\ t.from = (IF yes THEN i ELSE 0) /\ t.approved = (IF yes THEN cards[i].calls ELSE {})
  BY <1>1 DEF Turn, FreshTurn
<1>6. mine => cards[i].answer = "" /\ i \in Held
  BY DEF Matches, IInv, CardsOK
<1>7. /\ taken \in Seq(CardOf) /\ Len(taken) = Len(cards)
      /\ \A j \in 1..Len(cards) :
            taken[j] = IF j = i THEN [cards[i] EXCEPT !.held = FALSE, !.answer = answer]
                       ELSE cards[j]
  <2>1. answer \in {"", "approve", "decline"}
    BY <1>3 DEF CardOf
  <2>2. [cards[i] EXCEPT !.held = FALSE, !.answer = answer] \in CardOf
    BY <1>3, <2>1 DEF CardOf
  <2>3. cards \in Seq(CardOf)
    BY CardsAre
  <2>4. taken = [cards EXCEPT ![i] = [cards[i] EXCEPT !.held = FALSE, !.answer = answer]]
    BY <1>1, <1>3, <2>3 DEF CardOf
  <2> DEFINE a == [cards[i] EXCEPT !.held = FALSE, !.answer = answer]
  <2> HIDE DEF answer, a, taken
  <2>5. /\ [cards EXCEPT ![i] = a] \in Seq(CardOf) /\ Len([cards EXCEPT ![i] = a]) = Len(cards)
        /\ \A j \in 1..Len(cards) : [cards EXCEPT ![i] = a][j] = IF j = i THEN a ELSE cards[j]
    BY <1>1, <2>2, <2>3 DEF a
  <2> QED BY <2>4, <2>5 DEF a
<1>8. ds \in Seq(CardOf) /\ Len(ds) = Len(cards)
  BY <1>7, CardsAre
<1>10. /\ taken[i].calls = cards[i].calls /\ ~taken[i].held /\ taken[i].answer = answer
       /\ \A j \in 1..Len(cards) : j # i => taken[j] = cards[j]
  <2> HIDE DEF taken, answer
  <2>1. taken[i] = [cards[i] EXCEPT !.held = FALSE, !.answer = answer]
    BY <1>1, <1>7
  <2>2. \A j \in 1..Len(cards) : j # i => taken[j] = cards[j]
    BY <1>1, <1>7
  <2> QED BY <1>3, <2>1, <2>2 DEF CardOf
<1> HIDE DEF taken, t
<1>11. CardsOK'
  <2>1. \A j \in 1..Len(cards) : ds[j].held => ds[j] = cards[j]
    BY <1>10
  <2>2. \A j \in 1..Len(cards) : ds[j].held =>
            cards[j].held /\ ds[j].conv = cards[j].conv /\ ds[j].answer = cards[j].answer
    BY <2>1
  <2> HIDE DEF ds
  <2> QED BY <1>2, <1>8, <2>2, FewerHeld
<1>12. CardsGrow(cards, ds)
  <2>1. \A j \in 1..Len(cards) :
            /\ ds[j].calls = cards[j].calls
            /\ cards[j].answer = "approve" => ds[j].answer = "approve"
    BY <1>6, <1>10
  <2>2. Len(cards) \in Nat
    BY CardsAre
  <2> HIDE DEF ds
  <2>3. Len(cards) <= Len(ds)
    BY <1>8, <2>2
  <2> QED BY <2>1, <2>3 DEF CardsGrow
<1>13. OnCard(t, cards, ds)
  BY <1>1, <1>5, <1>6, <1>10 DEF OnCard
<1> HIDE DEF ds, yes
<1> QED BY <1>1, <1>2, <1>4, <1>5, <1>8, <1>11, <1>12, <1>13, CardsAre, TurnBegins

LEMMA LeastOf ==
    ASSUME NEW A \in SUBSET Nat, A # {}
    PROVE  \E m \in A : \A k \in A : m <= k
<1>1. PICK m \in A : \A k \in A : ~(<<k, m>> \in OpToRel(<, Nat))
  BY NatLessThanWellFounded, WFMin
<1>2. ASSUME NEW k \in A PROVE m <= k
  <2>1. ~(k < m)
    BY <1>1 DEF OpToRel
  <2> QED BY <2>1
<1> QED BY <1>2

\* What is kept of K when only the last ConfirmMax - 1 of it are.
LastOf(K) == {i \in K : ~(Cardinality({j \in K : j >= i}) >= ConfirmMax)}

LEMMA FewAreKept ==
    ASSUME NEW K \in SUBSET Nat, IsFiniteSet(K)
    PROVE  /\ IsFiniteSet(LastOf(K)) /\ Cardinality(LastOf(K)) \in Nat
           /\ Cardinality(LastOf(K)) < ConfirmMax
<1> DEFINE After(i) == {j \in K : j >= i}
           left == LastOf(K)
<1>1. left \subseteq K
  BY DEF LastOf
<1>2. IsFiniteSet(left) /\ Cardinality(left) \in Nat
  BY <1>1, FS_Subset, FS_CardinalityType
<1>3. CASE left = {}
  <2>1. Cardinality(left) = 0
    BY <1>3, FS_EmptySet
  <2> QED BY <1>2, <2>1, Consts
<1>4. CASE left # {}
  <2>1. PICK m \in left : \A i \in left : m <= i
    <3>1. left \subseteq Nat
      BY <1>1
    <3> HIDE DEF left
    <3> QED BY <1>4, <3>1, LeastOf
  <2>2. left \subseteq After(m)
    BY <1>1, <2>1
  <2>3. After(m) \subseteq K
    OBVIOUS
  <2>4. IsFiniteSet(After(m)) /\ Cardinality(After(m)) \in Nat
    BY <2>3, FS_Subset, FS_CardinalityType
  <2>5. ~(Cardinality(After(m)) >= ConfirmMax)
    BY <2>1 DEF LastOf
  <2> HIDE DEF After
  <2>6. Cardinality(left) <= Cardinality(After(m))
    BY <2>2, <2>4, FS_Subset
  <2> QED BY <1>2, <2>4, <2>5, <2>6, Consts
<1> QED BY <1>2, <1>3, <1>4

LEMMA CardMadeStep ==
    ASSUME IInv, NEW p \in Reqs, CardMade(p)
    PROVE  IInv'
<1> DEFINE conv == turn[p].conv
           keep == {i \in Held : cards[i].conv # conv /\ ~cards[i].late}
           over == {i \in keep : Cardinality({j \in keep : j >= i}) >= ConfirmMax}
           left == LastOf(keep)
           S == Held \ (keep \ over)
           old == Gone(S)
           new == [conv |-> conv, calls |-> turn[p].pending, pat |-> turn[p].pat, held |-> TRUE,
                   late |-> FALSE, answer |-> ""]
           ds == Append(old, new)
           n == Len(cards) + 1
           t == [turn[p] EXCEPT !.at = "check", !.card = n]
<1>1. /\ turn[p].at = "card" /\ Len(cards) < MaxCards /\ UNCHANGED <<byCard, byOrder>>
      /\ Set(p, t) /\ cards' = ds
  BY DEF CardMade, T, Stored
<1>2. turn[p] \in Turns /\ conv \in Convs /\ turn \in [Reqs -> Turns]
  BY <1>1, MyTurn DEF AskOK, IInv, TypeOK
<1>3. /\ cards \in Seq(CardOf) /\ Len(cards) \in Nat /\ n \in 1..MaxCards
      /\ Held \subseteq 1..Len(cards) /\ IsFiniteSet(Held)
  <2>1. /\ cards \in Seq(CardOf) /\ Len(cards) \in Nat
        /\ Held \subseteq 1..Len(cards) /\ IsFiniteSet(Held)
    BY CardsAre
  <2>2. n \in 1..MaxCards
    <3>1. Len(cards) < MaxCards
      BY <1>1
    <3> QED BY <2>1, <3>1, Consts
  <2> QED BY <2>1, <2>2
<1>4. keep \subseteq Held /\ keep \subseteq Nat /\ IsFiniteSet(keep)
  <2>1. keep \subseteq Held
    OBVIOUS
  <2> HIDE DEF keep
  <2>2. IsFiniteSet(keep)
    BY <1>3, <2>1, FS_Subset
  <2> QED BY <1>3, <2>1, <2>2
<1>5. IsFiniteSet(left) /\ Cardinality(left) \in Nat /\ Cardinality(left) < ConfirmMax
  <2> HIDE DEF keep
  <2> QED BY <1>4, FewAreKept
<1>6. left = keep \ over /\ left \subseteq keep
  BY DEF LastOf
<1>7. /\ old \in Seq(CardOf) /\ Len(old) = Len(cards)
      /\ \A i \in 1..Len(cards) :
            /\ old[i].conv = cards[i].conv /\ old[i].calls = cards[i].calls
            /\ old[i].answer = cards[i].answer
            /\ old[i].held <=> cards[i].held /\ i \notin S
  BY GoneIs
<1>8. new \in CardOf
  BY <1>2 DEF CardOf, Turns
<1>9. /\ new.calls = turn[p].pending /\ new.held = TRUE /\ new.conv = conv /\ new.answer = ""
  OBVIOUS
<1>10. \A i \in Held : i \notin S <=> i \in left
  BY <1>6
<1>11. \A i \in left : cards[i].conv # conv /\ i \in Held
  BY <1>6
<1> HIDE DEF keep, over, left, S, old, new
<1>12. /\ ds \in Seq(CardOf) /\ Len(ds) = n /\ ds[n] = new
       /\ \A i \in 1..Len(cards) : ds[i] = old[i]
  BY <1>3, <1>7, <1>8
<1> HIDE DEF ds
<1>13. Held' = left \cup {n}
  <2>1. Held' = {i \in 1..n : ds[i].held}
    BY <1>1, <1>12 DEF Held
  <2>2. \A i \in 1..Len(cards) : ds[i].held <=> i \in left
    <3>1. \A i \in 1..Len(cards) : ds[i].held <=> cards[i].held /\ i \notin S
      BY <1>7, <1>12
    <3>2. \A i \in 1..Len(cards) : cards[i].held <=> i \in Held
      BY DEF Held
    <3> QED BY <1>10, <1>11, <3>1, <3>2
  <2>3. ds[n].held
    BY <1>9, <1>12
  <2>4. \A i : i \in 1..n <=> i \in 1..Len(cards) \/ i = n
    BY <1>3
  <2>5. left \subseteq 1..Len(cards)
    BY <1>3, <1>11
  <2> HIDE DEF n
  <2> QED BY <2>1, <2>2, <2>3, <2>4, <2>5
<1>14. CardsOK'
  <2>1. Cardinality(Held') <= ConfirmMax
    <3>1. n \notin left
      BY <1>3, <1>11
    <3> HIDE DEF n
    <3>2. Cardinality(left \cup {n}) = Cardinality(left) + 1
      BY <1>5, <3>1, FS_AddElement
    <3> QED BY <1>5, <1>13, <3>2, Consts
  <2>2. \A i \in left : i \in 1..Len(cards) /\ i \in Held
    BY <1>3, <1>11
  <2>3. \A i \in left : /\ cards'[i].answer = cards[i].answer /\ cards'[i].conv = cards[i].conv
                        /\ cards[i].conv # conv
    BY <1>1, <1>7, <1>11, <1>12, <2>2
  <2>4. cards'[n].answer = "" /\ cards'[n].conv = conv
    BY <1>1, <1>9, <1>12
  <2> HIDE DEF n, conv
  <2>5. \A i \in Held' : cards'[i].answer = ""
    BY <1>13, <2>2, <2>3, <2>4 DEF IInv, CardsOK
  <2>6. ASSUME NEW i \in Held', NEW j \in Held', cards'[i].conv = cards'[j].conv PROVE i = j
    <3>1. CASE i \in left /\ j \in left
      BY <2>2, <2>3, <2>6, <3>1 DEF IInv, CardsOK
    <3>2. CASE i = n /\ j = n
      BY <3>2
    <3>3. CASE i = n /\ j \in left
      BY <2>3, <2>4, <2>6, <3>3
    <3>4. CASE i \in left /\ j = n
      BY <2>3, <2>4, <2>6, <3>4
    <3> QED BY <1>13, <3>1, <3>2, <3>3, <3>4
  <2> QED BY <2>1, <2>5, <2>6 DEF CardsOK
<1>15. CardsGrow(cards, ds)
  <2>1. Len(cards) <= Len(ds)
    BY <1>3, <1>12
  <2> QED BY <1>7, <1>12, <2>1 DEF CardsGrow
<1>16. Len(ds) <= MaxCards
  BY <1>3, <1>12
<1>17. /\ SentOK' /\ ApprovedOnce' /\ cards' \in Seq(CardOf) /\ Len(cards') <= MaxCards
       /\ \A q \in Reqs : SendOK(turn[q], ds, byCard) /\ AskOK(turn[q], ds)
  BY <1>1, <1>12, <1>14, <1>15, <1>16, CardsMove
<1>18. t \in Turns
  <2>1. n \in 0..MaxCards
    BY <1>3, Consts
  <2> HIDE DEF n
  <2> QED BY <1>2, <2>1 DEF Turns, TurnAt
<1>19. turn' = [turn EXCEPT ![p] = t]
  <2>1. t.at = "check"
    BY <1>2 DEF Turns
  <2> HIDE DEF t
  <2> QED BY <1>1, <1>18, <2>1, KeptFrom DEF Set
<1>20. SendOK(t, ds, byCard) /\ OrderOK(t, byOrder[p]) /\ t.from = turn[p].from
  <2>1. /\ t.at = "check" /\ t.from = turn[p].from /\ t.approved = turn[p].approved
        /\ t.todo = turn[p].todo /\ t.used = turn[p].used /\ t.order = turn[p].order
    BY <1>2 DEF Turns
  <2>2. SendOK(turn[p], ds, byCard) /\ OrderOK(turn[p], byOrder[p])
    BY <1>17, MyTurn
  <2> HIDE DEF t
  <2> QED BY <1>1, <2>1, <2>2 DEF SendOK, OrderOK
<1>21. AskOK(t, ds)
  <2>1. /\ t.at = "check" /\ t.card = n /\ t.conv = turn[p].conv /\ t.pending = turn[p].pending
        /\ t.final = turn[p].final
    BY <1>2 DEF Turns
  <2>2. turn[p].final = "draft" /\ turn[p].conv \in Convs
    BY <1>1, <1>2, MyTurn DEF AskOK
  <2>3. n # 0 /\ n <= Len(ds) /\ ds[n].calls = turn[p].pending
    <3>1. n # 0 /\ n <= Len(ds)
      BY <1>3, <1>12
    <3> QED BY <1>9, <1>12, <3>1
  <2> HIDE DEF t, n
  <2> QED BY <2>1, <2>2, <2>3 DEF AskOK
<1> HIDE DEF t
<1>22. TypeOK'
  BY <1>1, <1>2, <1>17, <1>18, <1>19 DEF IInv, TypeOK
<1>23. TurnsOK'
  BY <1>1, <1>2, <1>17, <1>19, <1>20, <1>21, MyTurn DEF TurnsOK
<1>24. OneTurn'
  BY <1>2, <1>19, <1>20 DEF IInv, OneTurn
<1> QED BY <1>14, <1>17, <1>22, <1>23, <1>24 DEF IInv

-----------------------------------------------------------------------------
(* The beginning, and every step.                                           *)

LEMMA InitIsOK == Init => IInv
<1> SUFFICES ASSUME Init PROVE IInv
  OBVIOUS
<1>1. /\ turn = [p \in Reqs |-> Idle] /\ byOrder = [p \in Reqs |-> [c \in Calls |-> 0]]
      /\ byCard = [i \in Card |-> [c \in Calls |-> 0]]
  BY DEF Init, Zero
<1>2. /\ cards \in Seq(CardOf) /\ Len(cards) <= MaxCards /\ Cardinality(Held) <= ConfirmMax
      /\ \A i \in Held : cards[i].answer = ""
      /\ \A i, j \in Held : cards[i].conv = cards[j].conv => i = j
  BY EarlierAssumption DEF Init, Held
<1>3. TypeOK
  BY <1>1, <1>2, IdleIsTurn DEF TypeOK
<1>4. CardsOK
  BY <1>2 DEF CardsOK
<1>5. /\ Idle.at = "idle" /\ Idle.from = 0 /\ Idle.approved = {} /\ Idle.todo = {}
      /\ Idle.used = {} /\ Idle.pending = {} /\ Idle.card = 0 /\ Idle.final = "draft"
  BY DEF Idle, Turn
<1>6. TurnsOK
  <2> SUFFICES ASSUME NEW p \in Reqs
               PROVE  SendOK(Idle, cards, byCard) /\ OrderOK(Idle, byOrder[p]) /\ AskOK(Idle, cards)
    BY <1>1 DEF TurnsOK
  <2>1. SendOK(Idle, cards, byCard)
    BY <1>5 DEF SendOK
  <2>2. OrderOK(Idle, byOrder[p])
    BY <1>1, <1>5 DEF OrderOK
  <2>3. AskOK(Idle, cards)
    BY <1>5 DEF AskOK
  <2> QED BY <2>1, <2>2, <2>3
<1>7. OneTurn /\ SentOK /\ ApprovedOnce
  BY <1>1, <1>5 DEF OneTurn, SentOK, ApprovedOnce
<1> QED BY <1>3, <1>4, <1>6, <1>7 DEF IInv

\* web deliberations run beside the turns
LEMMA ChatUnchanged ==
    ASSUME IInv, UNCHANGED chatvars
    PROVE  IInv'
<1>1. UNCHANGED <<cards, turn, byCard, byOrder>>
  BY DEF chatvars
<1> QED BY <1>1 DEF IInv, TypeOK, CardsOK, TurnsOK, OneTurn, SentOK, ApprovedOnce, Held

LEMMA TurnStepKeeps ==
    ASSUME IInv, NEW p \in Reqs, TurnStep(p)
    PROVE  IInv'
<1>1. CASE Persona(p) \/ Brief(p) \/ Approve(p) \/ SendsDone(p)
  BY <1>1, PersonaStep, BriefStep, ApproveStep, SendsDoneStep
<1>2. ASSUME NEW c \in Calls, Send(p, c) \/ ToolEnd(p, c) \/ WaitEnd(p, c)
                              \/ ToolStart(p, c) \/ WaitStart(p, c) \/ Direct(p, c)
      PROVE  IInv'
  BY <1>2, SendStep, ToolEndStep, WaitEndStep, ToolStartStep, WaitStartStep, DirectStep
<1>3. ASSUME NEW S \in SUBSET Calls, ModelCalls(p, S) PROVE IInv'
  BY <1>3, ModelCallsStep
<1>4. CASE ModelStops(p) \/ ModelAnswers(p) \/ ModelFails(p) \/ AfterError(p)
  BY <1>4, ModelStopsStep, ModelAnswersStep, ModelFailsStep, AfterErrorStep
<1>5. CASE ToolsDone(p) \/ Again(p) \/ PostDone(p) \/ CardMade(p) \/ SelfCheck(p)
  BY <1>5, ToolsDoneStep, AgainStep, PostDoneStep, CardMadeStep, SelfCheckStep
<1> QED BY <1>1, <1>2, <1>3, <1>4, <1>5 DEF TurnStep

LEMMA RunStepKeeps ==
    ASSUME IInv, NEW p \in Reqs, RunStep(p) \/ Shutdown(p) \/ Stop(p)
    PROVE  IInv'
<1>1. UNCHANGED chatvars
  <2>1. CASE RunStep(p)
    BY <2>1 DEF RunStep, Finishing, Decision, EngineEnds, CancelArrives, Callback, RunIs
  <2>2. CASE Shutdown(p) \/ Stop(p)
    BY <2>2 DEF Shutdown, Stop, RunIs
  <2> QED BY <2>1, <2>2
<1> QED BY <1>1, ChatUnchanged

LEMMA ArriveKeeps ==
    ASSUME IInv, NEW p \in Reqs, Arrive(p)
    PROVE  IInv'
<1>1. PICK conv \in Convs :
        \/ Deliberate(p, conv)
        \/ \E pat \in BOOLEAN :
              \/ \E order \in BOOLEAN : Say(p, conv, pat, order)
              \/ \E i \in Card, v \in {"approve", "decline"} : Reply(p, conv, pat, i, v)
  BY DEF Arrive
<1>2. CASE Deliberate(p, conv)
  BY <1>2, ChatUnchanged DEF Deliberate, RunIs
<1>3. ASSUME NEW pat \in BOOLEAN, NEW order \in BOOLEAN, Say(p, conv, pat, order) PROVE IInv'
  BY <1>3, SayStep
<1>4. ASSUME NEW pat \in BOOLEAN, NEW i \in Card, NEW v \in {"approve", "decline"},
             Reply(p, conv, pat, i, v)
      PROVE  IInv'
  BY <1>4, ReplyStep
<1> QED BY <1>1, <1>2, <1>3, <1>4

\* What turns, cards and counts always satisfy: IInv is inductive.
THEOREM ChatInvariant == Spec => []IInv
<1>1. IInv /\ [Next]_vars => IInv'
  <2> SUFFICES ASSUME IInv, [Next]_vars PROVE IInv'
    OBVIOUS
  <2>1. CASE UNCHANGED vars
    BY <2>1, ChatUnchanged DEF vars, chatvars
  <2>2. CASE Next
    <3>1. ASSUME NEW p \in Reqs, TurnStep(p) PROVE IInv'
      BY <3>1, TurnStepKeeps
    <3>2. ASSUME NEW p \in Reqs, RunStep(p) \/ Shutdown(p) \/ Stop(p) PROVE IInv'
      BY <3>2, RunStepKeeps
    <3>3. ASSUME NEW p \in Reqs, Arrive(p) PROVE IInv'
      BY <3>3, ArriveKeeps
    <3>4. ASSUME NEW p \in Reqs, ClientGoes(p) PROVE IInv'
      BY <3>4, ClientGoesStep
    <3>5. ASSUME NEW i \in Card, Expire(i) PROVE IInv'
      BY <3>5, ExpireStep
    <3> QED BY <2>2, <3>1, <3>2, <3>3, <3>4, <3>5 DEF Next
  <2> QED BY <2>1, <2>2
<1> QED BY InitIsOK, <1>1, PTL DEF Spec

\* However often an approval is sent and a turn is run again, a card's call is
\* sent once, if the card was approved and names it, and so is a call that a
\* turn's own words order.
THEOREM NothingIsSentTwice == Spec => []CalledOnce
<1>1. IInv => CalledOnce
  <2> SUFFICES ASSUME IInv PROVE OrderedOnce
    BY DEF CalledOnce, IInv
  <2> QED BY DEF IInv, TurnsOK, OrderOK, OrderedOnce, T
<1> QED BY ChatInvariant, <1>1, PTL

\* A turn that ends in an answer after holding calls ends with a card that
\* asks for them, and one card of a conversation can be answered.
THEOREM HeldCallsAreAsked == Spec => []CardIsAsked
<1>1. IInv => CardIsAsked
  <2> SUFFICES ASSUME IInv PROVE HeldIsAsked /\ OneCardToAnswer
    BY DEF CardIsAsked
  <2>1. OneCardToAnswer
    BY DEF IInv, CardsOK, OneCardToAnswer
  <2>2. HeldIsAsked
    BY MyTurn DEF HeldIsAsked, AskOK, T
  <2> QED BY <2>1, <2>2
<1> QED BY ChatInvariant, <1>1, PTL

-----------------------------------------------------------------------------
(* Web deliberations.                                                       *)

Frame == {"finishing", "decision", "done", "error", "stopped", "end"}
Runs ==
    [task : {"idle", "runs", "ended", "cancel", "cancelled"}, finishing : BOOLEAN, error : BOOLEAN,
     state : {"running", "cancelling", "cancelled", "interrupted", "error", "done"},
     conv : Convs \cup {0}, stage : Nat, q : Seq(Frame)]

\* No frame before the callback says how it ends; a run that is being stopped
\* has no decision under way; the callback's frames are the last ones and agree
\* with the record.
RunOK(r) ==
    /\ r.state \in {"cancelling", "cancelled"} /\ r.q # <<>> => r.q[Len(r.q)] # "finishing"
    /\ r.task \in {"idle", "runs"} => r.state = "running"
    /\ r.task = "cancel" => r.state \in {"running", "cancelling"}
    /\ r.task \in {"runs", "cancel"} /\ r.q # <<>> =>
          (r.q[Len(r.q)] = "finishing" => r.finishing)
    /\ \A i \in 1..Len(r.q) :
          /\ r.q[i] = "end" =>
                /\ i = Len(r.q) /\ r.task \in {"ended", "cancelled"}
                /\ r.state \notin {"running", "cancelling"}
                /\ r.state = "cancelled" <=> \E j \in 1..Len(r.q) : r.q[j] = "stopped"
          /\ r.q[i] = "stopped" => /\ r.q[Len(r.q)] = "end"
                                   /\ i = 1 \/ r.q[i - 1] # "finishing"

RInv == run \in [Reqs -> Runs] /\ \A p \in Reqs : RunOK(run[p])

LEMMA PutIs ==
    ASSUME NEW r \in Runs, NEW f \in Frame
    PROVE  /\ Put(r, <<f>>) \in Runs
           /\ Len(Put(r, <<f>>).q) = Len(r.q) + 1 /\ Len(r.q) \in Nat
           /\ Put(r, <<f>>).q[Len(r.q) + 1] = f
           /\ \A i \in 1..Len(r.q) : Put(r, <<f>>).q[i] = r.q[i]
           /\ Put(r, <<f>>).task = r.task /\ Put(r, <<f>>).state = r.state
           /\ Put(r, <<f>>).finishing = r.finishing
<1> DEFINE q == r.q \o <<f>>
<1>1. r.q \in Seq(Frame)
  BY DEF Runs
<1>2. /\ q \in Seq(Frame) /\ Len(q) = Len(r.q) + 1 /\ Len(r.q) \in Nat
      /\ q[Len(r.q) + 1] = f /\ \A i \in 1..Len(r.q) : q[i] = r.q[i]
  BY <1>1
<1>3. Put(r, <<f>>) = [r EXCEPT !.q = q]
  BY DEF Put, Runs
<1> HIDE DEF q
<1> QED BY <1>2, <1>3 DEF Runs

LEMMA ThreeMore ==
    ASSUME NEW S, NEW a \in Seq(S), NEW b \in Seq(S), Len(b) = 3
    PROVE  /\ a \o b \in Seq(S) /\ Len(a \o b) = Len(a) + 3
           /\ \A i \in 1..Len(a) : (a \o b)[i] = a[i]
           /\ (a \o b)[Len(a) + 1] = b[1] /\ (a \o b)[Len(a) + 2] = b[2]
           /\ (a \o b)[Len(a) + 3] = b[3]
<1> DEFINE c == a \o b
<1>1. Len(a) \in Nat
  OBVIOUS
<1>2. /\ c \in Seq(S) /\ Len(c) = Len(a) + Len(b)
      /\ \A i \in 1..(Len(a) + Len(b)) : c[i] = IF i <= Len(a) THEN a[i] ELSE b[i - Len(a)]
  BY ConcatProperties
<1> HIDE DEF c
<1>3. /\ c[Len(a) + 1] = b[1] /\ c[Len(a) + 2] = b[2] /\ c[Len(a) + 3] = b[3]
  <2>1. /\ (Len(a) + 1) - Len(a) = 1 /\ (Len(a) + 2) - Len(a) = 2 /\ (Len(a) + 3) - Len(a) = 3
    BY <1>1
  <2> QED BY <1>1, <1>2, <2>1
<1>4. \A i \in 1..Len(a) : c[i] = a[i]
  BY <1>1, <1>2
<1> QED BY <1>2, <1>3, <1>4 DEF c

LEMMA IdleRunIsOK == NoRun \in Runs /\ RunOK(NoRun)
<1>1. /\ NoRun.task = "idle" /\ NoRun.state = "running" /\ NoRun.q = <<>>
      /\ NoRun = [task |-> "idle", state |-> "running", finishing |-> FALSE, error |-> FALSE,
                  conv |-> 0, stage |-> 0, q |-> <<>>]
  BY DEF NoRun
<1>2. <<>> \in Seq(Frame) /\ Len(<<>>) = 0
  OBVIOUS
<1>3. NoRun \in Runs
  BY <1>1, <1>2 DEF Runs
<1>4. RunOK(NoRun)
  BY <1>1, <1>2 DEF RunOK
<1> QED BY <1>3, <1>4

\* a run that takes no frame from its queue to a step that leaves it
LEMMA QuietStep ==
    ASSUME NEW r \in Runs, RunOK(r), NEW s \in Runs, s.q = r.q,
           r.task \in {"runs", "cancel"}, s.finishing = r.finishing,
           \/ s.task = "cancelled" /\ s.state = r.state /\ r.task = "cancel"
           \/ s.task = "cancel" /\ s.state = r.state /\ r.task = "runs"
           \/ s.task = "cancel" /\ s.state = "cancelling" /\ r.state = "running" /\ ~r.finishing
    PROVE  RunOK(s)
<1>1. \A i \in 1..Len(r.q) : r.q[i] # "end"
  BY DEF RunOK
<1>2. Len(r.q) \in Nat /\ r.q \in Seq(Frame)
  BY DEF Runs
<1>3. \A i \in 1..Len(r.q) : r.q[i] # "stopped"
  <2> SUFFICES ASSUME NEW i \in 1..Len(r.q), r.q[i] = "stopped" PROVE FALSE
    OBVIOUS
  <2>1. r.q[Len(r.q)] = "end"
    BY DEF RunOK
  <2> QED BY <1>1, <1>2, <2>1
<1> QED BY <1>1, <1>3 DEF RunOK

\* a run that is not being stopped tells one frame more
LEMMA PutStep ==
    ASSUME NEW r \in Runs, RunOK(r), r.task = "runs", NEW f \in {"finishing", "decision", "done", "error"},
           NEW s \in Runs, s.q = Put(r, <<f>>).q, s.task \in {"runs", "ended"}, s.state = r.state,
           f = "finishing" => s.finishing
    PROVE  RunOK(s)
<1> DEFINE n == Len(r.q) + 1
<1>1. f \in Frame
  BY DEF Frame
<1>2. /\ Len(s.q) = n /\ n - 1 = Len(r.q) /\ Len(r.q) \in Nat /\ s.q[n] = f
      /\ \A i \in 1..Len(r.q) : s.q[i] = r.q[i]
  BY <1>1, PutIs
<1>3. r.state = "running" /\ \A i \in 1..Len(r.q) : r.q[i] # "end"
  BY DEF RunOK
<1>4. \A i \in 1..Len(r.q) : r.q[i] # "stopped"
  <2> SUFFICES ASSUME NEW i \in 1..Len(r.q), r.q[i] = "stopped" PROVE FALSE
    OBVIOUS
  <2>1. r.q[Len(r.q)] = "end"
    BY DEF RunOK
  <2> QED BY <1>2, <1>3, <2>1
<1>5. \A i \in 1..n : s.q[i] # "end" /\ s.q[i] # "stopped"
  BY <1>2, <1>3, <1>4
<1> HIDE DEF n
<1> QED BY <1>2, <1>3, <1>5 DEF RunOK

LEMMA ClosedIs ==
    ASSUME NEW r \in Runs
    PROVE  /\ Closed(r) \in Runs /\ Closed(r).q = r.q /\ Closed(r).task = r.task
           /\ Closed(r).state \notin {"running", "cancelling"}
           /\ Closed(r).state = "cancelled" <=> r.state \in {"cancelling", "cancelled"}
           /\ Closed(r).finishing = r.finishing
<1>1. CASE r.state \notin {"running", "cancelling"}
  BY <1>1 DEF Closed
<1>2. CASE r.state \in {"running", "cancelling"}
  <2> DEFINE x == IF r.state = "cancelling" THEN "cancelled"
                  ELSE IF r.task = "cancelled" THEN "interrupted"
                  ELSE IF r.error THEN "error" ELSE "done"
  <2>1. /\ x \in {"cancelled", "interrupted", "error", "done"}
        /\ x = "cancelled" <=> r.state = "cancelling"
    OBVIOUS
  <2>2. Closed(r) = [r EXCEPT !.state = x]
    BY <1>2 DEF Closed, Runs
  <2> HIDE DEF x
  <2> QED BY <1>2, <2>1, <2>2 DEF Runs
<1> QED BY <1>1, <1>2

\* the callback, or a stop that comes before it
LEMMA ClosedStep ==
    ASSUME NEW r \in Runs, RunOK(r), r.task \in {"ended", "cancelled"},
           \A i \in 1..Len(r.q) : r.q[i] # "end"
    PROVE  LET told == IF r.state \in {"cancelling", "cancelled"}
                       THEN <<"stopped", "done", "end">> ELSE <<"end">>
           IN Closed(Put(r, told)) \in Runs /\ RunOK(Closed(Put(r, told)))
<1> DEFINE told == IF r.state \in {"cancelling", "cancelled"}
                   THEN <<"stopped", "done", "end">> ELSE <<"end">>
           b == Put(r, told)
           s == Closed(b)
           k == Len(r.q)
<1>1. r.q \in Seq(Frame) /\ k \in Nat
  BY DEF Runs
<1>2. \A i \in 1..k : r.q[i] # "stopped"
  <2> SUFFICES ASSUME NEW i \in 1..k, r.q[i] = "stopped" PROVE FALSE
    OBVIOUS
  <2>1. r.q[k] = "end"
    BY DEF RunOK
  <2> QED BY <1>1, <2>1
<1>3. CASE r.state \in {"cancelling", "cancelled"}
  <2>1. told = <<"stopped", "done", "end">>
    BY <1>3
  <2> HIDE DEF told
  <2>2. b = [r EXCEPT !.q = r.q \o told]
    BY DEF Put, Runs
  <2>3. told \in Seq(Frame) /\ Len(told) = 3 /\ told[1] = "stopped" /\ told[2] = "done" /\ told[3] = "end"
    BY <2>1 DEF Frame
  <2>4. /\ r.q \o told \in Seq(Frame) /\ Len(r.q \o told) = k + 3
        /\ \A i \in 1..k : (r.q \o told)[i] = r.q[i]
        /\ (r.q \o told)[k + 1] = "stopped" /\ (r.q \o told)[k + 2] = "done"
        /\ (r.q \o told)[k + 3] = "end"
    BY <1>1, <2>3, ThreeMore
  <2>5. b \in Runs /\ b.q = r.q \o told /\ b.task = r.task /\ b.state = r.state
    BY <2>2, <2>4 DEF Runs
  <2> HIDE DEF b
  <2>6. /\ s \in Runs /\ s.q = r.q \o told /\ s.task = r.task /\ s.state = "cancelled"
    BY <1>3, <2>5, ClosedIs
  <2> HIDE DEF s
  <2>7. k > 0 => r.q[k] # "finishing"
    BY <1>1, <1>3 DEF RunOK
  <2>8. \A i \in 1..(k + 3) : i \in 1..k \/ i = k + 1 \/ i = k + 2 \/ i = k + 3
    BY <1>1
  <2>9. \A i \in 1..(k + 3) : /\ s.q[i] = "end" => i = k + 3
                              /\ s.q[i] = "stopped" => i = k + 1
    BY <1>1, <1>2, <2>4, <2>6, <2>8
  <2>10. k + 1 = 1 \/ s.q[(k + 1) - 1] # "finishing"
    BY <1>1, <2>4, <2>6, <2>7
  <2>11. RunOK(s)
    <3>1. Len(s.q) = k + 3 /\ s.q[k + 3] = "end" /\ s.q[k + 1] = "stopped" /\ k + 1 \in 1..(k + 3)
      BY <1>1, <2>4, <2>6
    <3> HIDE DEF k
    <3>2. \E j \in 1..Len(s.q) : s.q[j] = "stopped"
      BY <3>1
    <3> QED BY <1>1, <2>6, <2>9, <2>10, <3>1, <3>2 DEF RunOK
  <2>12. s \in Runs /\ RunOK(s)
    BY <2>6, <2>11
  <2> QED BY <2>12 DEF s, b, told
<1>4. CASE r.state \notin {"cancelling", "cancelled"}
  <2>1. told = <<"end">>
    BY <1>4
  <2>2. b = Put(r, <<"end">>)
    BY <2>1
  <2> HIDE DEF told, b
  <2>3. /\ b \in Runs /\ Len(b.q) = k + 1 /\ b.q[k + 1] = "end" /\ b.task = r.task
        /\ b.state = r.state /\ \A i \in 1..k : b.q[i] = r.q[i]
    BY <2>2, PutIs DEF Frame
  <2>4. s \in Runs /\ s.q = b.q /\ s.task = r.task /\ s.state \notin {"running", "cancelling", "cancelled"}
    BY <1>4, <2>3, ClosedIs
  <2> HIDE DEF s
  <2>5. \A i \in 1..(k + 1) : /\ s.q[i] = "end" => i = k + 1
                              /\ s.q[i] # "stopped"
    BY <1>1, <1>2, <2>3, <2>4
  <2>6. RunOK(s)
    BY <1>1, <2>3, <2>4, <2>5 DEF RunOK
  <2>7. s \in Runs /\ RunOK(s)
    BY <2>4, <2>6
  <2> QED BY <2>7 DEF s, b, told
<1> QED BY <1>3, <1>4

LEMMA RunMoves ==
    ASSUME RInv, NEW p \in Reqs, NEW r \in Runs, RunOK(r), RunIs(p, r)
    PROVE  RInv'
BY DEF RunIs, RInv

LEMMA RunStepIsOK ==
    ASSUME RInv, NEW p \in Reqs, RunStep(p)
    PROVE  RInv'
<1> DEFINE r == run[p]
<1>1. r \in Runs /\ RunOK(r)
  BY DEF RInv
<1>2. CASE Finishing(p)
  <2> DEFINE u == Put(r, <<"finishing">>)
             s == [u EXCEPT !.finishing = TRUE]
  <2>1. RunIs(p, s) /\ r.task = "runs"
    BY <1>2 DEF Finishing, Q
  <2>2. u \in Runs /\ u.task = r.task /\ u.state = r.state
    BY <1>1, PutIs DEF Frame
  <2> HIDE DEF u
  <2>3. /\ s \in Runs /\ s.q = u.q /\ s.task = "runs" /\ s.state = r.state /\ s.finishing = TRUE
    BY <2>1, <2>2 DEF Runs
  <2>4. RunOK(s)
    <3> HIDE DEF s
    <3> QED BY <1>1, <2>1, <2>3, PutStep DEF u
  <2> QED BY <2>1, <2>3, <2>4, RunMoves
<1>3. CASE Decision(p)
  <2> DEFINE u == Put(r, <<"decision">>)
             s == [u EXCEPT !.finishing = FALSE, !.stage = @ + 1]
  <2>1. RunIs(p, s) /\ r.task = "runs"
    BY <1>3 DEF Decision, Q
  <2>2. u \in Runs /\ u.task = r.task /\ u.state = r.state
    BY <1>1, PutIs DEF Frame
  <2> HIDE DEF u
  <2>3. u.stage + 1 \in Nat
    BY <2>2 DEF Runs
  <2>4. /\ s \in Runs /\ s.q = u.q /\ s.task = "runs" /\ s.state = r.state
    BY <2>1, <2>2, <2>3 DEF Runs
  <2>5. RunOK(s)
    <3> HIDE DEF s
    <3> QED BY <1>1, <2>1, <2>4, PutStep DEF u
  <2> QED BY <2>1, <2>4, <2>5, RunMoves
<1>4. CASE EngineEnds(p)
  <2>1. /\ r.task = "runs"
        /\ \/ RunIs(p, [Put(r, <<"done">>) EXCEPT !.task = "ended"])
           \/ RunIs(p, [Put(r, <<"error">>) EXCEPT !.task = "ended", !.error = TRUE])
    BY <1>4 DEF EngineEnds, Q
  <2>2. ASSUME NEW f \in {"done", "error"}
        PROVE  /\ Put(r, <<f>>) \in Runs /\ Put(r, <<f>>).state = r.state
    BY <1>1, PutIs DEF Frame
  <2>3. CASE RunIs(p, [Put(r, <<"done">>) EXCEPT !.task = "ended"])
    <3> DEFINE u == Put(r, <<"done">>)
               s == [u EXCEPT !.task = "ended"]
    <3>1. u \in Runs /\ u.state = r.state
      BY <2>2
    <3>2. RunIs(p, s)
      BY <2>3
    <3> HIDE DEF u
    <3>3. s \in Runs /\ s.q = u.q /\ s.task = "ended" /\ s.state = r.state
      BY <3>1 DEF Runs
    <3>4. RunOK(s)
      <4> HIDE DEF s
      <4> QED BY <1>1, <2>1, <3>3, PutStep DEF u
    <3> QED BY <3>2, <3>3, <3>4, RunMoves
  <2>4. CASE RunIs(p, [Put(r, <<"error">>) EXCEPT !.task = "ended", !.error = TRUE])
    <3> DEFINE u == Put(r, <<"error">>)
               s == [u EXCEPT !.task = "ended", !.error = TRUE]
    <3>1. u \in Runs /\ u.state = r.state
      BY <2>2
    <3>2. RunIs(p, s)
      BY <2>4
    <3> HIDE DEF u
    <3>3. s \in Runs /\ s.q = u.q /\ s.task = "ended" /\ s.state = r.state
      BY <3>1 DEF Runs
    <3>4. RunOK(s)
      <4> HIDE DEF s
      <4> QED BY <1>1, <2>1, <3>3, PutStep DEF u
    <3> QED BY <3>2, <3>3, <3>4, RunMoves
  <2> QED BY <2>1, <2>3, <2>4
<1>5. CASE CancelArrives(p)
  <2> DEFINE s == [r EXCEPT !.task = "cancelled"]
  <2>1. RunIs(p, s) /\ r.task = "cancel"
    BY <1>5 DEF CancelArrives, Q
  <2>2. /\ s \in Runs /\ s.q = r.q /\ s.task = "cancelled" /\ s.state = r.state
        /\ s.finishing = r.finishing
    BY <1>1 DEF Runs
  <2>3. RunOK(s)
    <3> HIDE DEF s
    <3> QED BY <1>1, <2>1, <2>2, QuietStep
  <2> QED BY <2>1, <2>2, <2>3, RunMoves
<1>6. CASE Callback(p)
  <2> DEFINE told == IF r.state \in {"cancelling", "cancelled"}
                     THEN <<"stopped", "done", "end">> ELSE <<"end">>
             s == Closed(Put(r, told))
  <2>1. RunIs(p, s) /\ r.task \in {"ended", "cancelled"} /\ "end" \notin Frames(p)
    BY <1>6 DEF Callback, Q
  <2>2. \A i \in 1..Len(r.q) : r.q[i] # "end"
    BY <2>1 DEF Frames
  <2>3. s \in Runs /\ RunOK(s)
    BY <1>1, <2>1, <2>2, ClosedStep
  <2> HIDE DEF s
  <2> QED BY <2>1, <2>3, RunMoves
<1> QED BY <1>2, <1>3, <1>4, <1>5, <1>6 DEF RunStep

LEMMA StopIsOK ==
    ASSUME RInv, NEW p \in Reqs, Shutdown(p) \/ Stop(p)
    PROVE  RInv'
<1> DEFINE r == run[p]
<1>1. r \in Runs /\ RunOK(r)
  BY DEF RInv
<1>2. CASE Shutdown(p)
  <2> DEFINE s == [r EXCEPT !.task = "cancel"]
  <2>1. RunIs(p, s) /\ r.task = "runs"
    BY <1>2 DEF Shutdown, Q
  <2>2. /\ s \in Runs /\ s.q = r.q /\ s.task = "cancel" /\ s.state = r.state
        /\ s.finishing = r.finishing
    BY <1>1 DEF Runs
  <2>3. RunOK(s)
    <3> HIDE DEF s
    <3> QED BY <1>1, <2>1, <2>2, QuietStep
  <2> QED BY <2>1, <2>2, <2>3, RunMoves
<1>3. CASE Stop(p) /\ r.task \in {"ended", "cancelled"}
  <2> DEFINE s == Closed(r)
  <2>1. RunIs(p, s)
    BY <1>3 DEF Stop, Q
  <2>2. /\ s \in Runs /\ s.q = r.q /\ s.task = r.task /\ s.state \notin {"running", "cancelling"}
        /\ s.state = "cancelled" <=> r.state \in {"cancelling", "cancelled"}
    BY <1>1, ClosedIs
  <2> HIDE DEF s
  <2>3. RunOK(s)
    BY <1>1, <1>3, <2>2 DEF RunOK
  <2> QED BY <2>1, <2>2, <2>3, RunMoves
<1>4. CASE Stop(p) /\ r.task \notin {"ended", "cancelled"}
  <2> DEFINE s == [r EXCEPT !.state = "cancelling", !.task = "cancel"]
  <2>1. RunIs(p, s) /\ r.task # "idle" /\ r.state = "running" /\ ~r.finishing
    BY <1>4 DEF Stop, Q
  <2>2. r.task \in {"runs", "cancel"}
    BY <1>1, <1>4, <2>1 DEF Runs
  <2>3. /\ s \in Runs /\ s.q = r.q /\ s.task = "cancel" /\ s.state = "cancelling"
        /\ s.finishing = r.finishing
    BY <1>1 DEF Runs
  <2>4. RunOK(s)
    <3> HIDE DEF s
    <3> QED BY <1>1, <2>1, <2>2, <2>3, QuietStep
  <2> QED BY <2>1, <2>3, <2>4, RunMoves
<1> QED BY <1>2, <1>3, <1>4

LEMMA TurnLeavesRuns ==
    ASSUME NEW p \in Reqs, TurnStep(p) \/ ClientGoes(p)
    PROVE  run' = run
<1>1. CASE ClientGoes(p)
  BY <1>1 DEF ClientGoes, Only
<1>2. CASE Persona(p) \/ Brief(p) \/ Approve(p) \/ SendsDone(p)
  BY <1>2 DEF Persona, Brief, Approve, SendsDone, Only
<1>3. ASSUME NEW c \in Calls, Send(p, c) \/ ToolEnd(p, c) \/ WaitEnd(p, c)
                              \/ ToolStart(p, c) \/ WaitStart(p, c) \/ Direct(p, c)
      PROVE  run' = run
  BY <1>3 DEF Send, ToolEnd, WaitEnd, ToolStart, WaitStart, Direct, Only
<1>4. ASSUME NEW S \in SUBSET Calls, ModelCalls(p, S) PROVE run' = run
  BY <1>4 DEF ModelCalls, Only
<1>5. CASE ModelStops(p) \/ ModelAnswers(p) \/ ModelFails(p) \/ AfterError(p)
  BY <1>5 DEF ModelStops, ModelAnswers, ModelFails, AfterError, Only
<1>6. CASE ToolsDone(p) \/ Again(p) \/ PostDone(p) \/ CardMade(p) \/ SelfCheck(p)
  BY <1>6 DEF ToolsDone, Again, PostDone, CardMade, SelfCheck, Only
<1> QED BY <1>1, <1>2, <1>3, <1>4, <1>5, <1>6 DEF TurnStep

LEMMA ArriveIsOK ==
    ASSUME RInv, NEW p \in Reqs, Arrive(p)
    PROVE  RInv'
<1>1. PICK conv \in Convs :
        \/ Deliberate(p, conv)
        \/ \E pat \in BOOLEAN :
              \/ \E order \in BOOLEAN : Say(p, conv, pat, order)
              \/ \E i \in Card, v \in {"approve", "decline"} : Reply(p, conv, pat, i, v)
  BY DEF Arrive
<1>2. CASE Deliberate(p, conv)
  <2> DEFINE s == [NoRun EXCEPT !.task = "runs", !.conv = conv, !.stage = 1]
  <2>1. RunIs(p, s)
    BY <1>2 DEF Deliberate
  <2>2. /\ NoRun.task = "idle" /\ NoRun.state = "running" /\ NoRun.q = <<>>
        /\ NoRun.finishing = FALSE
    BY DEF NoRun
  <2>3. /\ s \in Runs /\ s.q = <<>> /\ s.task = "runs" /\ s.state = "running"
    BY <2>2, IdleRunIsOK DEF Runs
  <2>4. RunOK(s)
    <3>1. Len(<<>>) = 0
      OBVIOUS
    <3> HIDE DEF s
    <3> QED BY <2>3, <3>1 DEF RunOK
  <2> HIDE DEF s
  <2> QED BY <2>1, <2>3, <2>4, RunMoves
<1>3. CASE ~Deliberate(p, conv)
  <2>1. run' = run
    BY <1>1, <1>3 DEF Say, Reply
  <2> QED BY <2>1 DEF RInv
<1> QED BY <1>2, <1>3

\* Stream and record of a web deliberation agree: it is told as stopped exactly
\* if it is recorded as cancelled, nothing follows the end, and no decision
\* under way is stopped.
THEOREM StreamsAndRecordsAgree == Spec => []StreamTellsTheEnd
<1>1. Init => RInv
  BY IdleRunIsOK DEF Init, RInv
<1>2. RInv /\ [Next]_vars => RInv'
  <2> SUFFICES ASSUME RInv, [Next]_vars PROVE RInv'
    OBVIOUS
  <2>1. CASE run' = run
    BY <2>1 DEF RInv
  <2>2. ASSUME NEW p \in Reqs, TurnStep(p) \/ ClientGoes(p) PROVE RInv'
    BY <2>1, <2>2, TurnLeavesRuns
  <2>3. ASSUME NEW p \in Reqs, RunStep(p) PROVE RInv'
    BY <2>3, RunStepIsOK
  <2>4. ASSUME NEW p \in Reqs, Shutdown(p) \/ Stop(p) PROVE RInv'
    BY <2>4, StopIsOK
  <2>5. ASSUME NEW p \in Reqs, Arrive(p) PROVE RInv'
    BY <2>5, ArriveIsOK
  <2>6. ASSUME NEW i \in Card, Expire(i) PROVE RInv'
    BY <2>1, <2>6 DEF Expire
  <2>7. CASE UNCHANGED vars
    BY <2>1, <2>7 DEF vars
  <2> QED BY <2>2, <2>3, <2>4, <2>5, <2>6, <2>7 DEF Next
<1>3. RInv => StreamTellsTheEnd
  <2> SUFFICES ASSUME RInv, NEW p \in Reqs, "end" \in Frames(p)
               PROVE  LET q == Q(p).q IN
                      /\ q[Len(q)] = "end" /\ Cardinality({i \in 1..Len(q) : q[i] = "end"}) = 1
                      /\ Q(p).state \notin {"running", "cancelling"}
                      /\ Q(p).state = "cancelled" <=> "stopped" \in Frames(p)
                      /\ \A i \in 1..Len(q) : q[i] = "stopped" => i = 1 \/ q[i - 1] # "finishing"
    BY DEF StreamTellsTheEnd
  <2> DEFINE q == run[p].q
  <2>1. RunOK(run[p])
    BY DEF RInv
  <2>2. PICK k \in 1..Len(q) : q[k] = "end"
    BY DEF Frames
  <2>3. k = Len(q) /\ \A i \in 1..Len(q) : q[i] = "end" => i = k
    BY <2>1, <2>2 DEF RunOK
  <2>4. {i \in 1..Len(q) : q[i] = "end"} = {k}
    BY <2>2, <2>3
  <2>5. Cardinality({i \in 1..Len(q) : q[i] = "end"}) = 1
    BY <2>4, FS_Singleton
  <2>6. /\ run[p].state \notin {"running", "cancelling"}
        /\ run[p].state = "cancelled" <=> "stopped" \in Frames(p)
    BY <2>1, <2>2 DEF RunOK, Frames
  <2>7. \A i \in 1..Len(q) : q[i] = "stopped" => i = 1 \/ q[i - 1] # "finishing"
    BY <2>1 DEF RunOK
  <2> QED BY <2>2, <2>3, <2>5, <2>6, <2>7 DEF Q
<1> QED BY <1>1, <1>2, <1>3, PTL DEF Spec
=============================================================================

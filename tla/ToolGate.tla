------------------------------ MODULE ToolGate ------------------------------
(***************************************************************************)
(* The calls of one chat turn (src/app.py, _cap_tool): a call that the     *)
(* model asks for goes out only if the turn has seen the numbers it gives  *)
(* as identifiers (_phantom_id_arg), and if none of its object ids is      *)
(* known as another hub's (_cross_hub_id_msg).  What is known is learned   *)
(* from the results as they come, and the calls of a turn run in parallel. *)
(*                                                                         *)
(* A result is what it holds: numbers, objects that it describes, and ids  *)
(* that it mentions or that only stand in a human's post.  What the turn   *)
(* keeps is ids and hubOf; gave and seen are the model's own record of     *)
(* what was in the results.                                                *)
(***************************************************************************)
EXTENDS Naturals, FiniteSets

CONSTANTS
    Calls,          \* the calls of the turn
    Numbers,        \* identifiers that are numbers
    Seed,           \* those of the message, the history and the approved calls
    Objects,        \* object ids
    Hubs, NoHub,    \* who answers a call
    IdsMax,         \* _turn_ids_max
    HubIdsMax       \* _HUB_IDS_MAX

\* What the constants are; instances assume it.
ToolGateAssumption ==
    /\ Seed \subseteq Numbers /\ NoHub \notin Hubs
    /\ IdsMax \in Nat /\ HubIdsMax \in Nat

VARIABLES
    call,       \* of each call [at, target, numbers, objects]; at is "new" | "sent"
                \* | "refused" (for its ids) | "denied" | "over"
    ids,        \* _turn_ids
    hubOf,      \* _turn_hub_ids: of each object the hubs it is known of
    seen,       \* the numbers that the turn has seen
    gave        \* of each object, the hubs that gave it as their own

vars == <<call, ids, hubOf, seen, gave>>

Unsent == [at |-> "new", target |-> NoHub, numbers |-> {}, objects |-> {}]

\* _phantom_id_arg: there is no source for one of the numbers.
Phantom(numbers) == numbers \ ids # {}

\* _cross_hub_id_msg: an object known as another's and not as the target's.
Foreign(target, objects) ==
    target \in Hubs /\ \E o \in objects : hubOf[o] # {} /\ target \notin hubOf[o]

\* The model calls a tool.  A call that an agent may never make (a panel's
\* tool, an external responder's) is denied before, one that the confirm gate
\* holds after, its ids are looked at.
Begin(c) ==
    \E target \in Hubs \cup {NoHub}, numbers \in SUBSET Numbers, objects \in SUBSET Objects, denied \in BOOLEAN :
        /\ call[c] = Unsent
        /\ call' = [call EXCEPT ![c] =
                        [at |-> IF denied THEN "denied"
                                ELSE IF Phantom(numbers) \/ Foreign(target, objects) THEN "refused" ELSE "sent",
                         target |-> target, numbers |-> numbers, objects |-> objects]]
        /\ UNCHANGED <<ids, hubOf, seen, gave>>

\* _learn_ids: all of a result or, once there are too many, nothing.
LearnNumbers(numbers) == ids' = IF Cardinality(ids) >= IdsMax THEN ids ELSE ids \cup numbers

\* Mutant: what the call carried counts as the hub's, however it comes back.
LearnsEchoes(carried, described, mentioned) == described \cup mentioned

\* What a result teaches: not the ids that the call carried itself, unless
\* they are described, and none that only stands in a post.
Learned(carried, described, mentioned) == described \cup (mentioned \ carried)

Known == {o \in Objects : hubOf[o] # {}}

\* A known id gets the hub always, a new one while there is room.
LearnObjects(hub, objects) ==
    \E new \in SUBSET (objects \ Known) :
        /\ IF Cardinality(Known) + Cardinality(objects \ Known) <= HubIdsMax
           THEN new = objects \ Known
           ELSE Cardinality(Known \cup new) = IF Cardinality(Known) > HubIdsMax THEN Cardinality(Known) ELSE HubIdsMax
        /\ hubOf' = [o \in Objects |-> IF o \in new \cup (objects \cap Known) THEN hubOf[o] \cup {hub} ELSE hubOf[o]]

\* A result that says what it is of; what it learns from is over then.
Answers(c) == call' = [call EXCEPT ![c] = [Unsent EXCEPT !.at = "over"]]

\* The result of a call is there: objects that it describes, and ids that it
\* only mentions, those of the arguments among them.
Return(c) ==
    \E numbers \in SUBSET Numbers, described, mentioned \in SUBSET Objects :
        LET learned == Learned(call[c].objects, described, mentioned) IN
        /\ call[c].at = "sent"
        /\ Answers(c)
        /\ LearnNumbers(numbers)
        /\ seen' = seen \cup numbers
        /\ IF call[c].target \in Hubs
           THEN /\ LearnObjects(call[c].target, learned)
                /\ gave' = [o \in Objects |->
                                IF o \in described \cup (mentioned \ call[c].objects)
                                THEN gave[o] \cup {call[c].target} ELSE gave[o]]
           ELSE UNCHANGED <<hubOf, gave>>

\* The result is a text of failure (_result_ok): its numbers count, its
\* objects do not.
ReturnFailure(c) ==
    \E numbers \in SUBSET Numbers :
        /\ call[c].at = "sent"
        /\ Answers(c)
        /\ LearnNumbers(numbers)
        /\ seen' = seen \cup numbers
        /\ UNCHANGED <<hubOf, gave>>

\* The call raises: the model is told, nothing is learned.
Raise(c) ==
    /\ call[c].at = "sent"
    /\ Answers(c)
    /\ UNCHANGED <<ids, hubOf, seen, gave>>

Init ==
    /\ call = [c \in Calls |-> Unsent]
    /\ ids = Seed /\ seen = Seed
    /\ hubOf = [o \in Objects |-> {}] /\ gave = [o \in Objects |-> {}]

Next == \E c \in Calls : Begin(c) \/ Return(c) \/ ReturnFailure(c) \/ Raise(c)

Spec == Init /\ [][Next]_vars

-----------------------------------------------------------------------------
(* Properties.                                                             *)

\* While there is room for it, what was in the results decides.
Sourced(c) == call'[c].numbers \subseteq seen
Domestic(c) ==
    call'[c].target = NoHub \/ \A o \in call'[c].objects : gave[o] = {} \/ call'[c].target \in gave[o]

Given == {o \in Objects : gave[o] # {}}

\* The gate neither lets a call through nor turns one away wrongly, in
\* whatever order the results of parallel calls came: a call goes out only
\* if the turn has seen its numbers and, of each object that some hub gave,
\* its target did too; and it is refused only if that is not so.
GateIsRight ==
    [][\A c \in Calls : call[c].at = "new" =>
        /\ call'[c].at = "sent" => Sourced(c)
        /\ call'[c].at = "sent" /\ Cardinality(Given) <= HubIdsMax => Domestic(c)
        /\ call'[c].at = "refused" /\ Cardinality(seen) <= IdsMax => ~Sourced(c) \/ ~Domestic(c)]_vars

=============================================================================

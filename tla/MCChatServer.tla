--------------------------- MODULE MCChatServer ---------------------------
(***************************************************************************)
(* A small instance of the chat turn for TLC.  What the server does with   *)
(* turns, cards and streams is ChatServer; the other three modes are parts *)
(* of one turn that share no state with it: the calls that the model makes *)
(* (ToolGate), the messages that it is given (ChatHistory, a state for     *)
(* each input) and the check of its answer (SelfCheck).                    *)
(***************************************************************************)
EXTENDS ChatServer, TLC

CONSTANTS r1, r2, job

ReqsVal == {r1, r2}
OneConvVal == {1}
CallsVal == {job, "look"}
KindVal == [c \in CallsVal |-> IF c = job THEN "job" ELSE "status"]
EarlierVal ==
    {<<[conv |-> 1, calls |-> {job}, pat |-> TRUE, held |-> TRUE, late |-> FALSE, answer |-> ""]>>}
ReqSymmetry == Permutations(ReqsVal)

VARIABLES
    mode,                           \* "server" | "calls" | "messages" | "check"
    call, ids, hubOf, seen, gave,   \* of ToolGate
    input,                          \* of ChatHistory
    at, draft, came, held, failed, shown, told, check   \* of SelfCheck

gatevars == <<call, ids, hubOf, seen, gave>>
checkvars == <<at, draft, came, held, failed, shown, told, check>>

G == INSTANCE ToolGate WITH
        Calls <- {"c1", "c2", "c3"}, Numbers <- {1, 2}, Seed <- {}, Objects <- {"o1"},
        Hubs <- {"h1", "h2"}, NoHub <- "none", IdsMax <- 1, HubIdsMax <- 3

H == INSTANCE ChatHistory WITH
        MaxItems <- 3, Mark <- 3, Join <- 2, EvidenceFloor <- 10, NameSize <- 8, DigestFloor <- 12, LoopFloor <- 10

\* Two sourced numbers, one that only text holds and one that follows from
\* others; a number from nowhere; dates, an identifier and values.
TokenKind ==
    [t \in {"n", "sum", "u", "s", "d", "e", "id", "v", "w", "mark", "img"} |->
        CASE t \in {"n", "sum", "u"} -> "num" [] t = "s" -> "small" [] t \in {"d", "e"} -> "date"
          [] t \in {"v", "w"} -> "value" [] t = "mark" -> "mark" [] t = "img" -> "image" [] OTHER -> "id"]
TokenSource ==
    [t \in DOMAIN TokenKind |->
        CASE t \in {"n", "d", "id", "v", "w"} -> "strong" [] t = "s" -> "weak" [] t = "sum" -> "derived" [] OTHER -> "none"]

C == INSTANCE SelfCheck WITH
        Tokens <- DOMAIN TokenKind, Kind <- TokenKind, Source <- TokenSource,
        Drafts <- {<<"n", "s", "u">>, <<"v", "sum", "w">>, <<"d", "id", "img">>},
        Texts <- {<<"s", "n">>, <<"w", "u">>, <<"e">>, <<"mark">>, <<"sum", "v">>},
        MaxPatches <- 2

\* Histories and loops of a turn: entries that fit, that do not, with and
\* without uploads and findings, within budgets from narrow to wide.
Entries ==
    [role : {"user"}, size : {10, 40}, ups : {0}, evs : {0}]
    \cup [role : {"assistant"}, size : {10, 40}, ups : {0, 15}, evs : {0, 20, 60}]
BudgetOf(all, wide) ==
    [all |-> all, verbatim |-> (all * 4) \div 5, evidence |-> all \div 2, digest |-> all \div 5,
     room |-> 35, wide |-> wide]
Inputs ==
    [kind : {"history"}, b : {BudgetOf(all, wide) : all \in {50, 100, 150}, wide \in BOOLEAN},
     items : UNION {[1..n -> Entries] : n \in 0..3}]
    \cup [kind : {"loop"}, limit : {0, 20, 40},
          messages : UNION {[1..n -> [tool : BOOLEAN, size : {5, 12, 14, 30}]] : n \in 1..3}]

ASSUME H!HistoryAssumption
ASSUME C!SelfCheckAssumption
ASSUME G!ToolGateAssumption

MCInit ==
    /\ mode \in {"server", "calls", "messages", "check"}
    /\ Init
    /\ G!Init
    /\ input \in IF mode = "messages" THEN Inputs ELSE {[kind |-> "none"]}
    /\ C!Init /\ (mode # "check" => draft = <<"n", "s", "u">>)

MCNext ==
    \/ mode = "server" /\ Next /\ UNCHANGED <<mode, gatevars, input, checkvars>>
    \/ mode = "calls" /\ G!Next /\ UNCHANGED <<mode, vars, input, checkvars>>
    \/ mode = "check" /\ C!Next /\ UNCHANGED <<mode, vars, gatevars, input>>

MCSpec == MCInit /\ [][MCNext]_<<mode, vars, gatevars, input, checkvars>>

GateIsRight == G!GateIsRight
GateKeepsSources == C!GateKeepsSources
OneAnswer == C!OneAnswer

\* Of every history and every loop: what the model is given is an unbroken end
\* of the conversation with its evidence, and it fits.
ContextIsKept ==
    /\ input.kind = "history" =>
        LET out == H!HistoryMessages(input.b, input.items)
        IN H!IsHistory(input.b, input.items, out) /\ H!Fits(input.b, input.items, out)
    /\ input.kind = "loop" =>
        H!IsFitted(input.messages, input.limit, H!FitLoop(input.messages, input.limit))

\* The answer that is shown is the draft or its rewrite, and the rewrite keeps
\* the sources of the draft (SelfCheck).
AnswerIsChecked == GateKeepsSources /\ OneAnswer

=============================================================================

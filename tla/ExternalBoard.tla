--------------------------- MODULE ExternalBoard ----------------------------
(***************************************************************************)
(* The task board of the external responder (src/external_llm.py, Board):  *)
(* the engine puts a question in the line of the user it works for and     *)
(* waits; that user's workflow claims it, reads it and submits an answer   *)
(* piece by piece, over calls that may be late, repeated or out of order.  *)
(*                                                                         *)
(* Every method of Board runs under one lock: an action each.  Time is     *)
(* counted in polls of wait(): whoever waits sweeps once per unit.         *)
(***************************************************************************)
EXTENDS Integers, Sequences, SequencesExt

CONSTANTS
    Tasks,      \* questions; the name of an ended one is used for the next
    OwnerOf,    \* task -> the user whose workflow may answer
    WaitS,      \* EXTERNAL_LLM_WAIT_S, in polls
    AnswerS,    \* EXTERNAL_LLM_ANSWER_S, in polls
    Pieces      \* pieces of a complete answer

\* Limits of time and pieces are positive.
ASSUME BoardAssumption == {WaitS, AnswerS, Pieces} \subseteq Nat \ {0}

Owners == {OwnerOf[t] : t \in Tasks}

\* Settings.call_worst_s.
Worst == 2 * WaitS + 2 * AnswerS

VARIABLES
    board,  \* [task, line, owner]: _tasks, its order of arrival, _owners
    due     \* time has passed since the tasks were last swept

boardVars == <<board, due>>

\* A task.  st: "none", open ("waiting", "claimed"), or what its future holds
\* ("answered", "absent", "late"); claims is also the lease of the last claim;
\* unclaimed: polls since it joined the line; left: polls to its deadline.
\* History: age, the polls since open(); quiet, whether only this task and
\* calls that hold it have moved its owner's line in that time.
NoTask == [st |-> "none", claims |-> 0, unclaimed |-> 0, left |-> 0, buf |-> <<>>,
           age |-> 0, quiet |-> TRUE]

Open == {"waiting", "claimed"}

Mine(b, o, S) == {t \in Tasks : OwnerOf[t] = o /\ b.task[t].st \in S}

\* The order of arrival.
NotAfter(b, u, t) ==
    \E i, k \in DOMAIN b.line : i <= k /\ b.line[i] = u /\ b.line[k] = t

\* _standing: the owner was judged absent less than WAIT_S ago.
Standing(b, o) == b.owner[o].absent < WaitS

\* del _tasks[t.id] for the tasks of S, whose futures get st.
CloseTasks(b, S, st) ==
    [b EXCEPT !.task = [t \in Tasks |-> IF t \in S THEN [@[t] EXCEPT !.st = st] ELSE @[t]],
              !.line = SelectSeq(@, LAMBDA t : t \notin S)]

Min2(x, y) == IF x < y THEN x ELSE y

-----------------------------------------------------------------------------
(* _sweep.                                                                 *)

\* Mutant: a workflow that is busy answering is not taken as present.
BusyUnseen(b) == b

\* The owner of a claimed task is there.
Busy(b) ==
    [b EXCEPT !.owner = [o \in Owners |->
        IF Mine(b, o, {"claimed"}) # {} THEN [@[o] EXCEPT !.alive = 0] ELSE @[o]]]

\* A claim past its deadline goes back to the line once, then the task fails.
Deadlines(b) ==
    LET over == {t \in Tasks : b.task[t].st = "claimed" /\ b.task[t].left = 0}
        lost == {t \in over : b.task[t].claims >= 2}
        back == [b EXCEPT !.task = [t \in Tasks |-> IF t \in over \ lost
                    THEN [@[t] EXCEPT !.st = "waiting", !.unclaimed = 0, !.buf = <<>>]
                    ELSE @[t]]]
    IN  CloseTasks(back, lost, "late")

\* Nobody has claimed the task for WAIT_S, nor was its owner seen.
Overdue(b, t) ==
    /\ b.task[t].st = "waiting"
    /\ Min2(b.task[t].unclaimed, b.owner[OwnerOf[t]].alive) >= WaitS

\* The first such task has its owner judged absent, and fails with what waits
\* behind it; under a standing judgement every waiting task fails.
Absences(b) ==
    LET gone == {t \in Tasks : b.task[t].st = "waiting" /\
                   (\/ Standing(b, OwnerOf[t])
                    \/ Overdue(b, t)
                    \/ \E u \in Mine(b, OwnerOf[t], {"waiting"}) :
                          Overdue(b, u) /\ NotAfter(b, u, t))}
        judged == {o \in Owners : ~Standing(b, o) /\ Mine(b, o, {"waiting"}) \cap gone # {}}
    IN  CloseTasks([b EXCEPT !.owner = [o \in Owners |->
                  IF o \in judged THEN [@[o] EXCEPT !.absent = 0] ELSE @[o]]],
              gone, "absent")

Swept(b) == Absences(Deadlines(Busy(b)))

\* Mutant: the judgement outlives the owner's return.
TouchKeepsJudgement(b, o) == [b EXCEPT !.owner[o].alive = 0]

\* _touch: the workflow of o called.
Touch(b, o) == [b EXCEPT !.owner[o] = [alive |-> 0, absent |-> WaitS]]

-----------------------------------------------------------------------------
(* The engine.                                                             *)

\* A task of o is not alone any more.
Disturbed(b, o) ==
    [b EXCEPT !.task = [t \in Tasks |->
        IF t \in Mine(b, o, Open) THEN [@[t] EXCEPT !.quiet = FALSE] ELSE @[t]]]

\* open(); it raises under a standing judgement.
OpenTask(t) ==
    LET o == OwnerOf[t]  b == Swept(board) IN
    /\ board.task[t].st = "none"
    /\ board' = IF Standing(b, o) THEN b
                ELSE [Disturbed(b, o) EXCEPT
                         !.task[t] = [NoTask EXCEPT !.st = "waiting",
                                        !.quiet = Mine(b, o, Open) = {}],
                         !.line = Append(@, t)]
    /\ UNCHANGED due

\* wait() returns or raises what the future holds; drop() finds nothing.
Collect(t) ==
    /\ board.task[t].st \in {"answered", "absent", "late"}
    /\ board' = [board EXCEPT !.task[t] = NoTask]
    /\ UNCHANGED due

\* The caller is cancelled: drop().
Cancel(t) ==
    /\ board.task[t].st # "none"
    /\ board' = [CloseTasks(board, {t}, "none") EXCEPT !.task[t] = NoTask]
    /\ UNCHANGED due

\* The poll of whoever waits.
Sweep ==
    /\ due
    /\ board' = Swept(board)
    /\ due' = FALSE

-----------------------------------------------------------------------------
(* The workflow of a user.                                                 *)

\* claim() takes the oldest waiting task.
Claim(o) ==
    LET b == Swept(Touch(board, o))
        waiting == Mine(b, o, {"waiting"})
    IN  /\ \/ waiting = {} /\ board' = b
           \/ \E t \in waiting :
                 /\ \A u \in waiting : NotAfter(b, t, u)
                 /\ board' = [b EXCEPT !.task[t].st = "claimed", !.task[t].claims = @ + 1,
                                       !.task[t].left = AnswerS, !.task[t].buf = <<>>]
        /\ UNCHANGED due

\* Mutant: any lease of the task will do.
HeldByAny(b, t, lease) == b.task[t].st = "claimed"

\* _held: the lease is that of the claim that stands.
Held(b, t, lease) == b.task[t].st = "claimed" /\ b.task[t].claims = lease

\* What piece k, sent with the offset behind piece k - 1, makes of the buffer:
\* offset 0 begins again, any other must be where the buffer ends.
Placed(buf, k, piece) ==
    CASE k = 1 -> <<piece>>
      [] k > 1 /\ Len(buf) = k - 1 -> Append(buf, piece)
      [] OTHER -> buf

\* submit() of piece k of the answer written under a lease the workflow was
\* given, now or earlier; the last piece is final.
Submit(t, lease, k) ==
    LET b == Swept(Touch(board, OwnerOf[t]))
        buf == Placed(b.task[t].buf, k, <<lease, k>>)
        got == [b EXCEPT !.task[t].buf = buf]
    IN  /\ Held(b, t, lease)
        /\ board' = IF k = Pieces /\ buf # b.task[t].buf
                    THEN CloseTasks(got, {t}, "answered") ELSE got
        /\ UNCHANGED due

\* read() of the task it holds: only the sweep and the sign of life remain.
Read(t, lease) ==
    LET b == Swept(Touch(board, OwnerOf[t])) IN
    /\ Held(b, t, lease)
    /\ board' = b
    /\ UNCHANGED due

\* A read() or submit() that _held turns away: the task is gone or another
\* user's, or the lease is that of an earlier claim.
StrayCall(o) ==
    /\ board' = Disturbed(Swept(Touch(board, o)), o)
    /\ UNCHANGED due

-----------------------------------------------------------------------------
\* One poll later.
Older(r) ==
    [r EXCEPT !.unclaimed = Min2(@ + 1, WaitS), !.age = Min2(@ + 1, Worst + 1),
              !.left = IF @ > 0 THEN @ - 1 ELSE 0]

Elapse ==
    /\ ~due
    /\ board' = [board EXCEPT
           !.task = [t \in Tasks |-> IF @[t].st \in Open THEN Older(@[t]) ELSE @[t]],
           !.owner = [o \in Owners |-> [alive |-> Min2(@[o].alive + 1, WaitS),
                                        absent |-> Min2(@[o].absent + 1, WaitS)]]]
    /\ due' = (\E t \in Tasks : board.task[t].st \in Open)

BoardInit ==
    /\ board = [task |-> [t \in Tasks |-> NoTask], line |-> <<>>,
                owner |-> [o \in Owners |-> [alive |-> WaitS, absent |-> WaitS]]]
    /\ due = FALSE

EngineCalls(t) == OpenTask(t) \/ Collect(t) \/ Cancel(t)

Workflow ==
    \/ \E o \in Owners : Claim(o)
    \/ \E t \in Tasks : \E lease \in 1..board.task[t].claims :
          Read(t, lease) \/ \E k \in 1..Pieces : Submit(t, lease, k)

Stray == \E o \in Owners : StrayCall(o)

BoardNext == (\E t \in Tasks : EngineCalls(t)) \/ Workflow \/ Stray \/ Sweep \/ Elapse

BoardSpec == BoardInit /\ [][BoardNext]_boardVars

\* Time goes on, and the loop of wait() polls while somebody waits.
Fairness == WF_boardVars(Elapse) /\ WF_boardVars(Sweep)

LiveBoardSpec == BoardSpec /\ Fairness

-----------------------------------------------------------------------------
(* Properties.                                                             *)

TaskRecords ==
    [st : {"none", "waiting", "claimed", "answered", "absent", "late"},
     claims : 0..2, unclaimed : 0..WaitS, left : 0..AnswerS,
     buf : UNION {[1..n -> (1..2) \X (1..Pieces)] : n \in 0..Pieces},
     age : 0..(Worst + 1), quiet : BOOLEAN]

\* The values the variables take; the line holds the open tasks once each.
BoardTypeOK ==
    /\ board.task \in [Tasks -> TaskRecords]
    /\ board.owner \in [Owners -> [alive : 0..WaitS, absent : 0..WaitS]]
    /\ due \in BOOLEAN
    /\ ToSet(board.line) = {t \in Tasks : board.task[t].st \in Open}
    /\ IsInjective(board.line)

\* Two workers' answers are never joined into one: what the engine is given is
\* the pieces 1, 2, ... of one claim, none missing, none twice, although calls
\* are repeated, late, or made with the lease of an earlier claim.
AnswerIsWhole ==
    \A t \in Tasks : board.task[t].st = "answered" =>
        /\ Len(board.task[t].buf) = Pieces
        /\ \A k \in 1..Pieces :
              board.task[t].buf[k] = <<board.task[t].claims, k>>

\* "The worst of one task is 2 x WAIT_S + 2 x ANSWER_S" (the outer limits of
\* the LLM calls are set by it), while no other task or call of its owner
\* stands in between.
WorstCase ==
    \A t \in Tasks :
        board.task[t].st \in Open /\ board.task[t].quiet => board.task[t].age <= Worst

\* A busy owner is not an absent one: in the step in which a waiting task fails
\* as absent its owner held no claim.
AbsentMeansIdle ==
    [][\A t \in Tasks : board'.task[t].st = "absent" /\ board.task[t].st \in Open =>
          Mine(board, OwnerOf[t], {"claimed"}) = {}]_boardVars

\* A judgement never outlives the user's return: while an owner stands judged
\* absent, nothing he did or holds has shown him to be there since.
JudgedIsUnseen ==
    \A o \in Owners : Standing(board, o) => board.owner[o].alive >= WaitS

\* Nobody waits beyond the worst case, and none is given up for absent whom
\* somebody has seen since.
WaitIsJust == WorstCase /\ JudgedIsUnseen

\* No call waits for ever: every open task gets its answer or its error, if
\* the workflow does not go on for ever with calls about nothing it holds.
EveryTaskEnds ==
    <>[][~Stray]_boardVars =>
        \A t \in Tasks : board.task[t].st \in Open ~> board.task[t].st \notin Open
=============================================================================

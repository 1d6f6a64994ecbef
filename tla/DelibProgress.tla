--------------------------- MODULE DelibProgress ---------------------------
(***************************************************************************)
(* What the progress journal of a deliberation promises: the durable       *)
(* progress of the stage a deliberation is in.  A stage begins once its    *)
(* seats are known; its rounds are spoken seat by seat and closed in       *)
(* order, each seat heard at most once in a round and counted as lost if   *)
(* it was not heard; then the steps after the decision are taken in their  *)
(* order; only a stage whose report is settled is followed by another.     *)
(* There are no restarts here: DelibEngine, whose process is killed and    *)
(* resumed, must not take back or repeat any of this.                      *)
(***************************************************************************)
EXTENDS Naturals, FiniteSets

CONSTANTS Seats, Rounds,
          Answers       \* records whose field s is the seat that answered

VARIABLES stage,        \* number of stages begun
          open,         \* the seats and the evidence of the stage are known
          said,         \* the answers of each round
          closed,       \* number of rounds closed
          lost,         \* seats lost in each round closed
          after         \* number of steps after the rounds settled

pvars == <<stage, open, said, closed, lost, after>>

\* decision, plain words, intent to save, report saved, wiki
Steps == 5
Empty(S) == [r \in 1..Rounds |-> S]
Heard(r) == {a.s : a \in said[r]}

ProgressInit ==
    /\ stage = 0 /\ open = FALSE /\ closed = 0 /\ after = 0
    /\ said = Empty({}) /\ lost = Empty({})

EnterStage ==
    /\ stage = 0 \/ after >= 4
    /\ stage' = stage + 1 /\ open' \in BOOLEAN /\ closed' = 0 /\ after' = 0
    /\ said' = Empty({}) /\ lost' = Empty({})

OpenStage ==
    /\ stage > 0 /\ ~open
    /\ open' = TRUE
    /\ UNCHANGED <<stage, said, closed, lost, after>>

Say(a) ==
    /\ open /\ closed < Rounds
    /\ a.s \notin Heard(closed + 1)
    /\ said' = [said EXCEPT ![closed + 1] = @ \union {a}]
    /\ UNCHANGED <<stage, open, closed, lost, after>>

CloseRound ==
    /\ open /\ closed < Rounds
    /\ lost' = [lost EXCEPT ![closed + 1] = Seats \ Heard(closed + 1)]
    /\ closed' = closed + 1
    /\ UNCHANGED <<stage, open, said, after>>

SettleStep ==
    /\ closed = Rounds /\ after < Steps
    /\ after' = after + 1
    /\ UNCHANGED <<stage, open, said, closed, lost>>

ProgressNext ==
    \/ EnterStage \/ OpenStage \/ CloseRound \/ SettleStep
    \/ \E a \in Answers : Say(a)

ProgressSpec == ProgressInit /\ [][ProgressNext]_pvars
=============================================================================

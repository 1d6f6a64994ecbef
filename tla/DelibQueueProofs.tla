-------------------------- MODULE DelibQueueProofs --------------------------
(***************************************************************************)
(* The waiting line, for any number of jobs and any limits: its places are *)
(* 1, 2, ... without gap or tie, it holds exactly the queued jobs, and no  *)
(* launch ever exceeds the caps read in its step.  And it is fair: nobody  *)
(* of its own kind is launched past a job that waits, no launch takes      *)
(* seats that are not there, and no pump leaves a job that may run.        *)
(***************************************************************************)
EXTENDS DelibQueue, FiniteSetTheorems, WellFoundedInduction, TLAPS

\* The places of a line p over the queued jobs of st: distinct, and at most as
\* large as the line is long.
PlacesOK(st, p) ==
    /\ Line(p) = {j \in Jobs : st[j] = "queued"}
    /\ \A i, j \in Line(p) : p[i] = p[j] => i = j
    /\ \A j \in Line(p) : p[j] <= Cardinality(Line(p))

\* Compacting keeps the jobs of S in the line, and only them.
LEMMA CompactLine ==
    ASSUME NEW p \in [Jobs -> Nat], NEW S \in SUBSET Jobs
    PROVE  /\ Compact(p, S) \in [Jobs -> 0..Cardinality(Jobs)]
           /\ Line(Compact(p, S)) = S
           /\ \A j \in S : Compact(p, S)[j] \in 1..Cardinality(S)
<1> DEFINE Below(j) == {k \in S : p[k] <= p[j]}
<1>0. IsFiniteSet(S) /\ Cardinality(S) \in Nat /\ Cardinality(S) <= Cardinality(Jobs)
      /\ Cardinality(Jobs) \in Nat
  BY JobsAssumption, FS_Subset, FS_CardinalityType
<1>1. ASSUME NEW j \in S
      PROVE  Cardinality(Below(j)) \in 1..Cardinality(S)
  <2>1. Below(j) \in SUBSET S /\ j \in Below(j)
    BY <1>1
  <2>2. IsFiniteSet(Below(j)) /\ Cardinality(Below(j)) <= Cardinality(S)
    BY <2>1, <1>0, FS_Subset
  <2>3. Cardinality(Below(j)) \in Nat /\ Cardinality(Below(j)) # 0
    BY <2>1, <2>2, FS_CardinalityType, FS_EmptySet
  <2>4. QED BY <2>2, <2>3, <1>0
<1>2. Compact(p, S) = [j \in Jobs |-> IF j \in S THEN Cardinality(Below(j)) ELSE 0]
  BY DEF Compact
<1> HIDE DEF Below
<1>3. Compact(p, S) \in [Jobs -> 0..Cardinality(Jobs)]
  <2>1. ASSUME NEW j \in Jobs
        PROVE  (IF j \in S THEN Cardinality(Below(j)) ELSE 0) \in 0..Cardinality(Jobs)
    BY <1>0, <1>1
  <2>2. QED BY <1>2, <2>1
<1>4. \A j \in S : Compact(p, S)[j] \in 1..Cardinality(S)
  BY <1>1, <1>2
<1>5. Line(Compact(p, S)) = S
  <2>1. ASSUME NEW j \in Jobs PROVE Compact(p, S)[j] > 0 <=> j \in S
    BY <1>0, <1>2, <1>4
  <2>2. QED BY <2>1 DEF Line
<1>6. QED BY <1>3, <1>4, <1>5

\* Two jobs with different places get different places: the one that stood
\* later has the other one, and itself, at or before its place.
LEMMA CompactKeepsOrder ==
    ASSUME NEW p \in [Jobs -> Nat], NEW S \in SUBSET Jobs,
           NEW i \in S, NEW j \in S, p[i] < p[j]
    PROVE  Compact(p, S)[i] < Compact(p, S)[j]
<1> DEFINE Below(k) == {m \in S : p[m] <= p[k]}
<1>1. IsFiniteSet(S)
  BY JobsAssumption, FS_Subset
<1>2. Below(i) \in SUBSET Below(j) /\ j \in Below(j) /\ j \notin Below(i)
  BY DEF Below
<1>3. IsFiniteSet(Below(j)) /\ Below(i) # Below(j)
  BY <1>1, <1>2, FS_Subset
<1>4. /\ Cardinality(Below(i)) <= Cardinality(Below(j))
      /\ Cardinality(Below(i)) # Cardinality(Below(j))
      /\ IsFiniteSet(Below(i))
  BY <1>2, <1>3, FS_Subset
<1>5. Cardinality(Below(i)) \in Nat /\ Cardinality(Below(j)) \in Nat
  BY <1>3, <1>4, FS_CardinalityType
<1>6. Compact(p, S)[i] = Cardinality(Below(i)) /\ Compact(p, S)[j] = Cardinality(Below(j))
  BY DEF Compact
<1> HIDE DEF Below
<1>7. QED BY <1>4, <1>5, <1>6

\* A line that the jobs of L leave stays well-formed, whatever their new status.
LEMMA LeaveKeepsPlaces ==
    ASSUME NEW st, NEW p \in [Jobs -> Nat], PlacesOK(st, p),
           NEW L \in SUBSET Line(p), NEW st2,
           {j \in Jobs : st2[j] = "queued"} = Line(p) \ L,
           NEW p2, p2 = Compact(p, Line(p) \ L)
    PROVE  /\ p2 \in [Jobs -> 0..Cardinality(Jobs)]
           /\ PlacesOK(st2, p2)
<1> DEFINE S == Line(p) \ L
<1>1. S \in SUBSET Jobs
  BY DEF Line
<1>2. /\ p2 \in [Jobs -> 0..Cardinality(Jobs)]
      /\ Line(p2) = S
      /\ \A j \in S : p2[j] \in 1..Cardinality(S)
  BY <1>1, CompactLine
<1>3. \A i, j \in S : p2[i] = p2[j] => i = j
  <2>1. SUFFICES ASSUME NEW i \in S, NEW j \in S, p2[i] = p2[j]
                 PROVE  i = j
    OBVIOUS
  <2>2. p[i] \in Nat /\ p[j] \in Nat /\ p2[i] \in Nat /\ p2[j] \in Nat
    BY <1>1, <1>2
  <2>3. ~(p[i] < p[j]) /\ ~(p[j] < p[i])
    BY <1>1, <2>1, <2>2, CompactKeepsOrder
  <2>4. p[i] = p[j]
    BY <2>2, <2>3
  <2>5. QED BY <2>4 DEF PlacesOK
<1>4. Cardinality(S) \in Nat
  BY <1>1, JobsAssumption, FS_Subset, FS_CardinalityType
<1>5. \A j \in S : p2[j] <= Cardinality(S)
  BY <1>2, <1>4
<1> HIDE DEF S
<1>6. S = {j \in Jobs : st2[j] = "queued"}
  BY DEF S
<1>7. QED BY <1>2, <1>3, <1>5, <1>6 DEF PlacesOK

\* A pump over a well-formed line leaves one.
LEMMA PumpKeepsPlaces ==
    ASSUME NEW st \in [Jobs -> Statuses], NEW p \in [Jobs -> Nat], NEW se,
           PlacesOK(st, p), Pump(st, p, se)
    PROVE  /\ status' \in [Jobs -> Statuses]
           /\ pos' \in [Jobs -> 0..Cardinality(Jobs)]
           /\ PlacesOK(status', pos')
<1>1. PICK L \in SUBSET Line(p) :
         /\ status' = [j \in Jobs |-> IF j \in L THEN "running" ELSE st[j]]
         /\ pos' = Compact(p, Line(p) \ L)
  BY DEF Pump
<1>2. status' \in [Jobs -> Statuses]
  BY <1>1 DEF Statuses
<1>3. {j \in Jobs : status'[j] = "queued"} = Line(p) \ L
  BY <1>1 DEF PlacesOK
<1>4. pos' \in [Jobs -> 0..Cardinality(Jobs)] /\ PlacesOK(status', pos')
  BY <1>1, <1>3, LeaveKeepsPlaces
<1>5. QED BY <1>2, <1>4

\* The line a job that waits for nothing joins at its end.
LEMMA JoinKeepsPlaces ==
    ASSUME NEW st \in [Jobs -> Statuses], NEW p \in [Jobs -> Nat],
           PlacesOK(st, p), NEW j \in Jobs, st[j] # "queued",
           NEW st2, st2 = [st EXCEPT ![j] = "queued"],
           NEW p2, p2 = [p EXCEPT ![j] = Cardinality(Line(p)) + 1]
    PROVE  /\ st2 \in [Jobs -> Statuses] /\ p2 \in [Jobs -> Nat]
           /\ PlacesOK(st2, p2)
<1>1. Line(p) \in SUBSET Jobs /\ j \notin Line(p)
  BY DEF Line, PlacesOK
<1>2. IsFiniteSet(Line(p)) /\ Cardinality(Line(p)) \in Nat
  BY <1>1, JobsAssumption, FS_Subset, FS_CardinalityType
<1> DEFINE n == Cardinality(Line(p))
<1>3. n \in Nat /\ p2 = [p EXCEPT ![j] = n + 1]
  BY <1>2
<1>4. \A k \in Line(p) : p[k] <= n
  BY DEF PlacesOK
<1> HIDE DEF n
<1>5. p2 \in [Jobs -> Nat] /\ st2 \in [Jobs -> Statuses]
  BY <1>3 DEF Statuses
<1>6. /\ p2[j] = n + 1
      /\ \A k \in Jobs : k # j => p2[k] = p[k]
  BY <1>3
<1>7. Line(p2) = Line(p) \cup {j}
  <2>1. ASSUME NEW k \in Jobs
        PROVE  p2[k] > 0 <=> p[k] > 0 \/ k = j
    BY <1>3, <1>6
  <2>2. QED BY <2>1 DEF Line
<1>8. Cardinality(Line(p2)) = n + 1
  BY <1>1, <1>2, <1>7, FS_AddElement DEF n
<1>9. \A i, k \in Line(p2) : p2[i] = p2[k] => i = k
  <2>1. SUFFICES ASSUME NEW i \in Line(p2), NEW k \in Line(p2), p2[i] = p2[k]
                 PROVE  i = k
    OBVIOUS
  <2>2. CASE i # j /\ k # j
    BY <1>7, <1>6, <2>1, <2>2 DEF PlacesOK, Line
  <2>3. CASE (i = j /\ k # j) \/ (i # j /\ k = j)
    <3>1. PICK m \in Line(p) : p2[m] = n + 1 /\ m # j
      BY <1>7, <1>6, <2>1, <2>3
    <3>2. p[m] = n + 1 /\ p[m] <= n
      BY <1>1, <1>4, <1>6, <3>1
    <3>3. QED BY <3>2, <1>3
  <2>4. QED BY <2>2, <2>3
<1>10. \A k \in Line(p2) : p2[k] <= Cardinality(Line(p2))
  <2>1. ASSUME NEW k \in Line(p2) PROVE p2[k] <= n + 1
    <3>1. CASE k = j
      BY <1>6, <1>3, <3>1
    <3>2. CASE k \in Line(p) /\ k # j
      <4>1. p2[k] = p[k] /\ p[k] \in Nat /\ p[k] <= n
        BY <1>1, <1>4, <1>6, <3>2
      <4>2. QED BY <4>1, <1>3
    <3>3. QED BY <1>7, <3>1, <3>2
  <2>2. QED BY <2>1, <1>8
<1>11. Line(p2) = {k \in Jobs : st2[k] = "queued"}
  BY <1>7 DEF PlacesOK
<1>12. QED BY <1>5, <1>9, <1>10, <1>11 DEF PlacesOK

-----------------------------------------------------------------------------
IInv == TypeOK /\ LineIsQueued

\* The parts of the state no pump touches.
RestOK ==
    /\ seats \in [Jobs -> 0..MaxSeats]
    /\ entered \subseteq Jobs /\ finishing \subseteq Jobs
    /\ cancelReq \subseteq Jobs
    /\ limits \in LimitChoices
    /\ paused \in BOOLEAN
    /\ phase \in {"up", "closing", "down"}

LEMMA InitOK == Init => IInv
<1> SUFFICES ASSUME Init PROVE IInv
  OBVIOUS
<1>1. Cardinality(Jobs) \in Nat
  BY JobsAssumption, FS_CardinalityType
<1>2. Line(pos) = {}
  BY DEF Init, Line
<1>3. TypeOK
  BY <1>1, EstAssumption DEF Init, TypeOK, Statuses
<1>4. LineIsQueued
  BY <1>2 DEF Init, LineIsQueued
<1>5. QED BY <1>3, <1>4 DEF IInv

LEMMA StepOK == IInv /\ [Next]_vars => IInv'
<1> SUFFICES ASSUME IInv, [Next]_vars PROVE IInv'
  OBVIOUS
<1> USE DEF IInv
<1>N. Cardinality(Jobs) \in Nat
  BY JobsAssumption, FS_CardinalityType
<1>P. pos \in [Jobs -> Nat] /\ status \in [Jobs -> Statuses] /\ PlacesOK(status, pos)
  BY <1>N DEF TypeOK, LineIsQueued, PlacesOK
<1>I. ASSUME RestOK', status' \in [Jobs -> Statuses],
             pos' \in [Jobs -> 0..Cardinality(Jobs)], PlacesOK(status', pos')
      PROVE  IInv'
  BY <1>I DEF TypeOK, LineIsQueued, PlacesOK, RestOK
<1>U. ASSUME RestOK', status' \in [Jobs -> Statuses], pos' = pos,
             \A j \in Jobs : status'[j] = "queued" <=> status[j] = "queued"
      PROVE  IInv'
  BY <1>U DEF TypeOK, LineIsQueued, RestOK, Line
<1>S. ASSUME RestOK', UNCHANGED <<status, pos>>
      PROVE  IInv'
  BY <1>S, <1>U, <1>P
<1>R. RestOK
  BY DEF TypeOK, RestOK
<1>J. ASSUME NEW j \in Jobs, status[j] # "queued", Join(j)
      PROVE  /\ status' \in [Jobs -> Statuses]
             /\ pos' \in [Jobs -> 0..Cardinality(Jobs)]
             /\ PlacesOK(status', pos')
  <2> DEFINE st == [status EXCEPT ![j] = "queued"]
             p == [pos EXCEPT ![j] = Cardinality(Line(pos)) + 1]
  <2>1. st \in [Jobs -> Statuses] /\ p \in [Jobs -> Nat] /\ PlacesOK(st, p)
    BY <1>P, <1>J, JoinKeepsPlaces
  <2>2. Pump(st, p, seats)
    BY <1>J DEF Join
  <2> HIDE DEF st, p
  <2>3. QED BY <2>1, <2>2, PumpKeepsPlaces
\* The jobs that run change nothing in the line when they get another status.
<1>E. ASSUME NEW j \in Jobs, status[j] = "running", NEW s \in Statuses \ {"queued"},
             NEW se, Pump([status EXCEPT ![j] = s], pos, se)
      PROVE  /\ status' \in [Jobs -> Statuses]
             /\ pos' \in [Jobs -> 0..Cardinality(Jobs)]
             /\ PlacesOK(status', pos')
  <2> DEFINE st == [status EXCEPT ![j] = s]
  <2>1. st \in [Jobs -> Statuses]
    BY <1>P
  <2>2. PlacesOK(st, pos)
    BY <1>P, <1>E DEF PlacesOK
  <2>3. Pump(st, pos, se)
    BY <1>E
  <2> HIDE DEF st
  <2>4. QED BY <1>P, <2>1, <2>2, <2>3, PumpKeepsPlaces
<1>1. ASSUME NEW j \in Jobs, Start(j) PROVE IInv'
  <2>1. RestOK' /\ status[j] # "queued" /\ Join(j)
    BY <1>1, <1>R DEF Start, RestOK
  <2>2. QED BY <2>1, <1>J, <1>I
<1>2. ASSUME NEW j \in Jobs, Resume(j) PROVE IInv'
  <2>1. RestOK' /\ status[j] # "queued" /\ Join(j)
    BY <1>2, <1>R DEF Resume, RestOK
  <2>2. QED BY <2>1, <1>J, <1>I
<1>3. ASSUME NEW j \in Jobs, CancelQueued(j) PROVE IInv'
  <2>1. j \in Line(pos) /\ pos' = Compact(pos, Line(pos) \ {j})
        /\ status' = [status EXCEPT ![j] = "cancelled"]
    BY <1>3 DEF CancelQueued, Line
  <2>2. status' \in [Jobs -> Statuses]
    BY <1>P, <2>1 DEF Statuses
  <2>3. {k \in Jobs : status'[k] = "queued"} = Line(pos) \ {j}
    BY <1>P, <2>1 DEF PlacesOK
  <2>4. pos' \in [Jobs -> 0..Cardinality(Jobs)] /\ PlacesOK(status', pos')
    BY <1>P, <2>1, <2>3, LeaveKeepsPlaces
  <2>5. RestOK'
    BY <1>3, <1>R, EstAssumption DEF CancelQueued, RestOK
  <2>6. QED BY <2>2, <2>4, <2>5, <1>I
<1>4. ASSUME NEW j \in Jobs, CancelRunning(j) PROVE IInv'
  BY <1>4, <1>R, <1>S DEF CancelRunning, RestOK
<1>5. ASSUME NEW l \in LimitChoices, SetLimits(l) PROVE IInv'
  <2>1. RestOK' /\ Pump(status, pos, seats)
    BY <1>5, <1>R DEF SetLimits, RestOK
  <2>2. QED BY <2>1, <1>P, <1>I, PumpKeepsPlaces
<1>6. ASSUME NEW l \in LimitChoices, EditLimits(l) PROVE IInv'
  BY <1>6, <1>R, <1>S DEF EditLimits, RestOK
<1>7. ASSUME PauseOn PROVE IInv'
  BY <1>7, <1>R, <1>S DEF PauseOn, RestOK
<1>8. ASSUME PauseOff PROVE IInv'
  <2>1. RestOK' /\ Pump(status, pos, seats)
    BY <1>8, <1>R DEF PauseOff, RestOK
  <2>2. QED BY <2>1, <1>P, <1>I, PumpKeepsPlaces
<1>9. ASSUME PauseLapse PROVE IInv'
  BY <1>9, <1>R, <1>S DEF PauseLapse, RestOK
<1>10. ASSUME Tick PROVE IInv'
  <2>1. RestOK' /\ Pump(status, pos, seats)
    BY <1>10, <1>R DEF Tick, RestOK
  <2>2. QED BY <2>1, <1>P, <1>I, PumpKeepsPlaces
<1>11. ASSUME NEW j \in Jobs, Enter(j) PROVE IInv'
  BY <1>11, <1>R, <1>S DEF Enter, RestOK
<1>12. ASSUME NEW j \in Jobs, NEW n \in 1..MaxSeats, Seat(j, n) PROVE IInv'
  <2>1. RestOK' /\ Pump(status, pos, seats')
    BY <1>12, <1>R, EstAssumption DEF Seat, RestOK
  <2>2. QED BY <2>1, <1>P, <1>I, PumpKeepsPlaces
<1>13. ASSUME NEW j \in Jobs, Finishing(j) PROVE IInv'
  BY <1>13, <1>R, <1>S DEF Finishing, RestOK
<1>14. ASSUME NEW j \in Jobs, Decision(j) PROVE IInv'
  BY <1>14, <1>R, <1>S DEF Decision, RestOK
<1>15. ASSUME NEW j \in Jobs, NEW s \in {"none", "cancelled", "interrupted"},
              status[j] = "running", finishing' \subseteq finishing, End(j, s)
       PROVE  IInv'
  <2>1. RestOK' /\ Pump([status EXCEPT ![j] = s], pos, seats')
    BY <1>15, <1>R, EstAssumption DEF End, RestOK
  <2>2. QED BY <2>1, <1>15, <1>E, <1>I DEF Statuses
<1>16. ASSUME NEW j \in Jobs, Finish(j) \/ Cut(j) \/ Settle(j) PROVE IInv'
  BY <1>16, <1>15 DEF Finish, Cut, Settle, CutStatus, Live
<1>17. CASE ExitSignal
  BY <1>17, <1>R, <1>S DEF ExitSignal, RestOK
<1>18. CASE Shutdown
  BY <1>18, <1>R, <1>S DEF Shutdown, RestOK, Running
<1>19. CASE UNCHANGED vars
  BY <1>19, <1>R, <1>S DEF vars, RestOK
<1>20. QED
  BY <1>1, <1>2, <1>3, <1>4, <1>5, <1>6, <1>7, <1>8, <1>9, <1>10, <1>11, <1>12,
     <1>13, <1>14, <1>16, <1>17, <1>18, <1>19
     DEF Next, Request, Task, Operator

\* In every reachable state the variables have their types, the queued jobs are
\* exactly the jobs of the line, and their places are distinct and no larger
\* than the line is long.
THEOREM QueueInvariant == Spec => [](TypeOK /\ LineIsQueued)
<1>1. QED BY InitOK, StepOK, PTL DEF Spec, IInv

-----------------------------------------------------------------------------
(* The caps.                                                               *)

\* A non-empty part of a line has a last job: places are bounded, so the gap to
\* the bound has a least value.
LEMMA LastOfLine ==
    ASSUME NEW p \in [Jobs -> Nat], NEW n \in Nat, NEW T \in SUBSET Jobs, T # {},
           \A j \in T : p[j] <= n
    PROVE  \E m \in T : \A k \in T : p[k] <= p[m]
<1> DEFINE Gap == {n - p[j] : j \in T}
<1>1. Gap \subseteq Nat /\ Gap # {}
  OBVIOUS
<1>2. PICK g \in Gap : \A h \in Gap : ~(<<h, g>> \in OpToRel(<, Nat))
  BY <1>1, NatLessThanWellFounded, WFMin
<1>3. \A h \in Gap : ~(h < g)
  BY <1>1, <1>2 DEF OpToRel
<1>4. PICK m \in T : g = n - p[m]
  OBVIOUS
<1>5. ASSUME NEW k \in T PROVE p[k] <= p[m]
  <2>1. n - p[k] \in Gap /\ p[k] \in Nat /\ p[m] \in Nat
    OBVIOUS
  <2>2. ~(n - p[k] < n - p[m])
    BY <1>3, <1>4, <2>1
  <2>3. QED BY <2>1, <2>2
<1>6. QED BY <1>5

\* If each job of Q that a pass launches finds fewer than cap jobs of Q running,
\* no more than cap of them run after the pass: the last one launched saw all
\* the others.
LEMMA CapAfterPass ==
    ASSUME NEW p \in [Jobs -> Nat], NEW n \in Nat, \A j \in Line(p) : p[j] <= n,
           \A i, j \in Line(p) : p[i] = p[j] => i = j,
           NEW Q \in SUBSET Jobs, NEW R \in SUBSET Jobs,
           NEW L \in SUBSET Line(p), L \cap Q # {}, NEW cap \in Nat,
           \A j \in L \cap Q :
              Cardinality((R \cup {k \in L : p[k] < p[j]}) \cap Q) < cap
    PROVE  Cardinality((R \cup L) \cap Q) <= cap
<1>1. Line(p) \in SUBSET Jobs
  BY DEF Line
<1>2. PICK m \in L \cap Q : \A k \in L \cap Q : p[k] <= p[m]
  BY <1>1, LastOfLine
<1> DEFINE B == (R \cup {k \in L : p[k] < p[m]}) \cap Q
<1>3. Cardinality(B) < cap
  BY <1>2
<1>4. IsFiniteSet(B) /\ Cardinality(B) \in Nat
  BY <1>1, JobsAssumption, FS_Subset, FS_CardinalityType
<1>5. (R \cup L) \cap Q = B \cup {m}
  <2>1. ASSUME NEW k \in L \cap Q, k # m PROVE p[k] < p[m]
    <3>1. p[k] <= p[m] /\ p[k] # p[m] /\ p[k] \in Nat /\ p[m] \in Nat
      BY <1>1, <1>2, <2>1
    <3>2. QED BY <3>1
  <2>2. QED BY <1>2, <2>1
<1> HIDE DEF B
<1>6. Cardinality(B \cup {m}) = IF m \in B THEN Cardinality(B) ELSE Cardinality(B) + 1
  BY <1>4, FS_AddElement
<1>7. Cardinality(B \cup {m}) <= cap
  BY <1>3, <1>4, <1>6
<1>8. QED BY <1>5, <1>7

\* The pump of a step launches within the caps, provided nothing but the pump
\* launches in it.
LEMMA PumpWithinCaps ==
    ASSUME NEW st \in [Jobs -> Statuses], NEW p \in [Jobs -> Nat], NEW se,
           PlacesOK(st, p), Pump(st, p, se), limits' \in LimitChoices,
           \A j \in Jobs : st[j] = "running" => status[j] = "running"
    PROVE  LaunchStep
<1>1. PICK L \in SUBSET Line(p) :
         /\ IsLaunchSet(L, st, p, se, limits', paused' \/ phase' # "up")
         /\ status' = [j \in Jobs |-> IF j \in L THEN "running" ELSE st[j]]
  BY DEF Pump
<1> DEFINE R == Running(st)
           At(k) == R \cup {i \in L : p[i] < p[k]}
<1>2. R \in SUBSET Jobs /\ Line(p) \in SUBSET Jobs /\ Running(status') = R \cup L
  BY <1>1 DEF Running, Line
<1>3. Launched \subseteq L
  BY <1>1 DEF Launched, Running
<1>4. SUFFICES ASSUME NEW j \in Launched
               PROVE  /\ ~paused' /\ phase' = "up"
                      /\ IF j \in External
                         THEN Cardinality(ExternalOf(R \cup L, OwnerOf[j])) <= ExternalPerOwner
                         ELSE /\ Cardinality(GLM(R \cup L)) <= limits'.run
                              /\ Cardinality(GLMOf(R \cup L, OwnerOf[j])) <= limits'.user
  BY <1>2 DEF LaunchStep
<1>5. j \in L /\ j \in Jobs
  BY <1>2, <1>3, <1>4
<1>6. /\ ~paused' /\ phase' = "up"
      /\ \A k \in L : Fits(k, L, st, p, se, limits')
  BY <1>1, <1>5 DEF IsLaunchSet
<1>7. limits'.run \in Nat /\ limits'.user \in Nat
  BY LimitAssumption
<1>8. PICK n \in Nat : \A k \in Line(p) : p[k] <= n
  <2>1. Cardinality(Line(p)) \in Nat
    BY <1>2, JobsAssumption, FS_Subset, FS_CardinalityType
  <2>2. QED BY <2>1 DEF PlacesOK
<1>9. \A k \in L : RunningAt(k, L, st, p) = At(k)
  BY DEF RunningAt
<1>10. ASSUME NEW Q \in SUBSET Jobs, NEW cap \in Nat, j \in Q,
              \A k \in L \cap Q : Cardinality(At(k) \cap Q) < cap
       PROVE  Cardinality((R \cup L) \cap Q) <= cap
  BY <1>2, <1>5, <1>8, <1>10, CapAfterPass DEF PlacesOK
<1>11. \A k \in L : At(k) \in SUBSET Jobs
  BY <1>2
<1> HIDE DEF R, At
<1>12. CASE j \in External
  <2> DEFINE Q == {k \in External : OwnerOf[k] = OwnerOf[j]}
  <2>1. \A S \in SUBSET Jobs : ExternalOf(S, OwnerOf[j]) = S \cap Q
    BY DEF ExternalOf
  <2>2. ASSUME NEW k \in L \cap Q PROVE Cardinality(At(k) \cap Q) < ExternalPerOwner
    <3>1. k \in External /\ OwnerOf[k] = OwnerOf[j]
      OBVIOUS
    <3>2. Cardinality(ExternalOf(At(k), OwnerOf[j])) < ExternalPerOwner
      BY <1>6, <1>9, <3>1 DEF Fits
    <3>3. ExternalOf(At(k), OwnerOf[j]) = At(k) \cap Q
      BY <1>11, <2>1
    <3>4. QED BY <3>2, <3>3
  <2>3. j \in Q /\ Q \in SUBSET Jobs /\ ExternalPerOwner \in Nat
    BY <1>12, JobsAssumption DEF ExternalPerOwner
  <2> HIDE DEF Q
  <2>4. Cardinality((R \cup L) \cap Q) <= ExternalPerOwner
    BY <1>10, <2>2, <2>3
  <2>5. ExternalOf(R \cup L, OwnerOf[j]) = (R \cup L) \cap Q
    BY <1>2, <2>1
  <2>6. QED BY <1>6, <1>12, <2>4, <2>5
<1>13. CASE j \notin External
  <2>1. ASSUME NEW k \in L, k \notin External
        PROVE  /\ Cardinality(GLM(At(k))) < limits'.run
               /\ Cardinality(GLMOf(At(k), OwnerOf[k])) < limits'.user
    BY <1>6, <1>9, <2>1 DEF Fits, WithinCounts
  <2>2. Cardinality(GLM(R \cup L)) <= limits'.run
    <3> DEFINE Q == Jobs \ External
    <3>1. \A S \in SUBSET Jobs : GLM(S) = S \cap Q
      BY DEF GLM
    <3>2. ASSUME NEW k \in L \cap Q PROVE Cardinality(At(k) \cap Q) < limits'.run
      <4>1. GLM(At(k)) = At(k) \cap Q
        BY <1>11, <3>1
      <4>2. QED BY <2>1, <4>1
    <3>3. j \in Q /\ Q \in SUBSET Jobs
      BY <1>5, <1>13
    <3> HIDE DEF Q
    <3>4. Cardinality((R \cup L) \cap Q) <= limits'.run
      BY <1>7, <1>10, <3>2, <3>3
    <3>5. GLM(R \cup L) = (R \cup L) \cap Q
      BY <1>2, <3>1
    <3>6. QED BY <3>4, <3>5
  <2>3. Cardinality(GLMOf(R \cup L, OwnerOf[j])) <= limits'.user
    <3>1. CASE OwnerOf[j] = Anon
      <4>1. GLMOf(R \cup L, OwnerOf[j]) = {}
        BY <3>1 DEF GLMOf
      <4>2. QED BY <4>1, <1>7, FS_EmptySet
    <3>2. CASE OwnerOf[j] # Anon
      <4> DEFINE Q == {k \in Jobs \ External : OwnerOf[k] = OwnerOf[j]}
      <4>1. \A S \in SUBSET Jobs : GLMOf(S, OwnerOf[j]) = S \cap Q
        BY <3>2 DEF GLMOf, GLM
      <4>2. ASSUME NEW k \in L \cap Q PROVE Cardinality(At(k) \cap Q) < limits'.user
        <5>1. k \notin External /\ OwnerOf[k] = OwnerOf[j]
          OBVIOUS
        <5>2. Cardinality(GLMOf(At(k), OwnerOf[j])) < limits'.user
          BY <2>1, <5>1
        <5>3. GLMOf(At(k), OwnerOf[j]) = At(k) \cap Q
          BY <1>11, <4>1
        <5>4. QED BY <5>2, <5>3
      <4>3. j \in Q /\ Q \in SUBSET Jobs
        BY <1>5, <1>13
      <4> HIDE DEF Q
      <4>4. Cardinality((R \cup L) \cap Q) <= limits'.user
        BY <1>7, <1>10, <4>2, <4>3
      <4>5. GLMOf(R \cup L, OwnerOf[j]) = (R \cup L) \cap Q
        BY <1>2, <4>1
      <4>6. QED BY <4>4, <4>5
    <3>3. QED BY <3>1, <3>2
  <2>4. QED BY <1>6, <1>13, <2>2, <2>3
<1>14. QED BY <1>12, <1>13

\* A step in which no status becomes "running" launches nothing.
LEMMA QuietStep ==
    ASSUME \A j \in Jobs : status'[j] = "running" => status[j] = "running"
    PROVE  LaunchStep
BY DEF LaunchStep, Launched, Running

LEMMA NextWithinCaps == IInv /\ [Next]_vars => LaunchStep
<1> SUFFICES ASSUME IInv, [Next]_vars PROVE LaunchStep
  OBVIOUS
<1>0. IInv'
  BY StepOK
<1>N. Cardinality(Jobs) \in Nat
  BY JobsAssumption, FS_CardinalityType
<1>P. pos \in [Jobs -> Nat] /\ status \in [Jobs -> Statuses] /\ PlacesOK(status, pos)
  BY <1>N DEF IInv, TypeOK, LineIsQueued, PlacesOK
<1>L. limits' \in LimitChoices
  BY <1>0 DEF IInv, TypeOK
<1>Q. ASSUME UNCHANGED status PROVE LaunchStep
  BY <1>Q, QuietStep
<1>J. ASSUME NEW j \in Jobs, status[j] # "queued", Join(j) PROVE LaunchStep
  <2> DEFINE st == [status EXCEPT ![j] = "queued"]
             p == [pos EXCEPT ![j] = Cardinality(Line(pos)) + 1]
  <2>1. st \in [Jobs -> Statuses] /\ p \in [Jobs -> Nat] /\ PlacesOK(st, p)
    BY <1>P, <1>J, JoinKeepsPlaces
  <2>2. Pump(st, p, seats)
    BY <1>J DEF Join
  <2>3. \A k \in Jobs : st[k] = "running" => status[k] = "running"
    BY <1>P
  <2> HIDE DEF st, p
  <2>4. QED BY <1>L, <2>1, <2>2, <2>3, PumpWithinCaps
<1>E. ASSUME NEW j \in Jobs, status[j] = "running",
             NEW s \in {"none", "cancelled", "interrupted"}, End(j, s)
      PROVE  LaunchStep
  <2> DEFINE st == [status EXCEPT ![j] = s]
  <2>1. st \in [Jobs -> Statuses]
    BY <1>P DEF Statuses
  <2>2. PlacesOK(st, pos)
    BY <1>P, <1>E DEF PlacesOK
  <2>3. Pump(st, pos, seats')
    BY <1>E DEF End
  <2>4. \A k \in Jobs : st[k] = "running" => status[k] = "running"
    BY <1>P
  <2> HIDE DEF st
  <2>5. QED BY <1>L, <1>P, <2>1, <2>2, <2>3, <2>4, PumpWithinCaps
<1>1. ASSUME NEW j \in Jobs, Request(j) PROVE LaunchStep
  <2>1. CASE Start(j) \/ Resume(j)
    <3>1. status[j] # "queued" /\ Join(j)
      BY <2>1 DEF Start, Resume
    <3>2. QED BY <3>1, <1>J
  <2>2. CASE CancelQueued(j)
    BY <2>2, <1>P, QuietStep DEF CancelQueued
  <2>3. CASE CancelRunning(j)
    BY <2>3, <1>Q DEF CancelRunning
  <2>4. QED BY <1>1, <2>1, <2>2, <2>3 DEF Request
<1>2. ASSUME NEW j \in Jobs, Task(j) PROVE LaunchStep
  <2>1. CASE Enter(j) \/ Finishing(j) \/ Decision(j)
    BY <2>1, <1>Q DEF Enter, Finishing, Decision
  <2>2. ASSUME NEW n \in 1..MaxSeats, Seat(j, n) PROVE LaunchStep
    <3>1. Pump(status, pos, seats')
      BY <2>2 DEF Seat
    <3>2. QED BY <3>1, <1>L, <1>P, PumpWithinCaps
  <2>3. CASE Finish(j) \/ Cut(j) \/ Settle(j)
    BY <2>3, <1>E DEF Finish, Cut, Settle, CutStatus, Live
  <2>4. QED BY <1>2, <2>1, <2>2, <2>3 DEF Task
<1>3. ASSUME Operator PROVE LaunchStep
  <2>1. CASE PauseOn \/ PauseLapse \/ \E l \in LimitChoices : EditLimits(l)
    BY <2>1, <1>Q DEF PauseOn, PauseLapse, EditLimits
  <2>2. CASE PauseOff \/ \E l \in LimitChoices : SetLimits(l)
    <3>1. Pump(status, pos, seats)
      BY <2>2 DEF PauseOff, SetLimits
    <3>2. QED BY <3>1, <1>L, <1>P, PumpWithinCaps
  <2>3. QED BY <1>3, <2>1, <2>2 DEF Operator
<1>4. CASE Tick
  <2>1. Pump(status, pos, seats)
    BY <1>4 DEF Tick
  <2>2. QED BY <2>1, <1>L, <1>P, PumpWithinCaps
<1>5. CASE ExitSignal \/ Shutdown \/ UNCHANGED vars
  BY <1>5, <1>Q DEF ExitSignal, Shutdown, vars
<1>6. QED BY <1>1, <1>2, <1>3, <1>4, <1>5 DEF Next

\* Whatever the requests, ends, cancellations and changes of the limits, a job
\* starts to run only while the line is open, and with it the running jobs are
\* within the global cap, the owner's cap and, for external responders, one job
\* per owner.
THEOREM CapsAreKept == Spec => LaunchWithinCaps
<1>1. IInv /\ [Next]_vars => [LaunchStep]_vars
  BY NextWithinCaps
<1>2. Spec => []IInv
  BY InitOK, StepOK, PTL DEF Spec
<1>3. QED BY <1>1, <1>2, PTL DEF Spec, LaunchWithinCaps

-----------------------------------------------------------------------------
(* The finishing mark.                                                     *)

\* A cancellation is pending only for running jobs, and as long as only people
\* ask for it never for a job that is finishing; shutdown() asks for all.
CancelInv ==
    /\ cancelReq \subseteq Running(status)
    /\ phase # "down" => cancelReq \cap finishing = {}

FInv == IInv /\ CancelInv

\* A pump takes no job out of the running ones and gives no job the status
\* cancelled.
LEMMA PumpStatus ==
    ASSUME NEW st \in [Jobs -> Statuses], NEW p, NEW se, Pump(st, p, se)
    PROVE  \A j \in Jobs : status'[j] = st[j] \/ status'[j] = "running"
BY DEF Pump

LEMMA FinishingKeptByStep == FInv /\ [Next]_vars => CancelInv' /\ FinishingStep
<1> SUFFICES ASSUME FInv, [Next]_vars PROVE CancelInv' /\ FinishingStep
  OBVIOUS
<1>T. status \in [Jobs -> Statuses] /\ finishing \subseteq Jobs
  BY DEF FInv, IInv, TypeOK
<1>C. cancelReq \subseteq Running(status) /\ (phase # "down" => cancelReq \cap finishing = {})
  BY DEF FInv, CancelInv
\* Steps that end no job and cancel none.
<1>K. ASSUME \A j \in Jobs : status'[j] # "cancelled" \/ status[j] \notin {"queued", "running"},
             \A j \in Jobs : status[j] = "running" => status'[j] = "running",
             cancelReq' = cancelReq, phase' = phase,
             finishing' \cap cancelReq \subseteq finishing
      PROVE  CancelInv' /\ FinishingStep
  BY <1>T, <1>C, <1>K DEF CancelInv, FinishingStep, Running
<1>1. ASSUME NEW j \in Jobs, Start(j) \/ Resume(j)
      PROVE  CancelInv' /\ FinishingStep
  <2>1. /\ status[j] \in {"none", "cancelled", "interrupted"} /\ Join(j)
        /\ cancelReq' = cancelReq /\ phase' = phase
        /\ finishing' \subseteq finishing \cup {j}
    BY <1>1 DEF Start, Resume
  <2>2. [status EXCEPT ![j] = "queued"] \in [Jobs -> Statuses]
    BY <1>T DEF Statuses
  <2>3. \A k \in Jobs : \/ status'[k] = [status EXCEPT ![j] = "queued"][k]
                        \/ status'[k] = "running"
    BY <2>1, <2>2, PumpStatus DEF Join
  <2>4. j \notin cancelReq
    BY <1>C, <2>1 DEF Running
  <2>5. QED BY <1>K, <1>T, <2>1, <2>3, <2>4
<1>2. ASSUME NEW j \in Jobs, CancelQueued(j)
      PROVE  CancelInv' /\ FinishingStep
  <2>1. status[j] = "queued"
    BY <1>2 DEF FInv, IInv, LineIsQueued, CancelQueued, Line
  <2>2. CancelInv'
    BY <1>2, <1>C, <1>T, <2>1 DEF CancelQueued, CancelInv, Running
  <2>3. FinishingStep
    BY <1>2, <1>T DEF CancelQueued, FinishingStep
  <2>4. QED BY <2>2, <2>3
<1>3. ASSUME NEW j \in Jobs, CancelRunning(j)
      PROVE  CancelInv' /\ FinishingStep
  BY <1>3, <1>C, <1>T DEF CancelRunning, CancelInv, FinishingStep, Running
<1>4. ASSUME NEW j \in Jobs, Finish(j)
      PROVE  CancelInv' /\ FinishingStep
  <2>1. /\ cancelReq' = cancelReq \ {j} /\ phase' = phase
        /\ finishing' = finishing \ {j}
        /\ [status EXCEPT ![j] = "none"] \in [Jobs -> Statuses]
        /\ Pump([status EXCEPT ![j] = "none"], pos, seats')
    BY <1>4, <1>T DEF Finish, End, Statuses
  <2>2. \A k \in Jobs : \/ status'[k] = [status EXCEPT ![j] = "none"][k]
                        \/ status'[k] = "running"
    BY <2>1, PumpStatus
  <2>3. QED BY <1>C, <1>T, <2>1, <2>2 DEF CancelInv, FinishingStep, Running
<1>5. ASSUME NEW j \in Jobs, Cut(j) \/ Settle(j)
      PROVE  CancelInv' /\ FinishingStep
  <2>1. /\ cancelReq' = cancelReq \ {j} /\ phase' = phase
        /\ finishing' \subseteq finishing
        /\ CutStatus \in {"cancelled", "interrupted"}
        /\ Pump([status EXCEPT ![j] = CutStatus], pos, seats')
        /\ j \in cancelReq
    BY <1>5 DEF Cut, Settle, End, CutStatus
  <2>2. [status EXCEPT ![j] = CutStatus] \in [Jobs -> Statuses]
    BY <1>T, <2>1 DEF Statuses
  <2>3. \A k \in Jobs : \/ status'[k] = [status EXCEPT ![j] = CutStatus][k]
                        \/ status'[k] = "running"
    BY <2>1, <2>2, PumpStatus
  <2>4. j \in finishing => CutStatus = "interrupted"
    BY <1>C, <2>1 DEF CutStatus, Closing
  <2>5. QED BY <1>C, <1>T, <2>1, <2>3, <2>4 DEF CancelInv, FinishingStep, Running
<1>6. ASSUME NEW j \in Jobs, Enter(j) \/ Finishing(j) \/ Decision(j)
      PROVE  CancelInv' /\ FinishingStep
  <2>1. /\ status' = status /\ cancelReq' = cancelReq /\ phase' = phase
        /\ finishing' \cap cancelReq \subseteq finishing
    BY <1>6 DEF Enter, Finishing, Decision, Live
  <2>2. QED BY <1>C, <1>T, <2>1 DEF CancelInv, FinishingStep
<1>7. ASSUME NEW j \in Jobs, NEW n \in 1..MaxSeats, Seat(j, n)
      PROVE  CancelInv' /\ FinishingStep
  <2>1. /\ Pump(status, pos, seats') /\ cancelReq' = cancelReq
        /\ finishing' = finishing /\ phase' = phase
    BY <1>7 DEF Seat
  <2>2. QED BY <1>C, <1>T, <2>1, PumpStatus DEF CancelInv, FinishingStep, Running
<1>8. ASSUME Operator \/ Tick
      PROVE  CancelInv' /\ FinishingStep
  <2>1. /\ UNCHANGED status \/ Pump(status, pos, seats)
        /\ cancelReq' = cancelReq /\ finishing' = finishing /\ phase' = phase
    BY <1>8 DEF Operator, Tick, SetLimits, EditLimits, PauseOn, PauseOff, PauseLapse
  <2>2. QED BY <1>C, <1>T, <2>1, PumpStatus DEF CancelInv, FinishingStep, Running
<1>9. CASE ExitSignal \/ Shutdown \/ UNCHANGED vars
  BY <1>9, <1>C, <1>T DEF ExitSignal, Shutdown, vars, CancelInv, FinishingStep
<1>10. QED
  BY <1>1, <1>2, <1>3, <1>4, <1>5, <1>6, <1>7, <1>8, <1>9 DEF Next, Request, Task

\* A job whose decision exists is never cancelled, in the line or running: a
\* cancellation accepted before the mark has ended the job before the mark, and
\* the one shutdown() sends to every task leaves the job interrupted.
THEOREM FinishingIsNeverCancelled == Spec => FinishingIsKept
<1>1. Init => FInv
  BY InitOK DEF Init, FInv, CancelInv
<1>2. FInv /\ [Next]_vars => FInv'
  BY StepOK, FinishingKeptByStep DEF FInv
<1>3. FInv /\ [Next]_vars => [FinishingStep]_vars
  BY FinishingKeptByStep
<1>4. QED BY <1>1, <1>2, <1>3, PTL DEF Spec, FinishingIsKept

-----------------------------------------------------------------------------
(* The sum of the seats.  The fold of the community modules is a function  *)
(* defined by recursion on the subsets of the set it sums over: it exists, *)
(* it does not depend on that set, and the order of the choices is         *)
(* immaterial.  Each induction is a least counterexample.                  *)

LEMMA LeastOf ==
    ASSUME NEW T \in SUBSET Nat, T # {}
    PROVE  \E m \in T : \A k \in T : m <= k
<1>1. PICK m \in T : \A k \in T : ~(<<k, m>> \in OpToRel(<, Nat))
  BY NatLessThanWellFounded, WFMin
<1>2. ASSUME NEW k \in T PROVE m <= k
  <2>1. ~(k < m)
    BY <1>1 DEF OpToRel
  <2>2. QED BY <2>1
<1>3. QED BY <1>2

Pick(s) == CHOOSE x \in s : TRUE

\* One step of the fold over s, g being the fold of the smaller sets.
SumStep(se, g, s) ==
    IF s = {} THEN 0 ELSE SeatsOf(se, Pick(s)) + g[s \ {Pick(s)}]

IsSum(se, T, g) == g = [s \in SUBSET T |-> SumStep(se, g, s)]

LEMMA SeatSumIsFold ==
    ASSUME NEW se, NEW S
    PROVE  SeatSum(se, S) = (CHOOSE g : IsSum(se, S, g))[S]
BY DEF SeatSum, MapThenSumSet, MapThenFoldSet, IsSum, SumStep, Pick

LEMMA PickIsSmaller ==
    ASSUME NEW S \in SUBSET Jobs, S # {}
    PROVE  /\ Pick(S) \in S /\ IsFiniteSet(S)
           /\ Cardinality(S) \in Nat /\ Cardinality(S \ {Pick(S)}) \in Nat
           /\ Cardinality(S \ {Pick(S)}) < Cardinality(S)
<1>1. Pick(S) \in S
  BY DEF Pick
<1>2. IsFiniteSet(S) /\ Cardinality(S) \in Nat
  BY JobsAssumption, FS_Subset, FS_CardinalityType
<1>3. Cardinality(S \ {Pick(S)}) = Cardinality(S) - 1 /\ IsFiniteSet(S \ {Pick(S)})
  BY <1>1, <1>2, FS_RemoveElement
<1>4. Cardinality(S \ {Pick(S)}) \in Nat
  BY <1>3, FS_CardinalityType
<1>5. QED BY <1>1, <1>2, <1>3, <1>4

\* The fold exists: the folds of the sets of at most n jobs are one function.
LEMMA SumExists ==
    ASSUME NEW se, NEW T \in SUBSET Jobs
    PROVE  \E g : IsSum(se, T, g)
<1> DEFINE Upto(n) == {s \in SUBSET T : Cardinality(s) <= n}
           Good(n) == \E g : g = [s \in Upto(n) |-> SumStep(se, g, s)]
           Bad == {n \in Nat : ~Good(n)}
<1>F. \A s \in SUBSET T : IsFiniteSet(s) /\ Cardinality(s) \in Nat /\ s \in SUBSET Jobs
  BY JobsAssumption, FS_Subset, FS_CardinalityType
<1>1. Good(0)
  <2> DEFINE g == [s \in Upto(0) |-> 0]
  <2>1. \A s \in Upto(0) : s = {}
    BY <1>F, FS_EmptySet
  <2>2. g = [s \in Upto(0) |-> SumStep(se, g, s)]
    BY <2>1 DEF SumStep
  <2>3. QED BY <2>2
<1>2. ASSUME NEW n \in Nat, Good(n) PROVE Good(n + 1)
  <2>1. PICK h : h = [s \in Upto(n) |-> SumStep(se, h, s)]
    BY <1>2
  <2> DEFINE g == [s \in Upto(n + 1) |-> SumStep(se, h, s)]
  <2>2. \A s \in Upto(n) : s \in Upto(n + 1) /\ g[s] = h[s]
    BY <1>F, <2>1
  <2>3. ASSUME NEW s \in Upto(n + 1) PROVE SumStep(se, g, s) = SumStep(se, h, s)
    <3>1. CASE s = {}
      BY <3>1 DEF SumStep
    <3>2. CASE s # {}
      <4>1. s \in SUBSET Jobs /\ Cardinality(s) <= n + 1
        BY <1>F
      <4>2. s \ {Pick(s)} \in Upto(n)
        BY <3>2, <4>1, PickIsSmaller
      <4>3. g[s \ {Pick(s)}] = h[s \ {Pick(s)}]
        BY <2>2, <4>2
      <4> HIDE DEF g
      <4>4. QED BY <4>3 DEF SumStep
    <3>3. QED BY <3>1, <3>2
  <2>4. g = [s \in Upto(n + 1) |-> SumStep(se, g, s)]
    BY <2>3
  <2>5. QED BY <2>4
<1>3. \A n \in Nat : Good(n)
  <2> HIDE DEF Good
  <2>1. SUFFICES ASSUME Bad # {} PROVE FALSE
    OBVIOUS
  <2>2. PICK n \in Bad : \A k \in Bad : n <= k
    BY <2>1, LeastOf
  <2>3. n # 0 /\ n \in Nat
    BY <1>1
  <2>4. Good(n - 1)
    BY <2>2, <2>3
  <2>5. QED BY <1>2, <2>2, <2>3, <2>4
<1>4. PICK g : g = [s \in Upto(Cardinality(T)) |-> SumStep(se, g, s)]
  BY <1>3, <1>F
<1>5. Upto(Cardinality(T)) = SUBSET T
  BY <1>F, FS_Subset
<1>6. QED BY <1>4, <1>5 DEF IsSum

\* Two folds agree on the sets both are about.
LEMMA SumIsUnique ==
    ASSUME NEW se, NEW T \in SUBSET Jobs, NEW U \in SUBSET Jobs, NEW g, NEW h,
           IsSum(se, T, g), IsSum(se, U, h), NEW s \in SUBSET (T \cap U)
    PROVE  g[s] = h[s]
<1> DEFINE Bad == {Cardinality(r) : r \in {q \in SUBSET (T \cap U) : g[q] # h[q]}}
<1>F. \A r \in SUBSET (T \cap U) : Cardinality(r) \in Nat /\ r \in SUBSET Jobs
  BY JobsAssumption, FS_Subset, FS_CardinalityType
<1>1. SUFFICES ASSUME Bad # {} PROVE FALSE
  OBVIOUS
<1>B. Bad \in SUBSET Nat
  BY <1>F
<1>2. PICK n \in Bad : \A k \in Bad : n <= k
  <2> HIDE DEF Bad
  <2>1. QED BY <1>B, <1>1, LeastOf
<1>3. PICK r \in SUBSET (T \cap U) : g[r] # h[r] /\ n = Cardinality(r)
  OBVIOUS
<1>4. g[r] = SumStep(se, g, r) /\ h[r] = SumStep(se, h, r)
  BY DEF IsSum
<1>5. r # {}
  BY <1>3, <1>4 DEF SumStep
<1>6. r \ {Pick(r)} \in SUBSET (T \cap U) /\ Cardinality(r \ {Pick(r)}) < n
      /\ n \in Nat /\ Cardinality(r \ {Pick(r)}) \in Nat
  BY <1>3, <1>5, <1>F, PickIsSmaller
<1>7. g[r \ {Pick(r)}] = h[r \ {Pick(r)}]
  <2>1. ASSUME g[r \ {Pick(r)}] # h[r \ {Pick(r)}] PROVE FALSE
    <3>1. Cardinality(r \ {Pick(r)}) \in Bad
      BY <1>6, <2>1
    <3>2. n <= Cardinality(r \ {Pick(r)})
      BY <1>2, <3>1
    <3>3. QED BY <1>6, <3>2
  <2>2. QED BY <2>1
<1>8. QED BY <1>3, <1>4, <1>7 DEF SumStep

\* A fold over T: the value of a set with one more job.
LEMMA SumAddsOne ==
    ASSUME NEW se \in [Jobs -> Nat], NEW T \in SUBSET Jobs, NEW g, IsSum(se, T, g),
           NEW s \in SUBSET T
    PROVE  /\ g[s] \in Nat
           /\ \A x \in T \ s : g[s \cup {x}] = g[s] + SeatsOf(se, x)
<1> DEFINE Holds(r) == /\ g[r] \in Nat
                       /\ \A x \in T \ r : g[r \cup {x}] = g[r] + SeatsOf(se, x)
           Bad == {Cardinality(r) : r \in {q \in SUBSET T : ~Holds(q)}}
<1>F. \A r \in SUBSET T : Cardinality(r) \in Nat /\ r \in SUBSET Jobs
  BY JobsAssumption, FS_Subset, FS_CardinalityType
<1>O. \A x \in Jobs : SeatsOf(se, x) \in Nat
  BY EstAssumption DEF SeatsOf
<1>E. \A r \in SUBSET T : g[r] = SumStep(se, g, r)
  BY DEF IsSum
<1>1. SUFFICES ASSUME Bad # {} PROVE FALSE
  OBVIOUS
<1>B. Bad \in SUBSET Nat
  BY <1>F
<1>2. PICK n \in Bad : \A k \in Bad : n <= k
  <2> HIDE DEF Bad
  <2>1. QED BY <1>B, <1>1, LeastOf
<1>3. PICK r \in SUBSET T : ~Holds(r) /\ n = Cardinality(r)
  OBVIOUS
<1>4. ASSUME NEW q \in SUBSET T, Cardinality(q) < n PROVE Holds(q)
  <2> HIDE DEF Holds
  <2>1. ASSUME ~Holds(q) PROVE FALSE
    <3>1. Cardinality(q) \in Bad
      BY <2>1
    <3>2. n <= Cardinality(q)
      BY <1>2, <3>1
    <3>3. QED BY <1>4, <3>2, <1>F, <1>3
  <2>2. QED BY <2>1
<1>5. g[r] \in Nat
  <2>1. CASE r = {}
    <3>1. g[r] = SumStep(se, g, r) /\ SumStep(se, g, r) = 0
      BY <1>E, <2>1 DEF SumStep
    <3> HIDE DEF Holds, Bad
    <3>2. QED BY <3>1
  <2>2. CASE r # {}
    <3>1. r \ {Pick(r)} \in SUBSET T /\ Pick(r) \in Jobs
          /\ Cardinality(r \ {Pick(r)}) < n
      BY <1>3, <1>F, <2>2, PickIsSmaller
    <3>2. g[r \ {Pick(r)}] \in Nat
      BY <1>4, <3>1
    <3>3. g[r] = SeatsOf(se, Pick(r)) + g[r \ {Pick(r)}]
      BY <1>E, <2>2 DEF SumStep
    <3>4. SeatsOf(se, Pick(r)) \in Nat
      BY <1>O, <3>1
    <3> HIDE DEF Holds, Bad
    <3>5. QED BY <3>2, <3>3, <3>4
  <2>3. QED BY <2>1, <2>2
<1>6. ASSUME NEW x \in T \ r PROVE g[r \cup {x}] = g[r] + SeatsOf(se, x)
  <2> DEFINE q == r \cup {x}
             c == Pick(q)
  <2>1. q \in SUBSET T /\ q # {} /\ c \in q /\ x \in Jobs /\ x \notin r
    BY <1>F, PickIsSmaller
  <2>2. g[q] = SeatsOf(se, c) + g[q \ {c}]
    BY <1>E, <2>1 DEF SumStep
  <2> HIDE DEF q, c
  <2>3. CASE c = x
    <3>1. q \ {c} = r
      BY <2>1, <2>3 DEF q
    <3>2. QED BY <1>5, <1>O, <2>1, <2>2, <2>3, <3>1 DEF q
  <2>4. CASE c # x
    <3>1. c \in r /\ r \ {c} \in SUBSET T /\ q \ {c} = (r \ {c}) \cup {x}
          /\ r = (r \ {c}) \cup {c} /\ c \in T \ (r \ {c}) /\ x \in T \ (r \ {c})
      BY <2>1, <2>4 DEF q
    <3>2. Cardinality(r \ {c}) < n
      <4>1. IsFiniteSet(r)
        BY <1>F, JobsAssumption, FS_Subset
      <4>2. Cardinality(r \ {c}) = Cardinality(r) - 1
        BY <3>1, <4>1, FS_RemoveElement
      <4>3. QED BY <1>3, <1>F, <4>2
    <3>3. Holds(r \ {c})
      BY <1>4, <3>1, <3>2
    <3>4. /\ g[r \ {c}] \in Nat
          /\ g[q \ {c}] = g[r \ {c}] + SeatsOf(se, x)
          /\ g[r] = g[r \ {c}] + SeatsOf(se, c)
      BY <3>1, <3>3
    <3>5. SeatsOf(se, x) \in Nat /\ SeatsOf(se, c) \in Nat
      BY <1>F, <1>O, <2>1, <3>1
    <3>6. g[q] = g[r] + SeatsOf(se, x)
      BY <2>2, <3>4, <3>5
    <3>7. QED BY <3>6 DEF q
  <2>5. QED BY <2>3, <2>4
<1>7. QED BY <1>3, <1>5, <1>6

LEMMA SumAddsThis ==
    ASSUME NEW se \in [Jobs -> Nat], NEW T \in SUBSET Jobs, NEW g, IsSum(se, T, g),
           NEW s \in SUBSET T, NEW x \in T \ s
    PROVE  g[s \cup {x}] = g[s] + SeatsOf(se, x)
BY SumAddsOne

\* One job more adds its seats to the sum.
LEMMA SeatSumAdds ==
    ASSUME NEW se \in [Jobs -> Nat], NEW S \in SUBSET Jobs, NEW x \in Jobs \ S
    PROVE  SeatSum(se, S \cup {x}) = SeatSum(se, S) + SeatsOf(se, x)
<1> DEFINE T == S \cup {x}
           g == CHOOSE f : IsSum(se, S, f)
           h == CHOOSE f : IsSum(se, T, f)
<1>1. IsSum(se, S, g) /\ IsSum(se, T, h)
  <2>1. (\E f : IsSum(se, S, f)) /\ (\E f : IsSum(se, T, f))
    BY SumExists
  <2>2. QED BY <2>1
<1>2. SeatSum(se, S) = g[S] /\ SeatSum(se, T) = h[T]
  BY SeatSumIsFold
<1> HIDE DEF g, h
<1>3. g[S] = h[S]
  BY <1>1, SumIsUnique
<1>4. T \in SUBSET Jobs /\ S \in SUBSET T /\ x \in T \ S
  OBVIOUS
<1>5. h[S \cup {x}] = h[S] + SeatsOf(se, x)
  <2> HIDE DEF T
  <2>1. ASSUME NEW U \in SUBSET Jobs, NEW f, IsSum(se, U, f), S \in SUBSET U, x \in U \ S
        PROVE  f[S \cup {x}] = f[S] + SeatsOf(se, x)
    BY <2>1, SumAddsThis
  <2>2. QED BY <1>1, <1>4, <2>1
<1>6. QED BY <1>2, <1>3, <1>5

-----------------------------------------------------------------------------
(* One pass over the line.                                                 *)

LEMMA CardMonotone ==
    ASSUME NEW T \in SUBSET Jobs, NEW S \in SUBSET T
    PROVE  Cardinality(S) \in Nat /\ Cardinality(T) \in Nat /\ Cardinality(S) <= Cardinality(T)
BY JobsAssumption, FS_Subset, FS_CardinalityType

\* What a job sees running only grows along the line, up to the end of the pass.
LEMMA RunningGrows ==
    ASSUME NEW st, NEW p \in [Jobs -> Nat], NEW L \in SUBSET Line(p), NEW j \in Jobs
    PROVE  /\ RunningAt(j, L, st, p) \in SUBSET Jobs
           /\ RunningAt(j, L, st, p) \in SUBSET (Running(st) \cup L)
           /\ \A k \in Jobs : p[k] <= p[j] =>
                 RunningAt(k, L, st, p) \in SUBSET RunningAt(j, L, st, p)
BY DEF RunningAt, Running, Line

\* A pass launches no GLM job past one that stays, unless the owner of that one
\* had used up its share when the loop looked at it.
LEMMA PassOvertakesNobody ==
    ASSUME NEW st, NEW p \in [Jobs -> Nat], NEW se, NEW lim \in LimitChoices,
           NEW L \in SUBSET Line(p), IsLaunchSet(L, st, p, se, lim, FALSE),
           NEW j \in GLM(L), NEW k \in GLM(Line(p) \ L), p[k] < p[j]
    PROVE  Cardinality(GLMOf(RunningAt(k, L, st, p), OwnerOf[k])) >= lim.user
<1> DEFINE Rj == RunningAt(j, L, st, p)
           Rk == RunningAt(k, L, st, p)
<1>1. j \in Jobs /\ k \in Jobs /\ j \in L /\ k \in Line(p) /\ k \notin L /\ j \in Line(p)
      /\ j \notin External /\ k \notin External
  BY DEF GLM, Line
<1>2. Rk \in SUBSET Rj /\ Rj \in SUBSET Jobs
  BY <1>1, RunningGrows
<1>3. /\ WithinCounts(j, Rj, lim) /\ ~SeatHold(j, L, st, p, se, lim)
      /\ ~(WithinCounts(k, Rk, lim) /\ WithinSeats(k, Rk, se, lim)
           /\ ~SeatHold(k, L, st, p, se, lim))
  BY <1>1 DEF IsLaunchSet, Fits
<1>4. ~WithinCounts(k, Rk, lim)
  <2>1. SUFFICES ASSUME WithinCounts(k, Rk, lim) PROVE FALSE
    OBVIOUS
  <2>2. CASE ~WithinSeats(k, Rk, se, lim)
    <3>1. lim.seats > 0
      BY <2>2, LimitAssumption DEF WithinSeats
    <3>2. SeatHold(j, L, st, p, se, lim)
      BY <1>1, <2>1, <2>2, <3>1 DEF SeatHold, GLM
    <3>3. QED BY <1>3, <3>2
  <2>3. CASE SeatHold(k, L, st, p, se, lim)
    <3>1. SeatHold(j, L, st, p, se, lim)
      <4>1. lim.seats > 0
        BY <2>3 DEF SeatHold
      <4>2. PICK m \in GLM(Line(p)) :
              /\ p[m] < p[k]
              /\ WithinCounts(m, RunningAt(m, L, st, p), lim)
              /\ ~WithinSeats(m, RunningAt(m, L, st, p), se, lim)
        BY <2>3 DEF SeatHold
      <4>3. p[m] < p[j]
        <5>1. m \in Jobs
          BY DEF GLM, Line
        <5>2. p[m] \in Nat /\ p[k] \in Nat /\ p[j] \in Nat
          BY <1>1, <5>1
        <5>3. QED BY <4>2, <5>2
      <4>4. QED BY <4>1, <4>2, <4>3 DEF SeatHold
    <3>2. QED BY <1>3, <3>1
  <2>4. QED BY <1>3, <2>1, <2>2, <2>3
<1>5. Cardinality(GLM(Rk)) < lim.run
  <2>1. GLM(Rk) \in SUBSET GLM(Rj) /\ GLM(Rj) \in SUBSET Jobs
    BY <1>2 DEF GLM
  <2>2. Cardinality(GLM(Rj)) < lim.run
    BY <1>3 DEF WithinCounts
  <2> HIDE DEF Rk, Rj
  <2>3. /\ Cardinality(GLM(Rk)) \in Nat /\ Cardinality(GLM(Rj)) \in Nat
        /\ Cardinality(GLM(Rk)) <= Cardinality(GLM(Rj))
    BY <2>1, CardMonotone
  <2>4. lim.run \in Nat
    BY LimitAssumption
  <2>5. QED BY <2>2, <2>3, <2>4
<1>6. /\ ~(Cardinality(GLMOf(Rk, OwnerOf[k])) < lim.user)
      /\ GLMOf(Rk, OwnerOf[k]) \in SUBSET Jobs
  BY <1>2, <1>4, <1>5 DEF WithinCounts, GLMOf, GLM
<1> HIDE DEF Rk
<1>7. Cardinality(GLMOf(Rk, OwnerOf[k])) \in Nat /\ lim.user \in Nat
  BY <1>6, CardMonotone, LimitAssumption
<1>8. QED BY <1>6, <1>7 DEF Rk

\* Job k stays only because of the seats.
LacksSeats(k, L, st, p, se, lim) ==
    /\ WithinCounts(k, RunningAt(k, L, st, p), lim)
    /\ ~WithinSeats(k, RunningAt(k, L, st, p), se, lim)

\* When a GLM job stays only because of the seats, no GLM job behind it starts:
\* the GLM jobs running at the end of the pass are those it saw.
LEMMA SeatsHoldTheLine ==
    ASSUME NEW st, NEW p \in [Jobs -> Nat], NEW se, NEW lim \in LimitChoices,
           NEW L \in SUBSET Line(p), IsLaunchSet(L, st, p, se, lim, FALSE),
           PlacesOK(st, p), NEW k \in GLM(Line(p)), LacksSeats(k, L, st, p, se, lim)
    PROVE  /\ k \notin L
           /\ \A i \in Jobs \ External :
                 i \in Running(st) \/ i \in L <=> i \in RunningAt(k, L, st, p)
<1>1. k \in Line(p) /\ k \in Jobs /\ k \notin External
  BY DEF GLM, Line
<1>2. k \notin L
  BY <1>1 DEF IsLaunchSet, Fits, LacksSeats
<1>3. ASSUME NEW j \in GLM(L) PROVE p[j] < p[k]
  <2>1. j \in L /\ j \in Line(p) /\ j \in Jobs /\ j \notin External
    BY DEF GLM, Line
  <2>2. ~SeatHold(j, L, st, p, se, lim)
    BY <2>1 DEF IsLaunchSet, Fits
  <2>3. lim.seats > 0
    BY LimitAssumption DEF LacksSeats, WithinSeats
  <2>4. ~(p[k] < p[j])
    BY <2>2, <2>3 DEF LacksSeats, SeatHold
  <2>5. p[k] # p[j] /\ p[k] \in Nat /\ p[j] \in Nat
    BY <1>1, <1>2, <2>1 DEF PlacesOK
  <2>6. QED BY <2>4, <2>5
<1>4. ASSUME NEW i \in Jobs \ External
      PROVE  i \in Running(st) \/ i \in L <=> i \in RunningAt(k, L, st, p)
  BY <1>3 DEF GLM, RunningAt
<1>5. QED BY <1>2, <1>4

-----------------------------------------------------------------------------
(* One pump.                                                               *)

\* The jobs running after a pump are those before it and those it launched.
LEMMA PumpLaunches ==
    ASSUME NEW st \in [Jobs -> Statuses], NEW p \in [Jobs -> Nat], NEW se, Pump(st, p, se)
    PROVE  \E L \in SUBSET Line(p) :
             /\ IsLaunchSet(L, st, p, se, limits', paused' \/ phase' # "up")
             /\ Running(status') = Running(st) \cup L
             /\ Line(pos') = Line(p) \ L
             /\ \A i, j \in Line(p) \ L : p[i] < p[j] => pos'[i] < pos'[j]
             /\ L # {} => ~paused' /\ phase' = "up"
<1>1. PICK L \in SUBSET Line(p) :
        /\ IsLaunchSet(L, st, p, se, limits', paused' \/ phase' # "up")
        /\ status' = [j \in Jobs |-> IF j \in L THEN "running" ELSE st[j]]
        /\ pos' = Compact(p, Line(p) \ L)
  BY DEF Pump
<1>2. Line(p) \in SUBSET Jobs /\ Line(p) \ L \in SUBSET Jobs
  BY DEF Line
<1>3. Running(status') = Running(st) \cup L
  BY <1>1, <1>2 DEF Running
<1>4. Line(pos') = Line(p) \ L
  BY <1>1, <1>2, CompactLine
<1>5. \A i, j \in Line(p) \ L : p[i] < p[j] => pos'[i] < pos'[j]
  BY <1>1, <1>2, CompactKeepsOrder
<1>6. L # {} => ~paused' /\ phase' = "up"
  BY <1>1 DEF IsLaunchSet
<1>7. QED BY <1>1, <1>3, <1>4, <1>5, <1>6

\* What each part of LineIsFair says of one step.
NoOvertakingStep ==
    \A j \in GLM(Launched), k \in GLM(Line(pos) \cap Line(pos')) :
       pos[j] = 0 \/ pos[k] < pos[j] =>
          Cardinality(GLMOf(Running(status'), OwnerOf[k])) >= limits'.user

SeatsStep ==
    LET R == GLM(Running(status')) IN
    limits'.seats > 0 /\ GLM(Launched) # {} =>
       Cardinality(R) = 1 \/ SeatSum(seats', R) <= limits'.seats

IdleStep ==
      \/ Running(status) \ Running(status') # {}
      \/ Launched # {}
      \/ \E j \in Running(status) : seats'[j] # seats[j]
    => ~IdleSlot'

\* The step pumps the line p over the statuses st: p differs from the line of
\* the state by a job that has joined at its end, and nothing but the pump
\* makes a job run.
Pumps(st, p) ==
    /\ st \in [Jobs -> Statuses] /\ p \in [Jobs -> Nat] /\ PlacesOK(st, p)
    /\ Pump(st, p, seats')
    /\ Running(st) \subseteq Running(status)
    /\ \A k \in Line(pos) : p[k] = pos[k]
    /\ \A j \in Line(p) : pos[j] = 0 => \A k \in Line(pos) : p[k] < p[j]

LEMMA PumpOvertakesNobody ==
    ASSUME NEW st, NEW p, Pumps(st, p), pos \in [Jobs -> Nat], limits' \in LimitChoices
    PROVE  NoOvertakingStep
<1>1. PICK L \in SUBSET Line(p) :
        /\ IsLaunchSet(L, st, p, seats', limits', paused' \/ phase' # "up")
        /\ Running(status') = Running(st) \cup L
        /\ Line(pos') = Line(p) \ L
        /\ L # {} => ~paused' /\ phase' = "up"
  BY PumpLaunches DEF Pumps
<1>2. SUFFICES ASSUME NEW j \in GLM(Launched), NEW k \in GLM(Line(pos) \cap Line(pos')),
                      pos[j] = 0 \/ pos[k] < pos[j]
               PROVE  Cardinality(GLMOf(Running(status'), OwnerOf[k])) >= limits'.user
  BY DEF NoOvertakingStep
<1>3. j \in GLM(L) /\ j \in Jobs /\ j \in Line(p)
  <2>1. j \in Running(status') /\ status[j] # "running" /\ j \in Jobs /\ j \notin External
    BY DEF Launched, GLM, Running
  <2>2. j \notin Running(st)
    BY <2>1 DEF Pumps, Running
  <2>3. QED BY <1>1, <2>1, <2>2 DEF GLM
<1>4. k \in GLM(Line(p) \ L) /\ k \in Line(pos) /\ k \in Jobs
  BY <1>1 DEF GLM, Line
<1>5. p[k] < p[j]
  <2>1. CASE pos[j] = 0
    BY <1>3, <1>4, <2>1 DEF Pumps
  <2>2. CASE pos[j] # 0
    <3>1. j \in Line(pos)
      BY <1>3, <2>2 DEF Line
    <3>2. QED BY <1>2, <1>4, <2>2, <3>1 DEF Pumps
  <2>3. QED BY <2>1, <2>2
<1>6. IsLaunchSet(L, st, p, seats', limits', FALSE) /\ p \in [Jobs -> Nat]
  BY <1>1, <1>3 DEF IsLaunchSet, Pumps, GLM
<1>7. Cardinality(GLMOf(RunningAt(k, L, st, p), OwnerOf[k])) >= limits'.user
  BY <1>3, <1>4, <1>5, <1>6, PassOvertakesNobody
<1>8. /\ GLMOf(RunningAt(k, L, st, p), OwnerOf[k]) \in SUBSET GLMOf(Running(status'), OwnerOf[k])
      /\ GLMOf(Running(status'), OwnerOf[k]) \in SUBSET Jobs
  BY <1>1, <1>4, <1>6, RunningGrows DEF GLMOf, GLM, Running
<1>9. /\ Cardinality(GLMOf(RunningAt(k, L, st, p), OwnerOf[k])) \in Nat
      /\ Cardinality(GLMOf(Running(status'), OwnerOf[k])) \in Nat
      /\ Cardinality(GLMOf(RunningAt(k, L, st, p), OwnerOf[k]))
            <= Cardinality(GLMOf(Running(status'), OwnerOf[k]))
      /\ limits'.user \in Nat
  BY <1>8, CardMonotone, LimitAssumption
<1>10. QED BY <1>7, <1>9

\* The last GLM job a pump launches finds room for its seats beside the seats
\* of all the others, or runs alone.
LEMMA PumpWithinSeats ==
    ASSUME NEW st, NEW p, Pumps(st, p), seats' \in [Jobs -> Nat], limits' \in LimitChoices
    PROVE  SeatsStep
<1>1. PICK L \in SUBSET Line(p) :
        /\ IsLaunchSet(L, st, p, seats', limits', paused' \/ phase' # "up")
        /\ Running(status') = Running(st) \cup L
        /\ L # {} => ~paused' /\ phase' = "up"
  BY PumpLaunches DEF Pumps
<1> DEFINE R == GLM(Running(status'))
<1>2. SUFFICES ASSUME limits'.seats > 0, GLM(Launched) # {}
               PROVE  Cardinality(R) = 1 \/ SeatSum(seats', R) <= limits'.seats
  BY DEF SeatsStep
<1>3. GLM(L) # {} /\ GLM(L) \in SUBSET Line(p) /\ Line(p) \in SUBSET Jobs
  <2>1. PICK j \in GLM(Launched) : TRUE
    BY <1>2
  <2>2. j \in Running(status') /\ status[j] # "running" /\ j \in Jobs /\ j \notin External
    BY DEF Launched, GLM, Running
  <2>3. j \notin Running(st)
    BY <2>2 DEF Pumps, Running
  <2>4. QED BY <1>1, <2>2, <2>3 DEF GLM, Line
<1>4. p \in [Jobs -> Nat] /\ PlacesOK(st, p)
  BY DEF Pumps
<1>5. PICK n \in Nat : \A k \in Line(p) : p[k] <= n
  <2>1. Cardinality(Line(p)) \in Nat
    BY <1>3, JobsAssumption, FS_Subset, FS_CardinalityType
  <2>2. QED BY <1>4, <2>1 DEF PlacesOK
<1>6. PICK m \in GLM(L) : \A k \in GLM(L) : p[k] <= p[m]
  <2>1. GLM(L) \in SUBSET Jobs /\ \A k \in GLM(L) : p[k] <= n
    BY <1>3, <1>5
  <2>2. QED BY <1>3, <1>4, <2>1, LastOfLine
<1> DEFINE B == GLM(RunningAt(m, L, st, p))
<1>7. m \in L /\ m \notin External /\ m \in Jobs /\ m \in Line(p)
  BY <1>3 DEF GLM
<1>8. WithinSeats(m, RunningAt(m, L, st, p), seats', limits')
  BY <1>1, <1>7 DEF IsLaunchSet, Fits
<1>9. m \notin B /\ B \in SUBSET Jobs /\ R = B \cup {m}
  <2>1. st[m] = "queued"
    BY <1>4, <1>7 DEF PlacesOK
  <2>2. m \notin RunningAt(m, L, st, p)
    BY <1>4, <1>7, <2>1 DEF RunningAt, Running
  <2>3. ASSUME NEW k \in GLM(L), k # m PROVE p[k] < p[m]
    <3>1. k \in Line(p) /\ k \in Jobs
      BY <1>3
    <3>2. p[k] <= p[m] /\ p[k] # p[m] /\ p[k] \in Nat /\ p[m] \in Nat
      BY <1>4, <1>6, <1>7, <2>3, <3>1 DEF PlacesOK
    <3>3. QED BY <3>2
  <2>4. GLM(Running(st) \cup L) = GLM(RunningAt(m, L, st, p)) \cup {m}
    BY <1>7, <2>3 DEF GLM, RunningAt
  <2>5. QED BY <1>1, <1>3, <2>2, <2>4 DEF GLM, RunningAt, Running
<1> HIDE DEF B, R
<1>10. CASE B = {}
  BY <1>9, <1>10, FS_Singleton
<1>11. CASE B # {}
  <2>1. SeatSum(seats', B) + SeatsOf(seats', m) <= limits'.seats
    BY <1>2, <1>8, <1>11 DEF WithinSeats, B
  <2>2. SeatSum(seats', R) = SeatSum(seats', B) + SeatsOf(seats', m)
    BY <1>7, <1>9, SeatSumAdds
  <2>3. QED BY <2>1, <2>2
<1>12. QED BY <1>10, <1>11 DEF R

\* A job that a pass leaves in the line would not fit after the pass either:
\* what it saw is still running, and whoever held its seats still holds them.
LEMMA PumpLeavesNobody ==
    ASSUME NEW st, NEW p, Pumps(st, p), limits' \in LimitChoices
    PROVE  ~IdleSlot'
<1>1. PICK L \in SUBSET Line(p) :
        /\ IsLaunchSet(L, st, p, seats', limits', paused' \/ phase' # "up")
        /\ Running(status') = Running(st) \cup L
        /\ Line(pos') = Line(p) \ L
        /\ \A i, j \in Line(p) \ L : p[i] < p[j] => pos'[i] < pos'[j]
  BY PumpLaunches DEF Pumps
<1> DEFINE R == Running(status')
           At(k) == RunningAt(k, L, st, p)
<1>2. SUFFICES ASSUME ~paused', phase' = "up", NEW j \in Line(pos'),
                      Fits(j, {}, status', pos', seats', limits')
               PROVE  FALSE
  BY DEF IdleSlot, Closing
<1>3. /\ IsLaunchSet(L, st, p, seats', limits', FALSE)
      /\ p \in [Jobs -> Nat] /\ PlacesOK(st, p)
      /\ j \in Line(p) /\ j \notin L /\ j \in Jobs
  BY <1>1, <1>2 DEF IsLaunchSet, Pumps, Line
<1>4. ~Fits(j, L, st, p, seats', limits')
  BY <1>3 DEF IsLaunchSet
<1>5. \A k \in Jobs : RunningAt(k, {}, status', pos') = R
  BY DEF RunningAt
<1>6. \A k \in Jobs : At(k) \in SUBSET R
  BY <1>1, <1>3, RunningGrows
<1>7. R \in SUBSET Jobs /\ R = Running(st) \cup L
  BY <1>1 DEF Running
<1> HIDE DEF R, At
<1>8. CASE j \in External
  <2> DEFINE A == ExternalOf(At(j), OwnerOf[j])
             B == ExternalOf(R, OwnerOf[j])
  <2>1. ~(Cardinality(A) < ExternalPerOwner) /\ Cardinality(B) < ExternalPerOwner
    BY <1>2, <1>3, <1>4, <1>5, <1>8 DEF Fits, At
  <2>2. A \in SUBSET B /\ B \in SUBSET Jobs
    BY <1>3, <1>6, <1>7 DEF ExternalOf
  <2> HIDE DEF A, B
  <2>3. Cardinality(A) \in Nat /\ Cardinality(B) \in Nat /\ Cardinality(A) <= Cardinality(B)
    BY <2>2, CardMonotone
  <2>4. QED BY <2>1, <2>3 DEF ExternalPerOwner
<1>9. CASE j \notin External
  <2>1. /\ WithinCounts(j, R, limits') /\ WithinSeats(j, R, seats', limits')
        /\ ~SeatHold(j, {}, status', pos', seats', limits')
    BY <1>2, <1>3, <1>5, <1>9 DEF Fits
  <2>2. WithinCounts(j, At(j), limits')
    <3> DEFINE A == GLM(At(j))
               B == GLM(R)
               C == GLMOf(At(j), OwnerOf[j])
               D == GLMOf(R, OwnerOf[j])
    <3>1. A \in SUBSET B /\ C \in SUBSET D /\ B \in SUBSET Jobs /\ D \in SUBSET Jobs
      BY <1>3, <1>6, <1>7 DEF GLM, GLMOf
    <3>2. Cardinality(B) < limits'.run /\ Cardinality(D) < limits'.user
      BY <2>1 DEF WithinCounts
    <3> HIDE DEF A, B, C, D
    <3>3. /\ Cardinality(A) \in Nat /\ Cardinality(B) \in Nat /\ Cardinality(A) <= Cardinality(B)
          /\ Cardinality(C) \in Nat /\ Cardinality(D) \in Nat /\ Cardinality(C) <= Cardinality(D)
      BY <3>1, CardMonotone
    <3>4. limits'.run \in Nat /\ limits'.user \in Nat
      BY LimitAssumption
    <3>5. Cardinality(A) < limits'.run /\ Cardinality(C) < limits'.user
      BY <3>2, <3>3, <3>4
    <3>6. QED BY <3>5 DEF WithinCounts, A, C
  \* A job held by its own seats or by an earlier one's: the holder k saw the
  \* GLM jobs that run at the end.
  <2>3. \A k \in GLM(Line(p)) :
          WithinCounts(k, At(k), limits') /\ ~WithinSeats(k, At(k), seats', limits')
            => k \notin L /\ GLM(R) = GLM(At(k))
    <3>1. ASSUME NEW k \in GLM(Line(p)), LacksSeats(k, L, st, p, seats', limits')
          PROVE  k \notin L /\ GLM(R) = GLM(At(k))
      <4>1. /\ k \notin L
            /\ \A i \in Jobs \ External :
                  i \in Running(st) \/ i \in L <=> i \in RunningAt(k, L, st, p)
        BY <1>3, <3>1, SeatsHoldTheLine
      <4>2. k \in Jobs /\ At(k) \in SUBSET Jobs
        BY <1>6, <1>7 DEF GLM, Line
      <4>3. QED BY <1>7, <4>1, <4>2 DEF GLM, At
    <3>2. QED BY <3>1 DEF At, LacksSeats
  <2>4. \A k \in Jobs : GLM(R) = GLM(At(k)) =>
          /\ WithinCounts(k, R, limits') <=> WithinCounts(k, At(k), limits')
          /\ WithinSeats(k, R, seats', limits') <=> WithinSeats(k, At(k), seats', limits')
    BY DEF WithinCounts, WithinSeats, GLMOf
  <2>5. WithinSeats(j, At(j), seats', limits')
    BY <1>3, <1>9, <2>1, <2>2, <2>3, <2>4 DEF GLM
  <2>6. SeatHold(j, L, st, p, seats', limits')
    BY <1>3, <1>4, <1>9, <2>2, <2>5 DEF Fits, At
  <2>7. PICK k \in GLM(Line(p)) :
          /\ p[k] < p[j] /\ WithinCounts(k, At(k), limits')
          /\ ~WithinSeats(k, At(k), seats', limits')
    BY <2>6 DEF SeatHold, At
  <2>8. /\ k \in GLM(Line(pos')) /\ k \in Jobs /\ pos'[k] < pos'[j]
        /\ WithinCounts(k, R, limits') /\ ~WithinSeats(k, R, seats', limits')
    BY <1>1, <1>3, <2>3, <2>4, <2>7 DEF GLM, Line
  <2>9. limits'.seats > 0
    BY <2>6 DEF SeatHold
  <2>10. SeatHold(j, {}, status', pos', seats', limits')
    BY <1>5, <2>8, <2>9 DEF SeatHold
  <2>11. QED BY <2>1, <2>10
<1>10. QED BY <1>8, <1>9

-----------------------------------------------------------------------------
\* A step that ends no job, starts none and seats no panel.
LEMMA StillStep ==
    ASSUME \A j \in Jobs : status'[j] = "running" <=> status[j] = "running",
           \A j \in Running(status) : seats'[j] = seats[j]
    PROVE  NoOvertakingStep /\ SeatsStep /\ IdleStep
<1>1. Running(status') = Running(status) /\ Launched = {} /\ GLM(Launched) = {}
  BY DEF Running, Launched, GLM
<1>2. QED BY <1>1 DEF NoOvertakingStep, SeatsStep, IdleStep

LEMMA PumpIsFair ==
    ASSUME NEW st, NEW p, Pumps(st, p), pos \in [Jobs -> Nat],
           seats' \in [Jobs -> Nat], limits' \in LimitChoices
    PROVE  NoOvertakingStep /\ SeatsStep /\ IdleStep
BY PumpOvertakesNobody, PumpWithinSeats, PumpLeavesNobody DEF IdleStep

LEMMA NextIsFair == IInv /\ [Next]_vars => NoOvertakingStep /\ SeatsStep /\ IdleStep
<1> SUFFICES ASSUME IInv, [Next]_vars PROVE NoOvertakingStep /\ SeatsStep /\ IdleStep
  OBVIOUS
<1>0. IInv'
  BY StepOK
<1>N. Cardinality(Jobs) \in Nat
  BY JobsAssumption, FS_CardinalityType
<1>P. pos \in [Jobs -> Nat] /\ status \in [Jobs -> Statuses] /\ PlacesOK(status, pos)
  BY <1>N DEF IInv, TypeOK, LineIsQueued, PlacesOK
<1>L. limits' \in LimitChoices /\ seats' \in [Jobs -> Nat]
  BY <1>0, EstAssumption DEF IInv, TypeOK
<1>S. ASSUME UNCHANGED <<status, seats>> PROVE NoOvertakingStep /\ SeatsStep /\ IdleStep
  BY <1>S, StillStep DEF Running
\* The line of the state itself is pumped.
<1>M. ASSUME Pump(status, pos, seats') PROVE NoOvertakingStep /\ SeatsStep /\ IdleStep
  <2>1. Pumps(status, pos)
    BY <1>M, <1>P DEF Pumps, Line
  <2>2. QED BY <2>1, <1>L, <1>P, PumpIsFair
<1>J. ASSUME NEW j \in Jobs, status[j] \in {"none", "cancelled", "interrupted"},
             Join(j), seats' = seats
      PROVE  NoOvertakingStep /\ SeatsStep /\ IdleStep
  <2> DEFINE st == [status EXCEPT ![j] = "queued"]
             p == [pos EXCEPT ![j] = Cardinality(Line(pos)) + 1]
  <2>1. st \in [Jobs -> Statuses] /\ p \in [Jobs -> Nat] /\ PlacesOK(st, p)
    BY <1>P, <1>J, JoinKeepsPlaces
  <2>2. Pump(st, p, seats')
    BY <1>J DEF Join
  <2>3. Running(st) \subseteq Running(status)
    BY <1>P DEF Running
  <2>4. j \notin Line(pos)
    BY <1>P, <1>J DEF PlacesOK
  <2>5. Cardinality(Line(pos)) \in Nat
    BY CardMonotone DEF Line
  <2>6. p[j] = Cardinality(Line(pos)) + 1 /\ \A k \in Jobs \ {j} : p[k] = pos[k]
    BY <1>P
  <2>7. \A k \in Line(pos) : k \in Jobs /\ k # j /\ p[k] = pos[k] /\ p[k] < p[j]
    BY <1>P, <2>4, <2>5, <2>6 DEF PlacesOK, Line
  <2>8. \A i \in Line(p) : pos[i] = 0 => i = j
    BY <2>6 DEF Line
  <2> HIDE DEF st, p
  <2>9. Pumps(st, p)
    BY <2>1, <2>2, <2>3, <2>7, <2>8 DEF Pumps
  <2>10. QED BY <1>L, <1>P, <2>9, PumpIsFair
<1>E. ASSUME NEW j \in Jobs, status[j] = "running",
             NEW s \in {"none", "cancelled", "interrupted"}, End(j, s)
      PROVE  NoOvertakingStep /\ SeatsStep /\ IdleStep
  <2> DEFINE st == [status EXCEPT ![j] = s]
  <2>1. st \in [Jobs -> Statuses]
    BY <1>P DEF Statuses
  <2>2. PlacesOK(st, pos)
    BY <1>P, <1>E DEF PlacesOK
  <2>3. Pump(st, pos, seats')
    BY <1>E DEF End
  <2>4. Running(st) \subseteq Running(status)
    BY <1>P DEF Running
  <2> HIDE DEF st
  <2>5. Pumps(st, pos)
    BY <1>P, <2>1, <2>2, <2>3, <2>4 DEF Pumps, Line
  <2>6. QED BY <1>L, <1>P, <2>5, PumpIsFair
<1>1. ASSUME NEW j \in Jobs, Request(j) PROVE NoOvertakingStep /\ SeatsStep /\ IdleStep
  <2>1. CASE Start(j) \/ Resume(j)
    BY <2>1, <1>J DEF Start, Resume
  <2>2. CASE CancelQueued(j)
    <3>1. status[j] = "queued"
      BY <2>2, <1>P DEF CancelQueued, PlacesOK, Line
    <3>2. QED BY <2>2, <3>1, <1>P, StillStep DEF CancelQueued, IInv, TypeOK, Running
  <2>3. CASE CancelRunning(j)
    BY <2>3, <1>S DEF CancelRunning
  <2>4. QED BY <1>1, <2>1, <2>2, <2>3 DEF Request
<1>2. ASSUME NEW j \in Jobs, Task(j) PROVE NoOvertakingStep /\ SeatsStep /\ IdleStep
  <2>1. CASE Enter(j) \/ Finishing(j) \/ Decision(j)
    BY <2>1, <1>S DEF Enter, Finishing, Decision
  <2>2. ASSUME NEW n \in 1..MaxSeats, Seat(j, n) PROVE NoOvertakingStep /\ SeatsStep /\ IdleStep
    BY <2>2, <1>M DEF Seat
  <2>3. CASE Finish(j) \/ Cut(j) \/ Settle(j)
    BY <2>3, <1>E DEF Finish, Cut, Settle, CutStatus, Live
  <2>4. QED BY <1>2, <2>1, <2>2, <2>3 DEF Task
<1>3. ASSUME Operator PROVE NoOvertakingStep /\ SeatsStep /\ IdleStep
  <2>1. CASE PauseOn \/ PauseLapse \/ \E l \in LimitChoices : EditLimits(l)
    BY <2>1, <1>S DEF PauseOn, PauseLapse, EditLimits
  <2>2. CASE PauseOff \/ \E l \in LimitChoices : SetLimits(l)
    BY <2>2, <1>M DEF PauseOff, SetLimits
  <2>3. QED BY <1>3, <2>1, <2>2 DEF Operator
<1>4. CASE Tick
  BY <1>4, <1>M DEF Tick
<1>5. CASE ExitSignal \/ Shutdown \/ UNCHANGED vars
  BY <1>5, <1>S DEF ExitSignal, Shutdown, vars
<1>6. QED BY <1>1, <1>2, <1>3, <1>4, <1>5 DEF Next

\* Whatever the limits, the panels and the order of the requests: nobody is
\* launched past a job of its own kind that waits, unless that one's owner has
\* used up its share; the seats of the running jobs are within the seat cap
\* whenever one is launched, or it runs alone; and no step that frees or takes
\* a slot leaves a job in the line that another pump would launch.
THEOREM TheLineIsFair == Spec => LineIsFair
<1>1. IInv /\ [Next]_vars => /\ [NoOvertakingStep]_vars
                             /\ [SeatsStep]_vars /\ [IdleStep]_vars
  BY NextIsFair
<1>2. Spec => []IInv
  BY InitOK, StepOK, PTL DEF Spec
<1>3. Spec => [][NoOvertakingStep]_vars /\ [][SeatsStep]_vars /\ [][IdleStep]_vars
  BY <1>1, <1>2, PTL DEF Spec
<1>4. QED BY <1>3 DEF LineIsFair, NoOvertaking, SeatsWithinCap, PumpLeavesNoIdleSlot,
                     NoOvertakingStep, SeatsStep, IdleStep
=============================================================================

-------------------------- MODULE RoutineRunProofs --------------------------
(***************************************************************************)
(* Proofs about RoutineRun, for any runs, plans, lives and limits: who     *)
(* drives a run, how many are driven at once, what is told at the end of a *)
(* drive, which deliberations are cancelled, and that a step has one       *)
(* deliberation at a time.                                                 *)
(***************************************************************************)
EXTENDS RoutineRun, FiniteSetTheorems, SequenceTheorems, WellFoundedInduction, TLAPS

-----------------------------------------------------------------------------
(* The inductive invariant.                                                *)

\* Alive and Drives, of the record x of a life.
Lives1(x) == x.pc \notin {"new", "over", "gone"}
Drives1(x) == Lives1(x) /\ x.pc \notin {"look", "closing"}

WithJob == {"prior", "logging", "poll", "watch", "fold", "result"}
Starting == {"start", "park", "call", "logging"}

\* Deliberations of run r among js that the ledger knows and that still run.
Open(r, js) ==
    {j \in DOMAIN js : js[j].run = r /\ js[j].logged /\ js[j].status \notin Dead \cup {"done"}}

\* The record of a life, beside the runs rn: the frame "done" is sent when it
\* is over; it has a run from its beginning on; a deliberation is cancelled
\* for a run that is over.
LifeOK(x, rn) ==
    /\ x.told = IF x.pc \in {"closing", "over"} THEN 1 ELSE 0
    /\ x.pc \notin {"new", "over", "gone", "closing", "begin"} => x.run \in Runs
    /\ x.pc \in {"new", "begin", "gone"} => x.run = None
    /\ x.run \in Runs => rn[x.run].state # "none"
    /\ x.pc = "fold" => rn[x.run].state \in Final

\* Its deliberation is one of its run's, and who is about to start one has
\* found that none runs, unless the run was driven twice.
WorkOK(x, js, db) ==
    /\ x.job # 0 => x.job \in DOMAIN js /\ x.run \in Runs /\ js[x.job].run = x.run
    /\ x.pc \in WithJob => x.job # 0
    /\ x.run \in Runs \ db =>
        /\ x.pc \in Starting => Open(x.run, js) = {}
        /\ x.pc = "prior" => \A j \in Open(x.run, js) : j = x.job

\* The calls in the ledger of a run are its own; one of its deliberations runs
\* at most, and the ledger's last start is it.
LedOK(r, v, js) ==
    \A n \in DOMAIN v.led : v.led[n] # 0 => v.led[n] \in DOMAIN js /\ js[v.led[n]].run = r
LastOK(r, v, js) ==
    /\ \A i, j \in Open(r, js) : i = j
    /\ v.state \notin Final => \A j \in Open(r, js) : j = Prior(v.led)

\* What is cancelled is cancelled for good.
FinalOK(rn, js) == \A j \in DOMAIN js : js[j].status = "cancelled" => rn[js[j].run].state \in Final

WorldOK(rn, js, db) ==
    /\ FinalOK(rn, js)
    /\ \A r \in Runs : LedOK(r, rn[r], js)
    /\ \A r \in Runs \ db : LastOK(r, rn[r], js)

\* A task that is alive has its place in _RUNS: a continuing one under the id
\* of its run, a new one under a key of its own until the run has an id.
HasPlace(l, x, rs) ==
    Lives1(x) => /\ x.key = "pending" \/ \E r \in Runs : x.key = r /\ rs[r] = l
                 /\ ~x.new => x.key = x.run /\ x.run \in Runs

\* A run that was not driven twice is driven once.
DrivenOnce ==
    \A k, l \in Lives :
        Drives(k) /\ Drives(l) /\ life[k].run = life[l].run /\ life[k].run \in Runs \ doubled => k = l

IInv ==
    /\ TypeOK
    /\ \A l \in Lives : LifeOK(life[l], run) /\ WorkOK(life[l], jobs, doubled)
    /\ WorldOK(run, jobs, doubled)
    /\ \A l \in Lives : HasPlace(l, life[l], runs)
    /\ DrivenOnce /\ CapIsKept

-----------------------------------------------------------------------------
(* What the others do leaves a life right.                                 *)

Evolves(rn, rn2, js, js2) ==
    /\ DOMAIN js \subseteq DOMAIN js2 /\ \A j \in DOMAIN js : js2[j].run = js[j].run
    /\ \A r \in Runs : /\ rn[r].state # "none" => rn2[r].state # "none"
                       /\ rn[r].state \in Final => rn2[r].state \in Final

\* No deliberation is begun that the ledger knows.
Calm(js, js2) == \A r \in Runs : Open(r, js2) \subseteq Open(r, js)

\* The task goes on or ends; it drives no other run.
Same(x, y) ==
    /\ y.new = x.new /\ y.run = x.run /\ y.key = x.key
    /\ (Lives1(y) => Lives1(x)) /\ (Drives1(y) => Drives1(x))

LEMMA LifeEvolves ==
    ASSUME NEW x, NEW rn, NEW rn2, NEW js, NEW js2, Evolves(rn, rn2, js, js2), LifeOK(x, rn)
    PROVE  LifeOK(x, rn2)
BY DEF Evolves, LifeOK

LEMMA WorkEvolves ==
    ASSUME NEW x, NEW rn, NEW rn2, NEW js, NEW js2, NEW db, NEW db2,
           Evolves(rn, rn2, js, js2), db \subseteq db2, WorkOK(x, js, db),
           x.run \in Runs \ db2 /\ x.pc \in Starting \cup {"prior"}
                => Open(x.run, js2) \subseteq Open(x.run, js)
    PROVE  WorkOK(x, js2, db2)
BY DEF Evolves, WorkOK, Starting

LEMMA Consts ==
    /\ IsFiniteSet(Lives) /\ Lives \subseteq Nat /\ None \notin Lives /\ None \notin Runs
    /\ None # "pending" /\ "pending" \notin Runs
    /\ MaxRunning \in Nat \ {0} /\ Plan \in [Runs -> Seq({"tools", "delib"})]
    /\ RunCalls \in [Runs -> Nat] /\ MaxStops \in Nat /\ MaxPauses \in Nat /\ Strikes \in Nat
    /\ MaxJobs \in Nat
<1>1. Cardinality(Lives) \in Nat
  BY RoutineAssumption, FS_CardinalityType
<1> QED BY <1>1, RoutineAssumption

LEMMA FewerDrive ==
    ASSUME CapIsKept, \A l \in Lives : Drives(l)' => Drives(l)
    PROVE  CapIsKept'
<1> DEFINE S == {l \in Lives : Drives(l)}
           S2 == {l \in Lives : Drives(l)'}
<1>1. S2 \subseteq S
  OBVIOUS
<1>2. IsFiniteSet(S)
  BY Consts, FS_Subset
<1>3. Cardinality(S2) <= Cardinality(S) /\ Cardinality(S) \in Nat /\ Cardinality(S2) \in Nat
  BY <1>1, <1>2, FS_Subset, FS_CardinalityType
<1>4. Cardinality(S) <= MaxRunning
  BY DEF CapIsKept
<1> HIDE DEF S, S2
<1>5. Cardinality(S2) <= MaxRunning
  BY <1>3, <1>4, Consts
<1> QED BY <1>5 DEF CapIsKept, S2

\* A step of one task that goes on as what it is, beside a world that is right
\* and others whose work it leaves right.
LEMMA OneLifeWork ==
    ASSUME IInv, NEW l \in Lives, NEW y \in LifeType, life' = [life EXCEPT ![l] = y],
           Same(life[l], y), LifeOK(y, run'), WorkOK(y, jobs', doubled),
           \A k \in Lives \ {l} : WorkOK(life[k], jobs', doubled),
           Evolves(run, run', jobs, jobs'), WorldOK(run', jobs', doubled),
           run' \in [Runs -> RunType], jobs' \in Seq(JobType),
           UNCHANGED <<runs, server, pause, doubled>>
    PROVE  IInv'
<1>1. TypeOK'
  BY DEF IInv, TypeOK
<1>2. \A k \in Lives : life'[k] = IF k = l THEN y ELSE life[k]
  BY DEF IInv, TypeOK
<1>3. ASSUME NEW k \in Lives PROVE LifeOK(life'[k], run') /\ WorkOK(life'[k], jobs', doubled')
  <2>1. CASE k = l
    BY <2>1, <1>2
  <2>2. CASE k # l
    <3>1. LifeOK(life[k], run)
      BY DEF IInv
    <3>2. LifeOK(life[k], run')
      BY <3>1, LifeEvolves
    <3> QED BY <2>2, <1>2, <3>2
  <2> QED BY <2>1, <2>2
<1>4. ASSUME NEW k \in Lives PROVE HasPlace(k, life'[k], runs')
  <2>1. HasPlace(k, life[k], runs)
    BY DEF IInv
  <2> QED BY <2>1, <1>2 DEF HasPlace, Same
<1>5. \A k \in Lives : /\ Drives(k)' => Drives(k)
                        /\ life'[k].run = life[k].run
  BY <1>2 DEF Drives, Alive, Same, Drives1, Lives1
<1>6. DrivenOnce'
  BY <1>5 DEF IInv, DrivenOnce
<1>7. CapIsKept'
  BY <1>5, FewerDrive DEF IInv
<1>8. WorldOK(run', jobs', doubled')
  OBVIOUS
<1> QED BY <1>1, <1>3, <1>4, <1>6, <1>7, <1>8 DEF IInv

\* ... which is so when it makes no deliberation known.
LEMMA OneLife ==
    ASSUME IInv, NEW l \in Lives, NEW y \in LifeType, life' = [life EXCEPT ![l] = y],
           Same(life[l], y), LifeOK(y, run'), WorkOK(y, jobs', doubled),
           Evolves(run, run', jobs, jobs'), Calm(jobs, jobs'), WorldOK(run', jobs', doubled),
           run' \in [Runs -> RunType], jobs' \in Seq(JobType),
           UNCHANGED <<runs, server, pause, doubled>>
    PROVE  IInv'
<1>1. ASSUME NEW k \in Lives PROVE WorkOK(life[k], jobs', doubled)
  <2>1. WorkOK(life[k], jobs, doubled)
    BY DEF IInv
  <2>2. life[k].run \in Runs => Open(life[k].run, jobs') \subseteq Open(life[k].run, jobs)
    BY DEF Calm
  <2> QED BY <2>1, <2>2, WorkEvolves
<1> QED BY <1>1, OneLifeWork

\* A step of one task that may move its place in _RUNS, and drives no other run.
LEMMA PlaceMove ==
    ASSUME IInv, NEW l \in Lives, NEW y \in LifeType, life' = [life EXCEPT ![l] = y],
           Drives1(y) => Drives1(life[l]) /\ y.run = life[l].run,
           LifeOK(y, run), WorkOK(y, jobs, doubled),
           runs' \in [Runs -> Lives \cup {None}], HasPlace(l, y, runs'),
           \A k \in Lives \ {l} : HasPlace(k, life[k], runs'),
           UNCHANGED <<run, jobs, server, pause, doubled>>
    PROVE  IInv'
<1>1. TypeOK'
  BY DEF IInv, TypeOK
<1>2. \A k \in Lives : life'[k] = IF k = l THEN y ELSE life[k]
  BY DEF IInv, TypeOK
<1>3. ASSUME NEW k \in Lives
      PROVE  LifeOK(life'[k], run) /\ WorkOK(life'[k], jobs, doubled) /\ HasPlace(k, life'[k], runs')
  <2>1. LifeOK(life[k], run) /\ WorkOK(life[k], jobs, doubled)
    BY DEF IInv
  <2> QED BY <2>1, <1>2
<1>4. \A k \in Lives : Drives(k)' => Drives(k) /\ life'[k].run = life[k].run
  BY <1>2 DEF Drives, Alive, Drives1, Lives1
<1>5. DrivenOnce'
  BY <1>4 DEF IInv, DrivenOnce
<1>6. CapIsKept'
  BY <1>4, FewerDrive DEF IInv
<1>7. WorldOK(run', jobs', doubled')
  BY DEF IInv
<1> QED BY <1>1, <1>3, <1>5, <1>6, <1>7 DEF IInv

\* A task that passes the door of new work: whoever else drives has its place.
LEMMA DoorKeepsCap ==
    ASSUME IInv, NEW l \in Lives, NEW skip \in {l, None}, Door(skip),
           \A k \in Lives \ {l} : Drives(k)' => Drives(k)
    PROVE  CapIsKept'
<1> DEFINE Q == {k \in Lives \ {skip} : Alive(k) /\ Registered(k)}
           S2 == {k \in Lives : Drives(k)'}
<1>1. ASSUME NEW k \in Lives, Drives(k) PROVE Alive(k) /\ Registered(k)
  <2>1. HasPlace(k, life[k], runs)
    BY DEF IInv
  <2> QED BY <1>1, <2>1 DEF HasPlace, Drives, Alive, Registered, Lives1
<1>2. S2 \subseteq Q \cup {l}
  BY <1>1, Consts
<1>3. IsFiniteSet(Q)
  BY Consts, FS_Subset
<1>4. /\ IsFiniteSet(Q \cup {l}) /\ Cardinality(Q) \in Nat
      /\ Cardinality(Q \cup {l}) <= Cardinality(Q) + 1
  BY <1>3, FS_AddElement, FS_CardinalityType
<1>5. Cardinality(S2) <= Cardinality(Q \cup {l}) /\ Cardinality(S2) \in Nat
      /\ Cardinality(Q \cup {l}) \in Nat
  BY <1>2, <1>4, FS_Subset, FS_CardinalityType
<1>6. Cardinality(Q) < MaxRunning
  BY DEF Door, AliveCount
<1> HIDE DEF Q, S2
<1>7. Cardinality(S2) <= MaxRunning
  BY <1>4, <1>5, <1>6, Consts
<1> QED BY <1>7 DEF CapIsKept, S2

\* A step that changes no task.
LEMMA NobodyMoves ==
    ASSUME IInv, UNCHANGED <<life, runs, doubled>>,
           Evolves(run, run', jobs, jobs'), Calm(jobs, jobs'), WorldOK(run', jobs', doubled),
           run' \in [Runs -> RunType], jobs' \in Seq(JobType),
           server' \in [up : BOOLEAN, stops : 0..MaxStops],
           pause' \in [on : BOOLEAN, left : 0..MaxPauses]
    PROVE  IInv'
<1>1. TypeOK'
  BY DEF IInv, TypeOK
<1>2. ASSUME NEW k \in Lives PROVE LifeOK(life[k], run') /\ WorkOK(life[k], jobs', doubled)
  <2>1. LifeOK(life[k], run) /\ WorkOK(life[k], jobs, doubled)
    BY DEF IInv
  <2>2. LifeOK(life[k], run')
    BY <2>1, LifeEvolves
  <2>3. life[k].run \in Runs => Open(life[k].run, jobs') \subseteq Open(life[k].run, jobs)
    BY DEF Calm
  <2> QED BY <2>1, <2>2, <2>3, WorkEvolves
<1>3. \A k \in Lives : HasPlace(k, life'[k], runs')
  BY DEF IInv
<1>4. DrivenOnce'
  BY DEF IInv, DrivenOnce, Drives, Alive
<1>5. CapIsKept'
  BY DEF IInv, CapIsKept, Drives, Alive
<1> QED BY <1>1, <1>2, <1>3, <1>4, <1>5 DEF IInv

\* The deliberations get on, none is made known: the world stays right.
LEMMA WorldStays ==
    ASSUME NEW rn, NEW js, NEW js2, NEW db, WorldOK(rn, js, db), FinalOK(rn, js2),
           DOMAIN js \subseteq DOMAIN js2, \A j \in DOMAIN js : js2[j].run = js[j].run,
           Calm(js, js2)
    PROVE  WorldOK(rn, js2, db)
<1>1. ASSUME NEW r \in Runs PROVE LedOK(r, rn[r], js2)
  BY DEF WorldOK, LedOK
<1>2. ASSUME NEW r \in Runs \ db PROVE LastOK(r, rn[r], js2)
  BY DEF WorldOK, LastOK, Calm
<1> QED BY <1>1, <1>2 DEF WorldOK

-----------------------------------------------------------------------------
(* The last start in a ledger.                                             *)

LEMMA LeastOf ==
    ASSUME NEW A \in SUBSET Nat, A # {}
    PROVE  \E m \in A : \A k \in A : m <= k
<1>1. PICK m \in A : \A k \in A : ~(<<k, m>> \in OpToRel(<, Nat))
  BY NatLessThanWellFounded, WFMin
<1>2. ASSUME NEW k \in A PROVE m <= k
  <2>1. ~(k < m)
    BY <1>1 DEF OpToRel
  <2> QED BY <2>1
<1> QED BY <1>2

LEMMA PriorIs ==
    ASSUME NEW led \in Seq(Nat)
    PROVE  \/ Prior(led) = 0 /\ \A n \in DOMAIN led : led[n] = 0
           \/ \E n \in DOMAIN led : /\ led[n] # 0 /\ Prior(led) = led[n]
                                    /\ \A m \in DOMAIN led : led[m] # 0 => m <= n
<1> DEFINE at == {n \in DOMAIN led : led[n] # 0}
<1>1. CASE at = {}
  BY <1>1 DEF Prior
<1>2. CASE at # {}
  <2> DEFINE rest == {Len(led) - n : n \in at}
  <2>1. rest \in SUBSET Nat /\ rest # {}
    BY <1>2
  <2>2. PICK d \in rest : \A k \in rest : d <= k
    BY <2>1, LeastOf
  <2>3. PICK n \in at : d = Len(led) - n
    BY <2>2
  <2>4. \A m \in at : m <= n
    <3> SUFFICES ASSUME NEW m \in at PROVE m <= n
      OBVIOUS
    <3>1. Len(led) - n <= Len(led) - m
      BY <2>2, <2>3
    <3> QED BY <3>1
  <2>5. \E c \in at : \A m \in at : m <= c
    BY <2>4
  <2>6. PICK c \in at : (\A m \in at : m <= c) /\ Prior(led) = led[c]
    BY <1>2, <2>5 DEF Prior
  <2> QED BY <2>6
<1> QED BY <1>1, <1>2

\* A refused call, or one that reads, is no start; a start is the last one.
LEMMA PriorAppend ==
    ASSUME NEW led \in Seq(Nat), NEW j \in Nat
    PROVE  Prior(Append(led, j)) = IF j = 0 THEN Prior(led) ELSE j
<1> DEFINE all == Append(led, j)
<1>1. all \in Seq(Nat) /\ Len(all) = Len(led) + 1
  OBVIOUS
<1>2. \A n \in 1..Len(led) : all[n] = led[n]
  OBVIOUS
<1>3. all[Len(led) + 1] = j
  OBVIOUS
<1>4. DOMAIN all = 1..Len(led) + 1 /\ DOMAIN led = 1..Len(led)
  BY <1>1
<1>5. \/ Prior(all) = 0 /\ \A n \in DOMAIN all : all[n] = 0
      \/ \E n \in DOMAIN all : /\ all[n] # 0 /\ Prior(all) = all[n]
                               /\ \A m \in DOMAIN all : all[m] # 0 => m <= n
  BY <1>1, PriorIs
<1>6. \/ Prior(led) = 0 /\ \A n \in DOMAIN led : led[n] = 0
      \/ \E n \in DOMAIN led : /\ led[n] # 0 /\ Prior(led) = led[n]
                               /\ \A m \in DOMAIN led : led[m] # 0 => m <= n
  BY PriorIs
<1> HIDE DEF all
<1> SUFFICES Prior(all) = IF j = 0 THEN Prior(led) ELSE j
  BY DEF all
<1>7. Len(led) \in Nat
  OBVIOUS
<1>8. CASE j = 0
  BY <1>2, <1>3, <1>4, <1>5, <1>6, <1>7, <1>8
<1>9. CASE j # 0
  BY <1>2, <1>3, <1>4, <1>5, <1>7, <1>9
<1> QED BY <1>8, <1>9

-----------------------------------------------------------------------------
(* The ways a task goes on.                                                *)

LEMMA EndedIs ==
    ASSUME NEW x \in LifeType, NEW rn, NEW js, NEW db, LifeOK(x, rn),
           x.pc \notin {"new", "over", "gone", "closing"}
    PROVE  /\ Ended(x) \in LifeType /\ Same(x, Ended(x))
           /\ LifeOK(Ended(x), rn) /\ WorkOK(Ended(x), js, db)
<1>1. Ended(x) \in LifeType
  <2>1. New \in LifeType
    BY DEF New, LifeType, Places
  <2>2. /\ x.new \in BOOLEAN /\ x.run \in Runs \cup {None}
        /\ x.key \in Runs \cup {"pending", None} /\ x.told + 1 \in Nat
    BY DEF LifeType
  <2> DEFINE a == [New EXCEPT !.pc = "closing"]
             b == [a EXCEPT !.new = x.new, !.run = x.run]
             c == [b EXCEPT !.key = x.key]
  <2>3. a \in LifeType
    BY <2>1 DEF LifeType, Places
  <2>4. b \in LifeType
    BY <2>2, <2>3 DEF LifeType
  <2>5. c \in LifeType
    BY <2>2, <2>4 DEF LifeType
  <2>6. [c EXCEPT !.told = x.told + 1] \in LifeType
    BY <2>2, <2>5 DEF LifeType
  <2>7. Ended(x) = [c EXCEPT !.told = x.told + 1]
    BY DEF Ended
  <2> QED BY <2>6, <2>7
<1>2. Same(x, Ended(x))
  BY DEF Ended, New, LifeType, Same, Lives1, Drives1
<1>3. LifeOK(Ended(x), rn)
  BY DEF Ended, New, LifeType, LifeOK
<1>4. WorkOK(Ended(x), js, db)
  BY DEF Ended, New, LifeType, WorkOK, WithJob, Starting
<1> QED BY <1>1, <1>2, <1>3, <1>4

LEMMA CloseIs ==
    ASSUME NEW x \in LifeType, NEW rn, NEW js, NEW db, LifeOK(x, rn), NEW asks \in BOOLEAN,
           Drives1(x), x.pc # "begin"
    PROVE  /\ Close(x, asks) \in LifeType /\ Same(x, Close(x, asks))
           /\ LifeOK(Close(x, asks), rn) /\ WorkOK(Close(x, asks), js, db)
<1>1. Close(x, asks) \in LifeType
  BY DEF Close, LifeType, Places
<1>2. Same(x, Close(x, asks))
  BY DEF Close, LifeType, Same, Lives1, Drives1
<1>3. LifeOK(Close(x, asks), rn)
  BY DEF Close, LifeType, LifeOK, Lives1, Drives1
<1>4. WorkOK(Close(x, asks), js, db)
  BY DEF Close, LifeType, WorkOK, WithJob, Starting
<1> QED BY <1>1, <1>2, <1>3, <1>4

LEMMA BackIs ==
    ASSUME NEW x \in LifeType, NEW rn, NEW js, NEW db, LifeOK(x, rn), Drives1(x), x.pc # "begin"
    PROVE  /\ Back(x) \in LifeType /\ Same(x, Back(x))
           /\ LifeOK(Back(x), rn) /\ WorkOK(Back(x), js, db)
<1>1. Back(x) \in LifeType
  BY DEF Back, Close, LifeType, Places
<1>2. Same(x, Back(x))
  BY DEF Back, Close, LifeType, Same, Lives1, Drives1
<1>3. LifeOK(Back(x), rn)
  BY DEF Back, Close, LifeType, LifeOK, Lives1, Drives1
<1>4. WorkOK(Back(x), js, db)
  BY DEF Back, Close, LifeType, WorkOK, WithJob, Starting
<1> QED BY <1>1, <1>2, <1>3, <1>4

\* After a view of the run: what Enter finds in the ledger is the one
\* deliberation of the step that may still run.
LEMMA TurnIs ==
    ASSUME NEW x \in LifeType, NEW rn, NEW js \in Seq(JobType), NEW db, NEW v \in RunType,
           LifeOK(x, rn), WorkOK(x, js, db), Drives1(x), x.run \in Runs,
           LedOK(x.run, v, js), v.state # "none",
           x.run \notin db => LastOK(x.run, v, js)
    PROVE  LET y == Turn(x, v) IN
           /\ y \in LifeType /\ Same(x, y) /\ LifeOK(y, rn) /\ WorkOK(y, js, db)
<1> DEFINE y == Turn(x, v)
<1>1. x.told = 0 /\ x.pc \notin {"new", "over", "gone", "closing", "look"}
  BY DEF LifeOK, Drives1, Lives1
<1>2. CASE y = Ended(x)
  BY <1>1, <1>2, EndedIs
<1>3. CASE \E i \in Nat : y = [x EXCEPT !.pc = "limit", !.at = i] \/ y = [x EXCEPT !.at = i, !.pc = "tools"]
  <2>1. y \in LifeType
    BY <1>3 DEF LifeType, Places
  <2>2. Same(x, y) /\ LifeOK(y, rn)
    BY <1>1, <1>3 DEF LifeType, Same, Lives1, Drives1, LifeOK
  <2>3. WorkOK(y, js, db)
    BY <1>1, <1>3 DEF LifeType, WorkOK, WithJob, Starting
  <2> QED BY <2>1, <2>2, <2>3
<1>4. CASE y = [x EXCEPT !.pc = "report"]
  <2>1. y \in LifeType
    BY <1>4 DEF LifeType, Places
  <2>2. Same(x, y) /\ LifeOK(y, rn)
    BY <1>1, <1>4 DEF LifeType, Same, Lives1, Drives1, LifeOK
  <2>3. WorkOK(y, js, db)
    BY <1>1, <1>4 DEF LifeType, WorkOK, WithJob, Starting
  <2> QED BY <2>1, <2>2, <2>3
<1>5. CASE /\ v.state = "running" /\ v.step \in Steps(x.run)
           /\ y = [x EXCEPT !.at = v.step, !.seen = v.left, !.job = Prior(v.led),
                            !.pc = IF Prior(v.led) = 0 THEN "start" ELSE "prior"]
  <2>1. \/ Prior(v.led) = 0
        \/ Prior(v.led) \in DOMAIN js /\ js[Prior(v.led)].run = x.run
    BY PriorIs DEF LedOK, RunType
  <2>2. Prior(v.led) \in Nat
    BY PriorIs DEF RunType
  <2>3. y \in LifeType
    BY <1>5, <2>2 DEF LifeType, RunType, Places
  <2>4. Same(x, y) /\ LifeOK(y, rn)
    BY <1>1, <1>5 DEF LifeType, Same, Lives1, Drives1, LifeOK
  <2>5. x.run \notin db => \A j \in Open(x.run, js) : j = Prior(v.led)
    BY <1>5 DEF LastOK, Final
  <2>6. 0 \notin Open(x.run, js)
    BY DEF Open
  <2>7. WorkOK(y, js, db)
    BY <1>5, <2>1, <2>2, <2>5, <2>6 DEF LifeType, WorkOK, WithJob, Starting
  <2> QED BY <2>3, <2>4, <2>7
<1>6. \/ y = Ended(x) \/ y = [x EXCEPT !.pc = "report"]
      \/ y = [x EXCEPT !.pc = "limit", !.at = v.step]
      \/ y = [x EXCEPT !.at = v.step, !.pc = "tools"]
      \/ /\ v.state = "running" /\ v.step \in Steps(x.run)
         /\ y = [x EXCEPT !.at = v.step, !.seen = v.left, !.job = Prior(v.led),
                          !.pc = IF Prior(v.led) = 0 THEN "start" ELSE "prior"]
  BY DEF Turn, Enter
<1>7. v.step \in Nat
  BY DEF RunType
<1> QED BY <1>2, <1>3, <1>4, <1>5, <1>6, <1>7

-----------------------------------------------------------------------------
(* Steps of a task that change nothing but its record.                     *)

\* The record y is what task l may go on as, in the world as it is.
Right(l, y) ==
    /\ y \in LifeType /\ Same(life[l], y)
    /\ LifeOK(y, run) /\ WorkOK(y, jobs, doubled)

LEMMA Has ==
    ASSUME IInv, NEW l \in Lives
    PROVE  /\ life[l] \in LifeType /\ LifeOK(life[l], run) /\ WorkOK(life[l], jobs, doubled)
           /\ HasPlace(l, life[l], runs)
           /\ jobs \in Seq(JobType) /\ run \in [Runs -> RunType]
           /\ \A r \in Runs : /\ run[r] \in RunType /\ LedOK(r, run[r], jobs)
                              /\ r \notin doubled => LastOK(r, run[r], jobs)
BY DEF IInv, TypeOK, WorldOK

LEMMA HasRun ==
    ASSUME IInv, NEW r \in Runs
    PROVE  /\ run \in [Runs -> RunType] /\ run[r] \in RunType /\ jobs \in Seq(JobType)
           /\ LedOK(r, run[r], jobs) /\ (r \notin doubled => LastOK(r, run[r], jobs))
BY DEF IInv, TypeOK, WorldOK

LEMMA Still ==
    ASSUME IInv PROVE  Evolves(run, run, jobs, jobs) /\ Calm(jobs, jobs)
BY DEF Evolves, Calm

LEMMA LifeMove ==
    ASSUME IInv, NEW l \in Lives, NEW y, Right(l, y), Put(l, y),
           UNCHANGED <<runs, run, jobs, server, pause, doubled>>
    PROVE  IInv'
<1>1. WorldOK(run', jobs', doubled)
  BY DEF IInv
<1>2. run' \in [Runs -> RunType] /\ jobs' \in Seq(JobType)
  BY Has
<1>3. Evolves(run, run', jobs, jobs') /\ Calm(jobs, jobs')
  BY Still
<1>4. /\ y \in LifeType /\ Same(life[l], y)
      /\ LifeOK(y, run') /\ WorkOK(y, jobs', doubled)
  BY DEF Right
<1>5. life' = [life EXCEPT ![l] = y]
  BY DEF Put
<1> QED BY <1>1, <1>2, <1>3, <1>4, <1>5, OneLife

\* A view of the run as it is, by a task that has been driving it.
LEMMA TurnRight ==
    ASSUME IInv, NEW l \in Lives, Drives1(life[l]), life[l].pc # "begin"
    PROVE  life[l].run \in Runs /\ Right(l, Turn(life[l], run[life[l].run]))
<1>1. life[l] \in LifeType /\ LifeOK(life[l], run) /\ WorkOK(life[l], jobs, doubled)
      /\ jobs \in Seq(JobType)
  BY Has
<1>2. life[l].run \in Runs /\ run[life[l].run].state # "none"
  BY <1>1 DEF LifeOK, Drives1, Lives1
<1>3. /\ run[life[l].run] \in RunType /\ LedOK(life[l].run, run[life[l].run], jobs)
      /\ life[l].run \notin doubled => LastOK(life[l].run, run[life[l].run], jobs)
  BY <1>2, Has
<1> QED BY <1>1, <1>2, <1>3, TurnIs DEF Right

LEMMA EndedRight ==
    ASSUME IInv, NEW l \in Lives, life[l].pc \notin {"new", "over", "gone", "closing"}
    PROVE  Right(l, Ended(life[l]))
BY Has, EndedIs DEF Right

LEMMA ReadStep ==
    ASSUME IInv, NEW l \in Lives, Read(l)
    PROVE  IInv'
<1> DEFINE x == life[l]
<1>1. x.pc \in {"read", "limited"} /\ (Put(l, Turn(x, run[x.run])) \/ Put(l, Ended(x)))
      /\ UNCHANGED <<runs, run, jobs, server, pause, doubled>>
  BY DEF Read
<1>2. Right(l, Turn(x, run[x.run])) /\ Right(l, Ended(x))
  BY <1>1, TurnRight, EndedRight DEF Drives1, Lives1
<1> QED BY <1>1, <1>2, LifeMove

LEMMA ReconsiderStep ==
    ASSUME IInv, NEW l \in Lives, Reconsider(l)
    PROVE  IInv'
<1> DEFINE x == life[l]
<1>1. x.pc \in {"refused", "notclosed"} /\ (Put(l, Turn(x, run[x.run])) \/ Put(l, Ended(x)))
      /\ UNCHANGED <<runs, run, jobs, server, pause, doubled>>
  BY DEF Reconsider
<1>2. Right(l, Turn(x, run[x.run])) /\ Right(l, Ended(x))
  BY <1>1, TurnRight, EndedRight DEF Drives1, Lives1
<1> QED BY <1>1, <1>2, LifeMove

\* A task that drives its run goes on with it, with its deliberation or none.
LEMMA OnwardRight ==
    ASSUME IInv, NEW l \in Lives, Drives1(life[l]), life[l].pc # "begin", NEW y \in LifeType,
           y.new = life[l].new, y.run = life[l].run, y.key = life[l].key, y.told = life[l].told,
           y.pc \notin {"new", "over", "gone", "closing", "look", "begin", "fold"},
           y.job = life[l].job \/ y.job = 0, y.pc \in WithJob => y.job # 0,
           y.run \in Runs \ doubled =>
                /\ y.pc \in Starting => Open(y.run, jobs) = {}
                /\ y.pc = "prior" => \A j \in Open(y.run, jobs) : j = y.job
    PROVE  Right(l, y)
<1>1. life[l] \in LifeType /\ LifeOK(life[l], run) /\ WorkOK(life[l], jobs, doubled)
  BY Has
<1>2. Same(life[l], y)
  BY DEF Same, Lives1, Drives1
<1>3. LifeOK(y, run)
  BY <1>1 DEF LifeOK, Drives1, Lives1
<1>4. WorkOK(y, jobs, doubled)
  BY <1>1 DEF WorkOK
<1> QED BY <1>2, <1>3, <1>4 DEF Right

LEMMA CloseRight ==
    ASSUME IInv, NEW l \in Lives, Drives1(life[l]), life[l].pc # "begin", NEW asks \in BOOLEAN
    PROVE  Right(l, Close(life[l], asks)) /\ Right(l, Back(life[l]))
BY Has, CloseIs, BackIs DEF Right

LEMMA ToolsEndStep ==
    ASSUME IInv, NEW l \in Lives, ToolsEnd(l)
    PROVE  IInv'
<1> DEFINE x == life[l]
<1>1. x.pc = "tools" /\ UNCHANGED <<runs, run, jobs, server, pause, doubled>>
  BY DEF ToolsEnd
<1>2. x \in LifeType
  BY Has
<1>3. CASE Put(l, Ended(x))
  BY <1>1, <1>3, EndedRight, LifeMove
<1>4. ASSUME NEW asks \in BOOLEAN, Put(l, [x EXCEPT !.pc = "close", !.asks = asks]) PROVE IInv'
  <2> DEFINE y == [x EXCEPT !.pc = "close", !.asks = asks]
  <2>1. y \in LifeType
    BY <1>2 DEF LifeType, Places
  <2>2. /\ y.new = x.new /\ y.run = x.run /\ y.key = x.key /\ y.told = x.told
        /\ y.pc = "close" /\ y.job = x.job
    BY <1>2 DEF LifeType
  <2>3. Right(l, y)
    BY <1>1, <2>1, <2>2, OnwardRight DEF Drives1, Lives1, WithJob, Starting
  <2> QED BY <1>1, <1>4, <2>3, LifeMove
<1> QED BY <1>3, <1>4 DEF ToolsEnd

LEMMA PriorJobStep ==
    ASSUME IInv, NEW l \in Lives, PriorJob(l)
    PROVE  IInv'
<1> DEFINE x == life[l]
<1>1. x.pc = "prior" /\ UNCHANGED <<runs, run, jobs, server, pause, doubled>>
  BY DEF PriorJob
<1>2. x \in LifeType /\ WorkOK(x, jobs, doubled) /\ LifeOK(x, run)
  BY Has
<1>3. CASE Put(l, Ended(x))
  BY <1>1, <1>3, EndedRight, LifeMove
<1>4. CASE jobs[x.job].status \in Dead /\ Put(l, [x EXCEPT !.pc = "start", !.job = 0])
  <2> DEFINE y == [x EXCEPT !.pc = "start", !.job = 0]
  <2>1. y \in LifeType
    BY <1>2 DEF LifeType, Places
  <2>2. /\ y.new = x.new /\ y.run = x.run /\ y.key = x.key /\ y.told = x.told
        /\ y.pc = "start" /\ y.job = 0
    BY <1>2 DEF LifeType
  <2>3. x.run \in Runs \ doubled => Open(x.run, jobs) = {}
    BY <1>1, <1>2, <1>4 DEF WorkOK, Open
  <2>4. Right(l, y)
    BY <1>1, <2>1, <2>2, <2>3, OnwardRight DEF Drives1, Lives1, WithJob
  <2> QED BY <1>1, <1>4, <2>4, LifeMove
<1>5. CASE Put(l, [x EXCEPT !.pc = "poll", !.seen = 0])
  <2> DEFINE y == [x EXCEPT !.pc = "poll", !.seen = 0]
  <2>1. y \in LifeType
    BY <1>2 DEF LifeType, Places
  <2>2. /\ y.new = x.new /\ y.run = x.run /\ y.key = x.key /\ y.told = x.told
        /\ y.pc = "poll" /\ y.job = x.job
    BY <1>2 DEF LifeType
  <2>3. x.job # 0
    BY <1>1, <1>2 DEF WorkOK, WithJob
  <2>4. Right(l, y)
    BY <1>1, <2>1, <2>2, <2>3, OnwardRight DEF Drives1, Lives1, WithJob, Starting
  <2> QED BY <1>1, <1>5, <2>4, LifeMove
<1> QED BY <1>3, <1>4, <1>5 DEF PriorJob

LEMMA StartJobStep ==
    ASSUME IInv, NEW l \in Lives, StartJob(l)
    PROVE  IInv'
<1> DEFINE x == life[l]
<1>1. x.pc = "start" /\ UNCHANGED <<runs, run, jobs, server, pause, doubled>>
  BY DEF StartJob
<1>2. x \in LifeType /\ WorkOK(x, jobs, doubled) /\ LifeOK(x, run)
  BY Has
<1>3. CASE Put(l, Close(x, FALSE))
  BY <1>1, <1>3, CloseRight, LifeMove DEF Drives1, Lives1
<1>4. ASSUME NEW y, y = [x EXCEPT !.pc = "park", !.parked = TRUE] \/ y = [x EXCEPT !.pc = "call"],
             Put(l, y)
      PROVE  IInv'
  <2>1. y \in LifeType
    BY <1>2, <1>4 DEF LifeType, Places
  <2>2. /\ y.new = x.new /\ y.run = x.run /\ y.key = x.key /\ y.told = x.told
        /\ y.pc \in {"park", "call"} /\ y.job = x.job
    BY <1>2, <1>4 DEF LifeType
  <2>3. x.run \in Runs \ doubled => Open(x.run, jobs) = {}
    BY <1>1, <1>2 DEF WorkOK, Starting
  <2>4. Right(l, y)
    BY <1>1, <2>1, <2>2, <2>3, OnwardRight DEF Drives1, Lives1, WithJob
  <2> QED BY <1>1, <1>4, <2>4, LifeMove
<1> QED BY <1>3, <1>4 DEF StartJob

\* Counters of failures aside, the task is where it was.
Beside(x, y) ==
    /\ y.new = x.new /\ y.run = x.run /\ y.key = x.key /\ y.told = x.told
    /\ y.pc = x.pc /\ y.job = x.job

LEMMA BesideRight ==
    ASSUME IInv, NEW l \in Lives, Drives1(life[l]), life[l].pc # "begin",
           NEW y \in LifeType, Beside(life[l], y)
    PROVE  /\ Right(l, Close(y, FALSE)) /\ Right(l, Back(y)) /\ Right(l, Ended(y))
<1>1. LifeOK(life[l], run)
  BY Has
<1>2. LifeOK(y, run) /\ Drives1(y) /\ y.pc # "begin"
  BY <1>1 DEF LifeOK, Beside, Drives1, Lives1
<1>3. Same(y, Close(y, FALSE)) /\ Same(y, Back(y)) /\ Same(y, Ended(y))
  BY <1>2, CloseIs, BackIs, EndedIs DEF Drives1, Lives1
<1>4. \A z : Same(y, z) => Same(life[l], z)
  BY DEF Same, Beside, Lives1, Drives1
<1> QED BY <1>2, <1>3, <1>4, CloseIs, BackIs, EndedIs DEF Drives1, Lives1, Right

LEMMA ParkStaysStep ==
    ASSUME IInv, NEW l \in Lives, ParkStays(l)
    PROVE  IInv'
<1> DEFINE x == life[l]
           v == run[x.run]
<1>1. x.pc = "park" /\ UNCHANGED <<runs, run, jobs, server, pause, doubled>>
  BY DEF ParkStays
<1>2. x \in LifeType /\ WorkOK(x, jobs, doubled) /\ LifeOK(x, run)
  BY Has
<1>3. x.run \in Runs
  BY <1>1, <1>2 DEF LifeOK
<1>4. v.left \in Nat /\ x.fails + 1 \in Nat
  BY <1>2, <1>3, Has DEF RunType, LifeType
<1>5. x.run \notin doubled => Open(x.run, jobs) = {}
  BY <1>1, <1>2, <1>3 DEF WorkOK, Starting
<1>6. PICK y : /\ y = [x EXCEPT !.fails = x.fails + 1, !.pc = "park"]
                  \/ y = [x EXCEPT !.seen = v.left, !.fails = 0]
               /\ Put(l, y)
  <2>1. CASE x.fails + 1 < Strikes /\ Put(l, Unread(x, "park"))
    <3>1. ~(x.fails + 1 >= Strikes)
      BY <1>4, <2>1, Consts
    <3> QED BY <2>1, <3>1 DEF Unread
  <2> QED BY <2>1 DEF ParkStays
<1>7. y \in LifeType
  <2>1. [x EXCEPT !.fails = x.fails + 1, !.pc = "park"] \in LifeType
    BY <1>2, <1>4 DEF LifeType, Places
  <2>2. [x EXCEPT !.seen = v.left, !.fails = 0] \in LifeType
    BY <1>2, <1>4 DEF LifeType
  <2> QED BY <1>6, <2>1, <2>2
<1>8. /\ y.new = x.new /\ y.run = x.run /\ y.key = x.key /\ y.told = x.told
      /\ y.pc = "park" /\ y.job = x.job
  BY <1>1, <1>2, <1>6 DEF LifeType
<1>9. Right(l, y)
  BY <1>1, <1>5, <1>7, <1>8, OnwardRight DEF Drives1, Lives1, WithJob
<1> QED BY <1>1, <1>6, <1>9, LifeMove

LEMMA ParkEndsStep ==
    ASSUME IInv, NEW l \in Lives, ParkEnds(l)
    PROVE  IInv'
<1> DEFINE x == life[l]
           v == run[x.run]
           z == [x EXCEPT !.fails = 0]
<1>1. x.pc = "park" /\ UNCHANGED <<runs, run, jobs, server, pause, doubled>>
  BY DEF ParkEnds
<1>2. x \in LifeType /\ WorkOK(x, jobs, doubled) /\ LifeOK(x, run)
  BY Has
<1>3. x.run \in Runs
  BY <1>1, <1>2 DEF LifeOK
<1>4. v.left \in Nat /\ x.fails + 1 \in Nat
  BY <1>2, <1>3, Has DEF RunType, LifeType
<1>5. x.run \notin doubled => Open(x.run, jobs) = {}
  BY <1>1, <1>2, <1>3 DEF WorkOK, Starting
<1>6. z \in LifeType /\ Beside(x, z)
  BY <1>2 DEF LifeType, Beside
<1>7. CASE Put(l, Back(z)) \/ Put(l, Close(z, FALSE))
  BY <1>1, <1>6, <1>7, BesideRight, LifeMove DEF Drives1, Lives1
<1>8. ASSUME NEW y, Put(l, y),
             \/ y = [[x EXCEPT !.fails = x.fails + 1, !.pc = "start"] EXCEPT !.parked = FALSE]
             \/ y = [z EXCEPT !.pc = "start", !.parked = FALSE, !.seen = v.left]
      PROVE  IInv'
  <2>1. y \in LifeType
    <3>1. [x EXCEPT !.fails = x.fails + 1, !.pc = "start"] \in LifeType
      BY <1>2, <1>4 DEF LifeType, Places
    <3>2. [[x EXCEPT !.fails = x.fails + 1, !.pc = "start"] EXCEPT !.parked = FALSE] \in LifeType
      BY <3>1 DEF LifeType
    <3>3. [z EXCEPT !.pc = "start", !.parked = FALSE, !.seen = v.left] \in LifeType
      BY <1>4, <1>6 DEF LifeType, Places
    <3> QED BY <1>8, <3>2, <3>3
  <2>2. /\ y.new = x.new /\ y.run = x.run /\ y.key = x.key /\ y.told = x.told
        /\ y.pc = "start" /\ y.job = x.job
    BY <1>2, <1>8 DEF LifeType
  <2>3. Right(l, y)
    BY <1>1, <1>5, <2>1, <2>2, OnwardRight DEF Drives1, Lives1, WithJob
  <2> QED BY <1>1, <1>8, <2>3, LifeMove
<1>9. CASE Put(l, [Unread(x, "start") EXCEPT !.parked = FALSE])
  <2>1. CASE x.fails + 1 >= Strikes
    <3> DEFINE e == Ended(x)
    <3>1. Right(l, e)
      BY <1>1, EndedRight
    <3>2. e.parked = FALSE /\ e \in LifeType
      BY <3>1 DEF Ended, New, Right
    <3> HIDE DEF e
    <3>3. [e EXCEPT !.parked = FALSE] = e
      BY <3>2 DEF LifeType
    <3>4. Unread(x, "start") = e
      BY <2>1 DEF Unread, e
    <3> QED BY <1>1, <1>9, <3>1, <3>3, <3>4, LifeMove
  <2>2. CASE ~(x.fails + 1 >= Strikes)
    BY <1>8, <1>9, <2>2 DEF Unread
  <2> QED BY <2>1, <2>2
<1> QED BY <1>7, <1>8, <1>9 DEF ParkEnds

LEMMA PollStep ==
    ASSUME IInv, NEW l \in Lives, Poll(l)
    PROVE  IInv'
<1> DEFINE x == life[l]
<1>1. x.pc = "poll" /\ UNCHANGED <<runs, run, jobs, server, pause, doubled>>
  BY DEF Poll
<1>2. x \in LifeType /\ WorkOK(x, jobs, doubled) /\ LifeOK(x, run)
  BY Has
<1>3. x.job # 0
  BY <1>1, <1>2 DEF WorkOK, WithJob
<1>4. CASE Put(l, Close(x, FALSE))
  BY <1>1, <1>4, CloseRight, LifeMove DEF Drives1, Lives1
<1>5. ASSUME NEW y, NEW b \in BOOLEAN, Put(l, y),
             \/ y = [x EXCEPT !.pc = "watch", !.err = TRUE]
             \/ y = [x EXCEPT !.pc = "result", !.parked = FALSE, !.strikes = 0]
             \/ y = [x EXCEPT !.pc = "watch", !.err = FALSE, !.strikes = 0, !.parked = b]
      PROVE  IInv'
  <2>1. y \in LifeType
    <3>1. [x EXCEPT !.pc = "watch", !.err = TRUE] \in LifeType
      BY <1>2 DEF LifeType, Places
    <3>2. [x EXCEPT !.pc = "result", !.parked = FALSE, !.strikes = 0] \in LifeType
      BY <1>2 DEF LifeType, Places
    <3>3. [x EXCEPT !.pc = "watch", !.err = FALSE, !.strikes = 0, !.parked = b] \in LifeType
      BY <1>2 DEF LifeType, Places
    <3> QED BY <1>5, <3>1, <3>2, <3>3
  <2>2. /\ y.new = x.new /\ y.run = x.run /\ y.key = x.key /\ y.told = x.told
        /\ y.pc \in {"watch", "result"} /\ y.job = x.job
    BY <1>2, <1>5 DEF LifeType
  <2>3. Right(l, y)
    BY <1>1, <1>3, <2>1, <2>2, OnwardRight DEF Drives1, Lives1, Starting
  <2> QED BY <1>1, <1>5, <2>3, LifeMove
<1>6. (jobs[x.job].status = "queued") \in BOOLEAN
  OBVIOUS
<1> QED BY <1>4, <1>5, <1>6 DEF Poll

LEMMA WatchStep ==
    ASSUME IInv, NEW l \in Lives, Watch(l)
    PROVE  IInv'
<1> DEFINE x == life[l]
           v == run[x.run]
           z == [x EXCEPT !.err = FALSE]
           y == [Struck(x) EXCEPT !.fails = 0, !.err = FALSE]
<1>1. x.pc = "watch" /\ UNCHANGED <<runs, run, jobs, server, pause, doubled>>
  BY DEF Watch
<1>2. x \in LifeType /\ WorkOK(x, jobs, doubled) /\ LifeOK(x, run)
  BY Has
<1>3. x.job # 0 /\ x.run \in Runs
  BY <1>1, <1>2 DEF WorkOK, WithJob, LifeOK
<1>4. z \in LifeType /\ Beside(x, z)
  BY <1>2 DEF LifeType, Beside
<1>5. Struck(x) \in LifeType /\ Beside(x, Struck(x))
  <2>1. x.strikes + 1 \in Nat /\ x.strikes \in Nat
    BY <1>2 DEF LifeType
  <2> QED BY <1>2, <2>1 DEF LifeType, Struck, Beside
<1>6. y \in LifeType /\ Beside(x, y)
  BY <1>5 DEF LifeType, Beside
<1> HIDE DEF y, z
<1>7. CASE Put(l, Back(y)) \/ Put(l, Close(y, FALSE)) \/ Put(l, Ended(z))
  BY <1>1, <1>4, <1>6, <1>7, BesideRight, LifeMove DEF Drives1, Lives1
<1>8. ASSUME NEW w, Put(l, w),
             w = [z EXCEPT !.fails = z.fails + 1, !.pc = "poll"] \/ w = [y EXCEPT !.pc = "poll"]
      PROVE  IInv'
  <2>1. w \in LifeType
    <3>1. z.fails + 1 \in Nat
      BY <1>4 DEF LifeType
    <3> QED BY <1>4, <1>6, <1>8, <3>1 DEF LifeType, Places
  <2>2. /\ w.new = x.new /\ w.run = x.run /\ w.key = x.key /\ w.told = x.told
        /\ w.pc = "poll" /\ w.job = x.job
    BY <1>4, <1>6, <1>8 DEF LifeType, Beside
  <2>3. Right(l, w)
    BY <1>1, <1>3, <2>1, <2>2, OnwardRight DEF Drives1, Lives1, Starting
  <2> QED BY <1>1, <1>8, <2>3, LifeMove
<1>9. CASE Put(l, Unread(z, "poll"))
  BY <1>7, <1>8, <1>9 DEF Unread
<1>10. CASE Folds(v) /\ Put(l, [Back(y) EXCEPT !.pc = "fold", !.job = x.job])
  <2> DEFINE c == Back(y)
             w == [c EXCEPT !.pc = "fold", !.job = x.job]
  <2>1. Right(l, c)
    BY <1>1, <1>6, BesideRight DEF Drives1, Lives1
  <2> HIDE DEF c
  <2>2. c \in LifeType /\ Same(x, c) /\ LifeOK(c, run)
    BY <2>1 DEF Right
  <2>3. c.told = x.told
    BY <1>1, <1>2, <1>6 DEF c, Back, Close, Beside, LifeType
  <2>4. w \in LifeType /\ w.pc = "fold" /\ w.job = x.job /\ w.new = x.new
        /\ w.run = x.run /\ w.key = x.key /\ w.told = x.told
    BY <1>2, <2>2, <2>3 DEF LifeType, Places, Same
  <2>5. Same(x, w)
    BY <1>1, <2>4 DEF Same, Lives1, Drives1
  <2>6. LifeOK(w, run)
    BY <1>1, <1>2, <1>3, <1>10, <2>4 DEF LifeOK, Folds
  <2>7. WorkOK(w, jobs, doubled)
    BY <1>2, <1>3, <2>4 DEF WorkOK, WithJob, Starting
  <2>8. Right(l, w)
    BY <2>4, <2>5, <2>6, <2>7 DEF Right
  <2>9. Put(l, w)
    BY <1>10 DEF c
  <2> QED BY <1>1, <2>8, <2>9, LifeMove
<1> QED BY <1>7, <1>8, <1>9, <1>10 DEF Watch, y, z

LEMMA CloseSessionStep ==
    ASSUME IInv, NEW l \in Lives, CloseSession(l)
    PROVE  IInv'
<1> DEFINE x == life[l]
           y == [x EXCEPT !.pc = "over"]
<1>1. x.pc = "closing" /\ Put(l, y) /\ UNCHANGED <<runs, run, jobs, server, pause, doubled>>
  BY DEF CloseSession
<1>2. x \in LifeType /\ WorkOK(x, jobs, doubled) /\ LifeOK(x, run)
  BY Has
<1>3. y \in LifeType
  BY <1>2 DEF LifeType, Places
<1>4. Same(x, y) /\ LifeOK(y, run)
  BY <1>1, <1>2 DEF LifeType, Same, Lives1, Drives1, LifeOK
<1>5. WorkOK(y, jobs, doubled)
  BY <1>1, <1>2 DEF LifeType, WorkOK, WithJob, Starting
<1> QED BY <1>1, <1>3, <1>4, <1>5, LifeMove DEF Right

-----------------------------------------------------------------------------
(* Steps of the others, and of the pause.                                  *)

LEMMA PauseStep ==
    ASSUME IInv, PauseOn \/ PauseOff
    PROVE  IInv'
<1>1. UNCHANGED <<life, runs, run, jobs, server, doubled>>
  BY DEF PauseOn, PauseOff
<1>2. pause \in [on : BOOLEAN, left : 0..MaxPauses]
  BY DEF IInv, TypeOK
<1>3. pause' \in [on : BOOLEAN, left : 0..MaxPauses]
  <2>1. CASE PauseOn
    BY <1>2, <2>1, Consts DEF PauseOn
  <2>2. CASE PauseOff
    BY <1>2, <2>2 DEF PauseOff
  <2> QED BY <2>1, <2>2
<1>4. WorldOK(run', jobs', doubled) /\ Evolves(run, run', jobs, jobs') /\ Calm(jobs, jobs')
  BY <1>1, Still DEF IInv
<1>5. run' \in [Runs -> RunType] /\ jobs' \in Seq(JobType) /\ server' \in [up : BOOLEAN, stops : 0..MaxStops]
  BY <1>1 DEF IInv, TypeOK
<1> QED BY <1>1, <1>3, <1>4, <1>5, NobodyMoves

LEMMA JobStepStep ==
    ASSUME IInv, NEW j, JobStep(j)
    PROVE  IInv'
<1>1. j \in DOMAIN jobs /\ UNCHANGED <<life, runs, run, server, pause, doubled>>
  BY DEF JobStep
<1>2. PICK st : /\ \/ jobs[j].status = "queued" /\ st = "running"
                   \/ jobs[j].status = "running" /\ st \in {"finishing", "error"}
                   \/ jobs[j].status = "finishing" /\ st = "done"
                /\ jobs' = [jobs EXCEPT ![j].status = st]
  BY DEF JobStep
<1>3. jobs \in Seq(JobType) /\ run \in [Runs -> RunType] /\ WorldOK(run, jobs, doubled)
      /\ server \in [up : BOOLEAN, stops : 0..MaxStops] /\ pause \in [on : BOOLEAN, left : 0..MaxPauses]
  BY DEF IInv, TypeOK
<1>4. jobs[j] \in JobType
  BY <1>1, <1>3
<1>5. [jobs[j] EXCEPT !.status = st] \in JobType
  BY <1>2, <1>4 DEF JobType, Dead
<1>6. jobs' \in Seq(JobType) /\ DOMAIN jobs' = DOMAIN jobs
  BY <1>1, <1>2, <1>3, <1>5
<1>7. \A k \in DOMAIN jobs : jobs'[k] = IF k = j THEN [jobs[j] EXCEPT !.status = st] ELSE jobs[k]
  BY <1>1, <1>2, <1>3
<1>8. \A k \in DOMAIN jobs : jobs'[k].run = jobs[k].run
  BY <1>4, <1>7 DEF JobType
<1>9. Calm(jobs, jobs')
  <2> SUFFICES ASSUME NEW r \in Runs, NEW k \in Open(r, jobs') PROVE k \in Open(r, jobs)
    BY DEF Calm
  <2>1. CASE k # j
    BY <1>6, <1>7, <2>1 DEF Open
  <2>2. CASE k = j
    BY <1>1, <1>2, <1>4, <1>6, <1>7, <2>2 DEF Open, JobType, Dead
  <2> QED BY <2>1, <2>2
<1>10. FinalOK(run, jobs')
  <2> SUFFICES ASSUME NEW k \in DOMAIN jobs, jobs'[k].status = "cancelled"
               PROVE  jobs[k].status = "cancelled"
    BY <1>3, <1>6, <1>8 DEF FinalOK, WorldOK
  <2> QED BY <1>2, <1>4, <1>7 DEF JobType
<1>11. WorldOK(run, jobs', doubled)
  BY <1>3, <1>6, <1>8, <1>9, <1>10, WorldStays
<1>12. Evolves(run, run', jobs, jobs')
  BY <1>1, <1>6, <1>8 DEF Evolves
<1> QED BY <1>1, <1>3, <1>6, <1>9, <1>11, <1>12, NobodyMoves

\* The record v that run r gets is right: it is not forgotten, not revived, and
\* the ledger still tells its one deliberation.
Succeeds(r, v) ==
    /\ v \in RunType
    /\ run[r].state # "none" => v.state # "none"
    /\ run[r].state \in Final => v.state \in Final
    /\ LedOK(r, v, jobs)
    /\ r \notin doubled => LastOK(r, v, jobs)

LEMMA RunStays ==
    ASSUME IInv, NEW r \in Runs, NEW v, Succeeds(r, v), run' = [run EXCEPT ![r] = v]
    PROVE  /\ run' \in [Runs -> RunType] /\ Evolves(run, run', jobs, jobs)
           /\ WorldOK(run', jobs, doubled)
<1>1. run \in [Runs -> RunType] /\ WorldOK(run, jobs, doubled) /\ jobs \in Seq(JobType)
  BY DEF IInv, TypeOK
<1>2. run' \in [Runs -> RunType]
  BY <1>1 DEF Succeeds
<1>3. \A s \in Runs : run'[s] = IF s = r THEN v ELSE run[s]
  BY <1>1
<1>4. Evolves(run, run', jobs, jobs)
  BY <1>3 DEF Evolves, Succeeds
<1>5. FinalOK(run', jobs)
  <2> SUFFICES ASSUME NEW k \in DOMAIN jobs, jobs[k].status = "cancelled"
               PROVE  run'[jobs[k].run].state \in Final
    BY DEF FinalOK
  <2>1. jobs[k].run \in Runs
    <3>1. jobs[k] \in JobType
      BY <1>1
    <3> QED BY <3>1 DEF JobType
  <2>2. run[jobs[k].run].state \in Final
    BY <1>1 DEF WorldOK, FinalOK
  <2> QED BY <1>4, <2>1, <2>2 DEF Evolves
<1>6. \A s \in Runs : LedOK(s, run'[s], jobs)
  BY <1>1, <1>3 DEF WorldOK, Succeeds
<1>7. \A s \in Runs \ doubled : LastOK(s, run'[s], jobs)
  BY <1>1, <1>3 DEF WorldOK, Succeeds
<1> QED BY <1>2, <1>4, <1>5, <1>6, <1>7 DEF WorldOK

\* A step of one task that changes the record of one run.
LEMMA RunMove ==
    ASSUME IInv, NEW l \in Lives, NEW y, Right(l, y), Put(l, y),
           NEW r \in Runs, NEW v, Succeeds(r, v), run' = [run EXCEPT ![r] = v],
           UNCHANGED <<runs, jobs, server, pause, doubled>>
    PROVE  IInv'
<1>1. /\ run' \in [Runs -> RunType] /\ Evolves(run, run', jobs, jobs')
      /\ WorldOK(run', jobs', doubled)
  BY RunStays
<1>2. /\ y \in LifeType /\ Same(life[l], y) /\ LifeOK(y, run) /\ WorkOK(y, jobs', doubled)
  BY DEF Right
<1>3. LifeOK(y, run')
  BY <1>1, <1>2, LifeEvolves
<1>4. Calm(jobs, jobs') /\ jobs' \in Seq(JobType)
  BY Still, Has
<1>5. life' = [life EXCEPT ![l] = y]
  BY DEF Put
<1> QED BY <1>1, <1>2, <1>3, <1>4, <1>5, OneLife

LEMMA RunOnly ==
    ASSUME IInv, NEW r \in Runs, NEW v, Succeeds(r, v), run' = [run EXCEPT ![r] = v],
           UNCHANGED <<life, runs, jobs, server, pause, doubled>>
    PROVE  IInv'
<1>1. /\ run' \in [Runs -> RunType] /\ Evolves(run, run', jobs, jobs')
      /\ WorldOK(run', jobs', doubled)
  BY RunStays
<1>2. Calm(jobs, jobs')
  BY Still
<1>3. /\ jobs' \in Seq(JobType) /\ server' \in [up : BOOLEAN, stops : 0..MaxStops]
      /\ pause' \in [on : BOOLEAN, left : 0..MaxPauses]
  BY DEF IInv, TypeOK
<1> QED BY <1>1, <1>2, <1>3, NobodyMoves

\* The state, the open step or the calls left change, the ledger does not.
LEMMA SameLedger ==
    ASSUME IInv, NEW r \in Runs, NEW v \in RunType, run[r].state \notin Final,
           v.state # "none", v.led = run[r].led \/ v = Closed("cancelled") \/ v = Closed("done")
    PROVE  Succeeds(r, v)
<1>1. run[r] \in RunType /\ LedOK(r, run[r], jobs) /\ (r \notin doubled => LastOK(r, run[r], jobs))
  BY HasRun
<1>2. CASE v.led = run[r].led
  BY <1>1, <1>2 DEF Succeeds, LedOK, LastOK
<1>3. CASE v = Closed("cancelled") \/ v = Closed("done")
  <2>1. v.led = <<>> /\ v.state \in Final
    BY <1>3 DEF Closed, Final
  <2>2. LedOK(r, v, jobs)
    BY <2>1 DEF LedOK
  <2> QED BY <1>1, <2>1, <2>2 DEF Succeeds, LastOK
<1> QED BY <1>2, <1>3

LEMMA ClosedType ==
    ASSUME NEW st \in {"done", "cancelled"} PROVE Closed(st) \in RunType /\ Closed(st).state # "none"
BY DEF Closed, RunType, Final

LEMMA UserStopsStep ==
    ASSUME IInv, NEW r \in Runs, UserStops(r)
    PROVE  IInv'
<1>1. /\ run[r].state \notin Final /\ run' = [run EXCEPT ![r] = Closed("cancelled")]
      /\ UNCHANGED <<life, runs, jobs, server, pause, doubled>>
  BY DEF UserStops, Final
<1> QED BY <1>1, ClosedType, SameLedger, RunOnly

LEMMA UserPicksStep ==
    ASSUME IInv, NEW r \in Runs, UserPicks(r)
    PROVE  IInv'
<1> DEFINE v == [run[r] EXCEPT !.state = "running", !.step = @ + 1]
<1>1. run[r] \in RunType /\ run \in [Runs -> RunType]
  BY HasRun
<1>2. run' = [run EXCEPT ![r] = v] /\ UNCHANGED <<life, runs, jobs, server, pause, doubled>>
  BY <1>1 DEF UserPicks
<1>3. v \in RunType /\ v.state = "running" /\ v.led = run[r].led
  <2>1. run[r].step + 1 \in Nat
    BY <1>1 DEF RunType
  <2> QED BY <1>1, <2>1 DEF RunType
<1>4. run[r].state \notin Final
  BY DEF UserPicks, Final
<1> QED BY <1>2, <1>3, <1>4, SameLedger, RunOnly

LEMMA PortalInterruptsStep ==
    ASSUME IInv, NEW r \in Runs, PortalInterrupts(r)
    PROVE  IInv'
<1> DEFINE v == [run[r] EXCEPT !.state = "interrupted"]
<1>1. run[r] \in RunType /\ run \in [Runs -> RunType]
  BY HasRun
<1>2. run' = [run EXCEPT ![r] = v] /\ UNCHANGED <<life, runs, jobs, server, pause, doubled>>
  BY <1>1 DEF PortalInterrupts
<1>3. v \in RunType /\ v.state = "interrupted" /\ v.led = run[r].led
  BY <1>1 DEF RunType
<1>4. run[r].state \notin Final
  BY DEF PortalInterrupts, Final
<1> QED BY <1>2, <1>3, <1>4, SameLedger, RunOnly

LEMMA ToolCallStep ==
    ASSUME IInv, NEW l \in Lives, ToolCall(l)
    PROVE  IInv'
<1> DEFINE r == life[l].run
           v == [run[r] EXCEPT !.left = @ - 1]
<1>1. r \in Runs
  BY Has DEF ToolCall, LifeOK
<1>2. run[r] \in RunType /\ run \in [Runs -> RunType]
  BY <1>1, Has
<1>3. run' = [run EXCEPT ![r] = v] /\ UNCHANGED <<life, runs, jobs, server, pause, doubled>>
  BY <1>1, <1>2 DEF ToolCall
<1>4. run[r].state = "running" /\ run[r].left # 0
  BY DEF ToolCall, Limited
<1>5. v \in RunType /\ v.state = "running" /\ v.led = run[r].led
  BY <1>2, <1>4 DEF RunType
<1> QED BY <1>1, <1>3, <1>4, <1>5, SameLedger, RunOnly DEF Final

-----------------------------------------------------------------------------
(* The beginning of a task and its drive.                                  *)

LEMMA NewIs ==
    /\ New \in LifeType /\ New.pc = "new" /\ New.new = FALSE /\ New.run = None /\ New.key = None
    /\ New.told = 0 /\ New.job = 0
BY DEF New, LifeType, Places

LEMMA AskStep ==
    ASSUME IInv, NEW l \in Lives, Ask(l)
    PROVE  IInv'
<1> DEFINE y == [New EXCEPT !.pc = "begin", !.new = TRUE, !.key = "pending"]
<1>1. life' = [life EXCEPT ![l] = y] /\ UNCHANGED <<runs, run, jobs, server, pause, doubled>>
      /\ Door(None)
  BY DEF Ask, Put
<1>2. y \in LifeType
  BY NewIs DEF LifeType, Places
<1>3. y.pc = "begin" /\ y.new = TRUE /\ y.key = "pending" /\ y.run = None /\ y.told = 0 /\ y.job = 0
  BY NewIs DEF LifeType
<1>4. LifeOK(y, run) /\ WorkOK(y, jobs, doubled)
  BY <1>3, Consts DEF LifeOK, WorkOK, WithJob, Starting
<1> HIDE DEF y
<1>5. \A k \in Lives : life'[k] = IF k = l THEN y ELSE life[k]
  BY <1>1 DEF IInv, TypeOK
<1>6. TypeOK'
  BY <1>1, <1>2 DEF IInv, TypeOK
<1>7. ASSUME NEW k \in Lives
      PROVE  LifeOK(life'[k], run') /\ WorkOK(life'[k], jobs', doubled') /\ HasPlace(k, life'[k], runs')
  <2>1. LifeOK(life[k], run) /\ WorkOK(life[k], jobs, doubled) /\ HasPlace(k, life[k], runs)
    BY DEF IInv
  <2>2. HasPlace(l, y, runs)
    BY <1>3 DEF HasPlace
  <2> QED BY <1>1, <1>4, <1>5, <2>1, <2>2
<1>8. DrivenOnce'
  <2> SUFFICES ASSUME NEW k \in Lives, NEW m \in Lives, Drives(k)', Drives(m)',
                      life'[k].run = life'[m].run, life'[k].run \in Runs \ doubled
               PROVE  k = m
    BY <1>1 DEF DrivenOnce
  <2>1. k # l /\ m # l
    BY <1>3, <1>5, Consts
  <2> QED BY <1>5, <2>1 DEF IInv, DrivenOnce, Drives, Alive
<1>9. \A k \in Lives \ {l} : Drives(k)' => Drives(k)
  BY <1>5 DEF Drives, Alive
<1>10. CapIsKept'
  BY <1>1, <1>9, DoorKeepsCap
<1>11. WorldOK(run', jobs', doubled')
  BY <1>1 DEF IInv
<1> QED BY <1>6, <1>7, <1>8, <1>10, <1>11 DEF IInv

LEMMA ContinueStep ==
    ASSUME IInv, NEW l \in Lives, NEW r \in Runs, Continue(l, r)
    PROVE  IInv'
<1> DEFINE y == [New EXCEPT !.pc = "look", !.run = r, !.key = r]
<1>1. /\ life' = [life EXCEPT ![l] = y] /\ runs' = [runs EXCEPT ![r] = l]
      /\ UNCHANGED <<run, jobs, server, pause, doubled>>
      /\ run[r].state # "none" /\ ~Taken(r) /\ life[l].pc = "new"
  BY DEF Continue, Put, Fresh
<1>2. y \in LifeType
  BY NewIs DEF LifeType, Places
<1>3. y.pc = "look" /\ y.new = FALSE /\ y.key = r /\ y.run = r /\ y.told = 0 /\ y.job = 0
  BY NewIs DEF LifeType
<1>4. LifeOK(y, run) /\ WorkOK(y, jobs, doubled)
  BY <1>1, <1>3 DEF LifeOK, WorkOK, WithJob, Starting
<1> HIDE DEF y
<1>5. runs \in [Runs -> Lives \cup {None}]
  BY DEF IInv, TypeOK
<1>6. runs' \in [Runs -> Lives \cup {None}] /\ runs'[r] = l
  BY <1>1, <1>5
<1>7. HasPlace(l, y, runs')
  BY <1>3, <1>6 DEF HasPlace
<1>8. ASSUME NEW k \in Lives \ {l} PROVE HasPlace(k, life[k], runs')
  <2>1. HasPlace(k, life[k], runs)
    BY DEF IInv
  <2>2. Lives1(life[k]) => runs[r] # k
    BY <1>1 DEF Taken, Alive, Lives1
  <2>3. \A s \in Runs : runs'[s] = IF s = r THEN l ELSE runs[s]
    BY <1>1, <1>5
  <2> QED BY <2>1, <2>2, <2>3 DEF HasPlace
<1>9. ~Drives1(y)
  BY <1>3 DEF Drives1
<1> QED BY <1>1, <1>2, <1>4, <1>6, <1>7, <1>8, <1>9, PlaceMove

LEMMA LookStep ==
    ASSUME IInv, NEW l \in Lives, Look(l)
    PROVE  IInv'
<1> DEFINE x == life[l]
           y == [x EXCEPT !.pc = "reopen"]
<1>1. x.pc = "look" /\ UNCHANGED <<runs, run, jobs, server, pause>>
      /\ (Put(l, Ended(x)) \/ (Door(l) /\ Put(l, y)))
      /\ doubled' = IF life'[l].pc = "reopen" /\ \E k \in Lives \ {l} :
                            Drives(k) /\ life[k].run = x.run
                      THEN doubled \cup {x.run} ELSE doubled
  BY DEF Look, TurnedAway
<1>2. x \in LifeType /\ LifeOK(x, run) /\ WorkOK(x, jobs, doubled) /\ HasPlace(l, x, runs)
  BY Has
<1>3. CASE Put(l, Ended(x))
  <2>1. life'[l] = Ended(x)
    BY <1>3 DEF Put, IInv, TypeOK
  <2>2. life'[l].pc = "closing"
    BY <2>1 DEF Ended, New
  <2> QED BY <1>1, <1>3, <2>2, EndedRight, LifeMove
<1>4. CASE Door(l) /\ Put(l, y)
  <2>1. y \in LifeType
    BY <1>2 DEF LifeType, Places
  <2>2. y.pc = "reopen" /\ y.new = x.new /\ y.run = x.run /\ y.key = x.key /\ y.told = x.told /\ y.job = x.job
    BY <1>2 DEF LifeType
  <2> HIDE DEF y
  <2>3. \A k \in Lives : life'[k] = IF k = l THEN y ELSE life[k]
    BY <1>4 DEF Put, IInv, TypeOK
  <2>4. x.run \in Runs
    BY <1>1, <1>2 DEF LifeOK
  <2>5. /\ doubled \subseteq doubled' /\ doubled' \subseteq Runs
        /\ (\E k \in Lives \ {l} : Drives(k) /\ life[k].run = x.run) => x.run \in doubled'
    BY <1>1, <2>2, <2>3, <2>4 DEF IInv, TypeOK
  <2>6. LifeOK(y, run) /\ HasPlace(l, y, runs)
    BY <1>1, <1>2, <2>2 DEF LifeOK, HasPlace, Lives1
  <2>7. WorkOK(y, jobs, doubled)
    BY <1>1, <1>2, <2>2 DEF WorkOK, WithJob, Starting
  <2>8. ASSUME NEW k \in Lives
        PROVE  /\ LifeOK(life'[k], run') /\ WorkOK(life'[k], jobs', doubled')
               /\ HasPlace(k, life'[k], runs')
    <3>1. LifeOK(life'[k], run) /\ WorkOK(life'[k], jobs, doubled) /\ HasPlace(k, life'[k], runs)
      BY <2>3, <2>6, <2>7 DEF IInv
    <3>2. WorkOK(life'[k], jobs, doubled')
      BY <2>5, <3>1, Still, WorkEvolves
    <3> QED BY <1>1, <3>1, <3>2
  <2>9. TypeOK'
    BY <1>1, <1>4, <2>1, <2>5 DEF Put, IInv, TypeOK
  <2>10. WorldOK(run', jobs', doubled')
    BY <1>1, <2>5 DEF IInv, WorldOK
  <2>11. \A k \in Lives \ {l} : Drives(k)' => Drives(k)
    BY <2>3 DEF Drives, Alive
  <2>12. CapIsKept'
    BY <1>4, <2>11, DoorKeepsCap
  <2>13. DrivenOnce'
    <3> SUFFICES ASSUME NEW k \in Lives, NEW m \in Lives, Drives(k)', Drives(m)',
                        life'[k].run = life'[m].run, life'[k].run \in Runs \ doubled'
                 PROVE  k = m
      BY DEF DrivenOnce
    <3>1. CASE k # l /\ m # l
      BY <2>3, <2>5, <2>11, <3>1 DEF IInv, DrivenOnce
    <3>2. CASE k = l /\ m # l
      BY <2>2, <2>3, <2>5, <2>11, <3>2
    <3>3. CASE k # l /\ m = l
      BY <2>2, <2>3, <2>5, <2>11, <3>3
    <3> QED BY <3>1, <3>2, <3>3
  <2> QED BY <2>8, <2>9, <2>10, <2>12, <2>13 DEF IInv
<1> QED BY <1>1, <1>3, <1>4

LEMMA ReopenStep ==
    ASSUME IInv, NEW l \in Lives, Reopen(l)
    PROVE  IInv'
<1> DEFINE x == life[l]
           v == [run[x.run] EXCEPT !.state = "running"]
<1>1. x.pc = "reopen" /\ UNCHANGED <<runs, jobs, server, pause, doubled>>
  BY DEF Reopen
<1>2. x \in LifeType /\ LifeOK(x, run) /\ WorkOK(x, jobs, doubled)
  BY Has
<1>3. x.run \in Runs
  BY <1>1, <1>2 DEF LifeOK
<1>4. run[x.run] \in RunType /\ jobs \in Seq(JobType)
  BY <1>3, HasRun
<1>5. CASE run' = run /\ Put(l, Ended(x))
  BY <1>1, <1>5, EndedRight, LifeMove
<1>6. CASE /\ run[x.run].state \in {"running", "interrupted"} /\ run' = [run EXCEPT ![x.run] = v]
           /\ Put(l, Turn(x, v)) \/ Put(l, Ended(x))
  <2>1. v \in RunType /\ v.state = "running" /\ v.led = run[x.run].led
    BY <1>4 DEF RunType
  <2>2. Succeeds(x.run, v)
    BY <1>3, <1>6, <2>1, SameLedger DEF Final
  <2>3. LedOK(x.run, v, jobs) /\ (x.run \notin doubled => LastOK(x.run, v, jobs))
    BY <2>2 DEF Succeeds
  <2>4. Right(l, Turn(x, v))
    BY <1>1, <1>2, <1>3, <1>4, <2>1, <2>3, TurnIs DEF Right, Drives1, Lives1
  <2>5. Right(l, Ended(x))
    BY <1>1, EndedRight
  <2> HIDE DEF v
  <2> QED BY <1>1, <1>3, <1>6, <2>2, <2>4, <2>5, RunMove
<1> QED BY <1>5, <1>6 DEF Reopen

\* The portal's new run has been nobody's.
LEMMA BeginStep ==
    ASSUME IInv, NEW l \in Lives, Begin(l)
    PROVE  IInv'
<1> DEFINE x == life[l]
<1>1. x.pc = "begin" /\ UNCHANGED <<runs, jobs, server, pause, doubled>>
  BY DEF Begin
<1>2. x \in LifeType /\ LifeOK(x, run) /\ WorkOK(x, jobs, doubled) /\ HasPlace(l, x, runs)
  BY Has
<1>3. CASE run' = run /\ Put(l, Ended(x))
  BY <1>1, <1>3, EndedRight, LifeMove
<1>4. ASSUME NEW r \in Runs, run[r].state = "none", run' = [run EXCEPT ![r].state = "running"],
             Put(l, [x EXCEPT !.pc = "begun", !.run = r])
      PROVE  IInv'
  <2> DEFINE y == [x EXCEPT !.pc = "begun", !.run = r]
             v == [run[r] EXCEPT !.state = "running"]
  <2>1. y \in LifeType
    BY <1>2 DEF LifeType, Places
  <2>2. y.pc = "begun" /\ y.run = r /\ y.new = x.new /\ y.key = x.key /\ y.told = x.told /\ y.job = x.job
    BY <1>2 DEF LifeType
  <2>3. run \in [Runs -> RunType] /\ run[r] \in RunType
    BY HasRun
  <2>4. run' = [run EXCEPT ![r] = v]
    BY <1>4, <2>3
  <2>5. v \in RunType /\ v.state = "running" /\ v.led = run[r].led
    BY <2>3 DEF RunType
  <2>6. Succeeds(r, v)
    BY <1>4, <2>5, SameLedger DEF Final
  <2>7. /\ run' \in [Runs -> RunType] /\ Evolves(run, run', jobs, jobs)
        /\ WorldOK(run', jobs, doubled)
    BY <2>4, <2>6, RunStays
  <2>8. run'[r].state = "running"
    BY <2>3, <2>4, <2>5
  <2> HIDE DEF y, v
  <2>9. \A k \in Lives : life'[k] = IF k = l THEN y ELSE life[k]
    BY <1>4 DEF Put, IInv, TypeOK, y
  <2>10. x.run = None /\ x.told = 0 /\ (x.job # 0 => x.run \in Runs)
    BY <1>1, <1>2 DEF LifeOK, WorkOK
  <2>11. x.new = TRUE
    BY <1>1, <1>2, <2>10, Consts DEF HasPlace, Lives1, LifeType
  <2>12. LifeOK(y, run') /\ HasPlace(l, y, runs)
    BY <1>1, <1>2, <2>2, <2>8, <2>10, <2>11 DEF LifeOK, HasPlace, Lives1
  <2>13. WorkOK(y, jobs, doubled)
    BY <2>2, <2>10, Consts DEF WorkOK, WithJob, Starting
  <2>14. ASSUME NEW k \in Lives
         PROVE  /\ LifeOK(life'[k], run') /\ WorkOK(life'[k], jobs', doubled')
                /\ HasPlace(k, life'[k], runs')
    <3>1. CASE k = l
      BY <1>1, <2>9, <2>12, <2>13, <3>1
    <3>2. CASE k # l
      <4>1. LifeOK(life[k], run) /\ WorkOK(life[k], jobs, doubled) /\ HasPlace(k, life[k], runs)
        BY DEF IInv
      <4>2. LifeOK(life[k], run')
        BY <2>7, <4>1, LifeEvolves
      <4> QED BY <1>1, <2>9, <3>2, <4>1, <4>2
    <3> QED BY <3>1, <3>2
  <2>15. \A k \in Lives \ {l} : life[k].run # r
    <3> SUFFICES ASSUME NEW k \in Lives, life[k].run = r PROVE FALSE
      OBVIOUS
    <3>1. LifeOK(life[k], run)
      BY DEF IInv
    <3> QED BY <1>4, <3>1 DEF LifeOK
  <2>16. \A k \in Lives : Drives(k)' => Drives(k)
    BY <1>1, <2>9 DEF Drives, Alive
  <2>17. DrivenOnce'
    <3> SUFFICES ASSUME NEW k \in Lives, NEW m \in Lives, Drives(k)', Drives(m)',
                        life'[k].run = life'[m].run, life'[k].run \in Runs \ doubled
                 PROVE  k = m
      BY <1>1 DEF DrivenOnce
    <3>1. CASE k # l /\ m # l
      BY <2>9, <2>16, <3>1 DEF IInv, DrivenOnce
    <3>2. CASE k = l \/ m = l
      BY <2>2, <2>9, <2>15, <3>2
    <3> QED BY <3>1, <3>2
  <2>18. CapIsKept'
    BY <2>16, FewerDrive DEF IInv
  <2>19. TypeOK'
    BY <1>1, <1>4, <2>1, <2>7 DEF IInv, TypeOK, Put, y
  <2>20. WorldOK(run', jobs', doubled')
    BY <1>1, <2>7
  <2> QED BY <2>14, <2>17, <2>18, <2>19, <2>20 DEF IInv
<1> QED BY <1>3, <1>4 DEF Begin

LEMMA BegunStep ==
    ASSUME IInv, NEW l \in Lives, Begun(l)
    PROVE  IInv'
<1> DEFINE x == life[l]
           r == x.run
           takes == Rekeys(l, r)
           key == IF takes THEN r ELSE x.key
           z == [x EXCEPT !.key = key]
           y == Turn(z, run[r])
<1>1. x.pc = "begun" /\ UNCHANGED <<run, jobs, server, pause, doubled>>
  BY DEF Begun
<1>2. x \in LifeType /\ LifeOK(x, run) /\ WorkOK(x, jobs, doubled) /\ HasPlace(l, x, runs)
  BY Has
<1>3. r \in Runs /\ run[r].state # "none"
  BY <1>1, <1>2 DEF LifeOK
<1>4. CASE runs' = runs /\ Put(l, Ended(x))
  BY <1>1, <1>4, EndedRight, LifeMove
<1>5. CASE runs' = (IF takes THEN [runs EXCEPT ![r] = l] ELSE runs) /\ Put(l, y)
  <2>1. key \in Runs \cup {"pending", None}
    BY <1>2, <1>3 DEF LifeType
  <2> HIDE DEF key
  <2>2. z \in LifeType
    BY <1>2, <2>1 DEF LifeType
  <2>3. z.pc = "begun" /\ z.run = r /\ z.new = x.new /\ z.key = key /\ z.told = x.told /\ z.job = x.job
    BY <1>1, <1>2 DEF LifeType
  <2>4. LifeOK(z, run) /\ WorkOK(z, jobs, doubled) /\ Drives1(z)
    BY <1>1, <1>2, <2>3 DEF LifeOK, WorkOK, WithJob, Starting, Drives1, Lives1
  <2> HIDE DEF z
  <2>5. /\ run[r] \in RunType /\ jobs \in Seq(JobType) /\ LedOK(r, run[r], jobs)
        /\ (r \notin doubled => LastOK(r, run[r], jobs))
    BY <1>3, HasRun
  <2>6. y \in LifeType /\ Same(z, y) /\ LifeOK(y, run) /\ WorkOK(y, jobs, doubled)
    BY <1>3, <2>2, <2>3, <2>4, <2>5, TurnIs
  <2> HIDE DEF y
  <2>7. y.new = x.new /\ y.run = r /\ y.key = key
    BY <2>3, <2>6 DEF Same
  <2>8. runs \in [Runs -> Lives \cup {None}]
    BY DEF IInv, TypeOK
  <2>9. runs' \in [Runs -> Lives \cup {None}]
    BY <1>3, <1>5, <2>8
  <2>10. HasPlace(l, y, runs')
    <3>1. CASE takes
      <4>1. runs'[r] = l /\ y.key = r
        BY <1>3, <1>5, <2>7, <2>8, <3>1 DEF key
      <4> QED BY <1>3, <2>7, <4>1 DEF HasPlace
    <3>2. CASE ~takes
      <4>1. runs' = runs /\ y.key = x.key
        BY <1>5, <2>7, <3>2 DEF key
      <4> QED BY <1>1, <1>2, <2>7, <4>1 DEF HasPlace, Lives1
    <3> QED BY <3>1, <3>2
  <2>11. ASSUME NEW k \in Lives \ {l} PROVE HasPlace(k, life[k], runs')
    <3>1. HasPlace(k, life[k], runs)
      BY DEF IInv
    <3>2. takes /\ Lives1(life[k]) => runs[r] # k
      BY DEF Rekeys, Taken, Alive, Lives1
    <3>3. \A s \in Runs : runs'[s] = IF takes /\ s = r THEN l ELSE runs[s]
      BY <1>5, <2>8
    <3> QED BY <3>1, <3>2, <3>3 DEF HasPlace
  <2>12. Drives1(x)
    BY <1>1 DEF Drives1, Lives1
  <2>13. life' = [life EXCEPT ![l] = y]
    BY <1>5 DEF Put
  <2> QED BY <1>1, <2>6, <2>7, <2>9, <2>10, <2>11, <2>12, <2>13, PlaceMove
<1> QED BY <1>4, <1>5 DEF Begun

-----------------------------------------------------------------------------
(* Steps of a task that change its run.                                    *)

LEMMA ReportStep ==
    ASSUME IInv, NEW l \in Lives, Report(l)
    PROVE  IInv'
<1> DEFINE x == life[l]
           y == [x EXCEPT !.pc = "refused"]
<1>1. x.pc = "report" /\ UNCHANGED <<runs, jobs, server, pause, doubled>>
  BY DEF Report
<1>2. x \in LifeType /\ LifeOK(x, run) /\ WorkOK(x, jobs, doubled)
  BY Has
<1>3. x.run \in Runs
  BY <1>1, <1>2 DEF LifeOK
<1>4. Right(l, Ended(x))
  BY <1>1, EndedRight
<1>5. CASE run' = run /\ Put(l, Ended(x))
  BY <1>1, <1>4, <1>5, LifeMove
<1>6. CASE run[x.run].state = "running" /\ run' = [run EXCEPT ![x.run] = Closed("done")] /\ Put(l, Ended(x))
  <2>1. Succeeds(x.run, Closed("done"))
    BY <1>3, <1>6, ClosedType, SameLedger DEF Final
  <2> QED BY <1>1, <1>3, <1>4, <1>6, <2>1, RunMove
<1>7. CASE run' = run /\ Put(l, y)
  <2>1. y \in LifeType
    BY <1>2 DEF LifeType, Places
  <2>2. y.pc = "refused" /\ y.run = x.run /\ y.new = x.new /\ y.key = x.key /\ y.told = x.told /\ y.job = x.job
    BY <1>2 DEF LifeType
  <2>3. Right(l, y)
    BY <1>1, <2>1, <2>2, OnwardRight DEF Drives1, Lives1, WithJob, Starting
  <2> QED BY <1>1, <1>7, <2>3, LifeMove
<1> QED BY <1>5, <1>6, <1>7 DEF Report

\* An envelope is taken: the step is closed or waits for the user.
LEMMA ClosesIs ==
    ASSUME IInv, NEW r \in Runs, NEW i \in Nat, NEW asks \in BOOLEAN, Closes(r, i, asks)
    PROVE  \E v : Succeeds(r, v) /\ run' = [run EXCEPT ![r] = v]
<1>1. run \in [Runs -> RunType] /\ run[r] \in RunType
  BY HasRun
<1>2. run[r].state \notin Final /\ run[r].state # "none"
  BY DEF Closes, Final
<1>3. CASE asks
  <2> DEFINE v == [run[r] EXCEPT !.state = "waiting"]
  <2>1. v \in RunType /\ v.state # "none" /\ v.led = run[r].led
    BY <1>1 DEF RunType
  <2>2. run' = [run EXCEPT ![r] = v]
    BY <1>1, <1>3 DEF Closes
  <2> QED BY <1>2, <2>1, <2>2, SameLedger
<1>4. CASE ~asks
  <2> DEFINE v == [run[r] EXCEPT !.step = i + 1]
  <2>1. v \in RunType /\ v.state # "none" /\ v.led = run[r].led
    <3>1. i + 1 \in Nat
      OBVIOUS
    <3> QED BY <1>1, <1>2, <3>1 DEF RunType
  <2>2. run' = [run EXCEPT ![r] = v]
    BY <1>1, <1>4 DEF Closes
  <2> QED BY <1>2, <2>1, <2>2, SameLedger
<1> QED BY <1>3, <1>4

LEMMA CloseStepStep ==
    ASSUME IInv, NEW l \in Lives, CloseStep(l)
    PROVE  IInv'
<1> DEFINE x == life[l]
           y == [x EXCEPT !.pc = "read", !.asks = FALSE]
           z == [x EXCEPT !.pc = "notclosed", !.asks = FALSE]
<1>1. x.pc = "close" /\ UNCHANGED <<runs, jobs, server, pause, doubled>>
  BY DEF CloseStep
<1>2. x \in LifeType /\ LifeOK(x, run) /\ WorkOK(x, jobs, doubled)
  BY Has
<1>3. x.run \in Runs /\ x.at \in Nat /\ x.asks \in BOOLEAN
  BY <1>1, <1>2 DEF LifeOK, LifeType
<1>4. Right(l, Ended(x))
  BY <1>1, EndedRight
<1>5. y \in LifeType /\ z \in LifeType
  BY <1>2 DEF LifeType, Places
<1>6. /\ y.pc = "read" /\ y.run = x.run /\ y.new = x.new /\ y.key = x.key /\ y.told = x.told /\ y.job = x.job
      /\ z.pc = "notclosed" /\ z.run = x.run /\ z.new = x.new /\ z.key = x.key /\ z.told = x.told /\ z.job = x.job
  BY <1>2 DEF LifeType
<1> HIDE DEF y, z
<1>7. Right(l, y)
  BY <1>1, <1>5, <1>6, OnwardRight DEF Drives1, Lives1, WithJob, Starting
<1>8. Right(l, z)
  BY <1>1, <1>5, <1>6, OnwardRight DEF Drives1, Lives1, WithJob, Starting
<1>9. CASE Closes(x.run, x.at, x.asks) /\ (Put(l, y) \/ Put(l, Ended(x)))
  <2>1. PICK v : Succeeds(x.run, v) /\ run' = [run EXCEPT ![x.run] = v]
    BY <1>3, <1>9, ClosesIs
  <2> QED BY <1>1, <1>3, <1>4, <1>7, <1>9, <2>1, RunMove
<1>10. CASE run' = run /\ (Put(l, Ended(x)) \/ Put(l, z))
  BY <1>1, <1>4, <1>8, <1>10, LifeMove
<1> QED BY <1>9, <1>10 DEF CloseStep, y, z

LEMMA CloseByLimitStep ==
    ASSUME IInv, NEW l \in Lives, CloseByLimit(l)
    PROVE  IInv'
<1> DEFINE x == life[l]
           pc2 == IF MoreOpen(x.run, x.at) THEN x.pc ELSE "limited"
           y == [x EXCEPT !.at = @ + 1, !.pc = pc2]
           z == [x EXCEPT !.pc = "refused"]
<1>1. x.pc = "limit" /\ UNCHANGED <<runs, jobs, server, pause, doubled>>
  BY DEF CloseByLimit
<1>2. x \in LifeType /\ LifeOK(x, run) /\ WorkOK(x, jobs, doubled)
  BY Has
<1>3. x.run \in Runs /\ x.at \in Nat /\ x.at + 1 \in Nat
  BY <1>1, <1>2 DEF LifeOK, LifeType
<1>4. Right(l, Ended(x))
  BY <1>1, EndedRight
<1>5. pc2 \in {"limit", "limited"}
  BY <1>1
<1>6. [x EXCEPT !.at = @ + 1, !.pc = IF MoreOpen(x.run, x.at) THEN @ ELSE "limited"] = y
  BY <1>2 DEF LifeType
<1> HIDE DEF pc2
<1>7. y \in LifeType /\ z \in LifeType
  BY <1>2, <1>3, <1>5 DEF LifeType, Places
<1>8. /\ y.pc = pc2 /\ y.run = x.run /\ y.new = x.new /\ y.key = x.key /\ y.told = x.told /\ y.job = x.job
      /\ z.pc = "refused" /\ z.run = x.run /\ z.new = x.new /\ z.key = x.key /\ z.told = x.told /\ z.job = x.job
  BY <1>2 DEF LifeType
<1> HIDE DEF y, z
<1>9. Right(l, y)
  BY <1>1, <1>5, <1>7, <1>8, OnwardRight DEF Drives1, Lives1, WithJob, Starting
<1>10. Right(l, z)
  BY <1>1, <1>7, <1>8, OnwardRight DEF Drives1, Lives1, WithJob, Starting
<1>11. CASE Closes(x.run, x.at, FALSE) /\ (Put(l, y) \/ Put(l, Ended(x)))
  <2>1. PICK v : Succeeds(x.run, v) /\ run' = [run EXCEPT ![x.run] = v]
    BY <1>3, <1>11, ClosesIs
  <2> QED BY <1>1, <1>3, <1>4, <1>9, <1>11, <2>1, RunMove
<1>12. CASE run' = run /\ (Put(l, Ended(x)) \/ Put(l, z))
  BY <1>1, <1>4, <1>10, <1>12, LifeMove
<1> QED BY <1>6, <1>11, <1>12 DEF CloseByLimit, z

-----------------------------------------------------------------------------
(* Steps of a task with its deliberation.                                  *)

\* A call that starts nothing is written: the last start is what it was.
LEMMA SpendIs ==
    ASSUME IInv, NEW r \in Runs, run[r].state = "running", run[r].left # 0
    PROVE  LET v == [run[r] EXCEPT !.left = @ - 1, !.led = Append(@, 0)]
           IN  /\ Succeeds(r, v)
               /\ [run EXCEPT ![r].left = @ - 1, ![r].led = Append(@, 0)] = [run EXCEPT ![r] = v]
<1> DEFINE led2 == Append(run[r].led, 0)
           v == [run[r] EXCEPT !.left = @ - 1, !.led = Append(@, 0)]
<1>1. /\ run \in [Runs -> RunType] /\ run[r] \in RunType
      /\ LedOK(r, run[r], jobs) /\ (r \notin doubled => LastOK(r, run[r], jobs))
  BY HasRun
<1>2. run[r].led \in Seq(Nat) /\ led2 \in Seq(Nat) /\ run[r].left - 1 \in Nat
  BY <1>1 DEF RunType
<1>3. Prior(led2) = Prior(run[r].led)
  BY <1>2, PriorAppend
<1>4. \A n \in DOMAIN led2 : led2[n] # 0 => n \in DOMAIN run[r].led /\ led2[n] = run[r].led[n]
  BY <1>2
<1> HIDE DEF led2
<1>5. v = [run[r] EXCEPT !.left = run[r].left - 1, !.led = led2]
  BY <1>1 DEF RunType, led2
<1> HIDE DEF v
<1>6. v \in RunType /\ v.state = "running" /\ v.led = led2
  BY <1>1, <1>2, <1>5 DEF RunType
<1>7. LedOK(r, v, jobs)
  BY <1>1, <1>4, <1>6 DEF LedOK
<1>8. r \notin doubled => LastOK(r, v, jobs)
  BY <1>1, <1>3, <1>6 DEF LastOK, Final
<1>9. Succeeds(r, v)
  BY <1>6, <1>7, <1>8 DEF Succeeds, Final
<1>10. [run EXCEPT ![r].left = @ - 1, ![r].led = Append(@, 0)] = [run EXCEPT ![r] = v]
  BY <1>1 DEF v
<1> QED BY <1>9, <1>10 DEF v

LEMMA ResultStep ==
    ASSUME IInv, NEW l \in Lives, Result(l)
    PROVE  IInv'
<1> DEFINE x == life[l]
           r == x.run
           v == [run[r] EXCEPT !.left = @ - 1, !.led = Append(@, 0)]
<1>1. x.pc = "result" /\ UNCHANGED <<runs, jobs, server, pause, doubled>>
  BY DEF Result
<1>2. r \in Runs
  BY <1>1, Has DEF LifeOK
<1>3. \A asks \in BOOLEAN : Right(l, Close(x, asks))
  BY <1>1, CloseRight DEF Drives1, Lives1
<1>4. CASE run' = run /\ Put(l, Close(x, FALSE))
  BY <1>1, <1>3, <1>4, LifeMove
<1>5. ASSUME NEW asks \in BOOLEAN, run[r].state = "running", run[r].left > 0, Put(l, Close(x, asks)),
             run' = [run EXCEPT ![r].left = @ - 1, ![r].led = Append(@, 0)]
      PROVE  IInv'
  <2>1. run[r].left # 0
    BY <1>2, <1>5, HasRun DEF RunType
  <2>2. Succeeds(r, v) /\ run' = [run EXCEPT ![r] = v]
    BY <1>2, <1>5, <2>1, SpendIs
  <2> HIDE DEF v
  <2> QED BY <1>1, <1>2, <1>3, <1>5, <2>2, RunMove
<1> QED BY <1>4, <1>5 DEF Result

LEMMA FoldStep ==
    ASSUME IInv, NEW l \in Lives, Fold(l)
    PROVE  IInv'
<1> DEFINE x == life[l]
           j == x.job
<1>1. x.pc = "fold" /\ Put(l, Back(x)) /\ UNCHANGED <<runs, run, server, pause, doubled>>
  BY DEF Fold
<1>2. x \in LifeType /\ LifeOK(x, run) /\ WorkOK(x, jobs, doubled)
  BY Has
<1>3. j \in DOMAIN jobs /\ jobs[j].run = x.run /\ x.run \in Runs /\ run[x.run].state \in Final
  BY <1>1, <1>2 DEF WorkOK, WithJob, LifeOK
<1>4. Right(l, Back(x))
  BY <1>1, CloseRight DEF Drives1, Lives1
<1>5. CASE jobs' = jobs
  BY <1>1, <1>4, <1>5, LifeMove
<1>6. CASE jobs' = [jobs EXCEPT ![j].status = "cancelled"]
  <2> DEFINE c == [jobs[j] EXCEPT !.status = "cancelled"]
  <2>1. jobs \in Seq(JobType) /\ run \in [Runs -> RunType] /\ WorldOK(run, jobs, doubled)
    BY DEF IInv, TypeOK
  <2>2. jobs[j] \in JobType
    BY <1>3, <2>1
  <2>3. c \in JobType /\ c.run = jobs[j].run /\ c.status = "cancelled"
    BY <2>2 DEF JobType, Dead
  <2> HIDE DEF c
  <2>4. jobs' \in Seq(JobType) /\ DOMAIN jobs' = DOMAIN jobs
    BY <1>3, <1>6, <2>1, <2>3 DEF c
  <2>5. \A k \in DOMAIN jobs : jobs'[k] = IF k = j THEN c ELSE jobs[k]
    BY <1>3, <1>6, <2>1 DEF c
  <2>6. \A k \in DOMAIN jobs : jobs'[k].run = jobs[k].run
    BY <2>3, <2>5
  <2>7. Calm(jobs, jobs')
    BY <2>3, <2>4, <2>5 DEF Calm, Open, Dead
  <2>8. FinalOK(run, jobs')
    BY <1>3, <2>1, <2>3, <2>4, <2>5 DEF FinalOK, WorldOK
  <2>9. WorldOK(run, jobs', doubled)
    BY <2>1, <2>4, <2>6, <2>7, <2>8, WorldStays
  <2>10. Evolves(run, run', jobs, jobs')
    BY <1>1, <2>4, <2>6 DEF Evolves
  <2> DEFINE y == Back(x)
  <2>11. y \in LifeType /\ Same(x, y) /\ LifeOK(y, run) /\ life' = [life EXCEPT ![l] = y]
    BY <1>1, <1>4 DEF Right, Put
  <2>12. WorkOK(y, jobs', doubled)
    BY <1>1, <1>2, BackIs DEF Drives1, Lives1
  <2> HIDE DEF y
  <2> QED BY <1>1, <2>1, <2>4, <2>7, <2>9, <2>10, <2>11, <2>12, OneLife
<1> QED BY <1>5, <1>6 DEF Fold

\* A deliberation that the ledger does not know yet.
LEMMA QueuedIs ==
    ASSUME IInv, NEW r \in Runs, NEW js, js = Append(jobs, [status |-> "queued", run |-> r, logged |-> FALSE])
    PROVE  /\ js \in Seq(JobType) /\ Len(js) \in DOMAIN js /\ js[Len(js)].run = r /\ Len(js) \in Nat \ {0}
           /\ Evolves(run, run, jobs, js) /\ Calm(jobs, js) /\ WorldOK(run, js, doubled)
<1> DEFINE q == [status |-> "queued", run |-> r, logged |-> FALSE]
<1>1. jobs \in Seq(JobType) /\ WorldOK(run, jobs, doubled)
  BY DEF IInv, TypeOK
<1>2. q \in JobType
  BY DEF JobType
<1>3. q.logged = FALSE /\ q.status = "queued" /\ q.run = r
  OBVIOUS
<1> HIDE DEF q
<1>4. js = Append(jobs, q)
  BY DEF q
<1>5. js \in Seq(JobType) /\ Len(js) = Len(jobs) + 1 /\ Len(jobs) \in Nat
  BY <1>1, <1>2, <1>4
<1>6. DOMAIN js = 1..Len(jobs) + 1 /\ DOMAIN jobs = 1..Len(jobs)
  BY <1>1, <1>5
<1>7. (\A k \in 1..Len(jobs) : js[k] = jobs[k]) /\ js[Len(jobs) + 1] = q
  BY <1>1, <1>2, <1>4
<1>8. \A k \in DOMAIN js : k \in DOMAIN jobs \/ k = Len(jobs) + 1
  BY <1>5, <1>6
<1>9. Calm(jobs, js)
  BY <1>3, <1>6, <1>7, <1>8 DEF Calm, Open
<1>10. DOMAIN jobs \subseteq DOMAIN js /\ \A k \in DOMAIN jobs : js[k].run = jobs[k].run
  BY <1>5, <1>6, <1>7
<1>11. FinalOK(run, js)
  BY <1>1, <1>3, <1>6, <1>7, <1>8 DEF FinalOK, WorldOK
<1>12. WorldOK(run, js, doubled)
  BY <1>1, <1>9, <1>10, <1>11, WorldStays
<1>13. Evolves(run, run, jobs, js)
  BY <1>10 DEF Evolves
<1> QED BY <1>3, <1>5, <1>6, <1>7, <1>9, <1>12, <1>13

LEMMA CallStartStep ==
    ASSUME IInv, NEW l \in Lives, CallStart(l)
    PROVE  IInv'
<1> DEFINE x == life[l]
           r == x.run
           v == [run[r] EXCEPT !.left = @ - 1, !.led = Append(@, 0)]
           y == [x EXCEPT !.pc = "park", !.parked = TRUE]
           z == [x EXCEPT !.pc = "logging", !.job = Len(jobs'), !.seen = 0]
<1>1. x.pc = "call" /\ UNCHANGED <<runs, server, pause, doubled>>
  BY DEF CallStart
<1>2. x \in LifeType /\ LifeOK(x, run) /\ WorkOK(x, jobs, doubled)
  BY Has
<1>3. r \in Runs
  BY <1>1, <1>2 DEF LifeOK
<1>4. r \notin doubled => Open(r, jobs) = {}
  BY <1>1, <1>2, <1>3 DEF WorkOK, Starting
<1>5. CASE (Put(l, Back(x)) \/ Put(l, Close(x, FALSE))) /\ UNCHANGED <<run, jobs>>
  BY <1>1, <1>5, CloseRight, LifeMove DEF Drives1, Lives1
<1>6. CASE /\ run[r].state = "running" /\ ~Limited(run[r]) /\ Put(l, y) /\ UNCHANGED jobs
           /\ run' = [run EXCEPT ![r].left = @ - 1, ![r].led = Append(@, 0)]
  <2>1. Succeeds(r, v) /\ run' = [run EXCEPT ![r] = v]
    BY <1>3, <1>6, SpendIs DEF Limited
  <2> HIDE DEF v
  <2>2. y \in LifeType
    BY <1>2 DEF LifeType, Places
  <2>3. y.pc = "park" /\ y.run = x.run /\ y.new = x.new /\ y.key = x.key /\ y.told = x.told /\ y.job = x.job
    BY <1>2 DEF LifeType
  <2> HIDE DEF y
  <2>4. Right(l, y)
    BY <1>1, <1>4, <2>2, <2>3, OnwardRight DEF Drives1, Lives1, WithJob
  <2> QED BY <1>1, <1>3, <1>6, <2>1, <2>4, RunMove
<1>7. CASE /\ jobs' = Append(jobs, [status |-> "queued", run |-> r, logged |-> FALSE])
           /\ Put(l, z) /\ UNCHANGED run
  <2>1. /\ jobs' \in Seq(JobType) /\ Len(jobs') \in DOMAIN jobs' /\ jobs'[Len(jobs')].run = r
        /\ Len(jobs') \in Nat \ {0} /\ Evolves(run, run, jobs, jobs') /\ Calm(jobs, jobs')
        /\ WorldOK(run, jobs', doubled)
    BY <1>3, <1>7, QueuedIs
  <2>2. z \in LifeType
    BY <1>2, <2>1 DEF LifeType, Places
  <2>3. /\ z.pc = "logging" /\ z.run = x.run /\ z.new = x.new /\ z.key = x.key /\ z.told = x.told
        /\ z.job = Len(jobs')
    BY <1>2 DEF LifeType
  <2>4. life' = [life EXCEPT ![l] = z]
    BY <1>7 DEF Put
  <2> HIDE DEF z
  <2>5. Same(x, z) /\ LifeOK(z, run)
    BY <1>1, <1>2, <2>3 DEF Same, Lives1, Drives1, LifeOK
  <2>6. r \notin doubled => Open(r, jobs') = {}
    BY <1>3, <1>4, <2>1 DEF Calm
  <2>7. WorkOK(z, jobs', doubled)
    BY <1>3, <2>1, <2>3, <2>6 DEF WorkOK, WithJob
  <2>8. run' = run /\ run \in [Runs -> RunType]
    BY <1>7, Has
  <2> QED BY <1>1, <2>1, <2>2, <2>4, <2>5, <2>7, <2>8, OneLife
<1> QED BY <1>5, <1>6, <1>7 DEF CallStart

LEMMA OneJob ==
    ASSUME NEW js \in Seq(JobType), NEW j \in DOMAIN js, NEW c \in JobType
    PROVE  [js EXCEPT ![j] = c] \in Seq(JobType) /\ DOMAIN [js EXCEPT ![j] = c] = DOMAIN js
OBVIOUS

\* The portal writes the start of deliberation j of run r, of which none runs.
LEMMA LoggedIs ==
    ASSUME IInv, NEW r \in Runs, NEW j \in DOMAIN jobs, jobs[j].run = r, NEW rn, NEW js,
           run[r].state = "running", run[r].left # 0, r \notin doubled => Open(r, jobs) = {},
           rn = [run EXCEPT ![r].left = @ - 1, ![r].led = Append(@, j)],
           js = [jobs EXCEPT ![j].logged = TRUE]
    PROVE  /\ rn \in [Runs -> RunType] /\ js \in Seq(JobType) /\ Evolves(run, rn, jobs, js)
           /\ WorldOK(rn, js, doubled)
           /\ \A s \in Runs \ {r} : Open(s, js) \subseteq Open(s, jobs)
<1> DEFINE c == [jobs[j] EXCEPT !.logged = TRUE]
           led2 == Append(run[r].led, j)
           v == [run[r] EXCEPT !.left = run[r].left - 1, !.led = led2]
<1>1. /\ run \in [Runs -> RunType] /\ run[r] \in RunType /\ jobs \in Seq(JobType)
      /\ LedOK(r, run[r], jobs) /\ WorldOK(run, jobs, doubled)
  BY HasRun DEF IInv
<1>2. jobs[j] \in JobType /\ j \in Nat /\ j # 0
  BY <1>1
<1>3. c \in JobType /\ c.run = r /\ c.status = jobs[j].status
  BY <1>2 DEF JobType
<1>4. js = [jobs EXCEPT ![j] = c]
  BY <1>1, <1>2
<1> HIDE DEF c
<1>5. js \in Seq(JobType) /\ DOMAIN js = DOMAIN jobs
  <2>1. [jobs EXCEPT ![j] = c] \in Seq(JobType) /\ DOMAIN [jobs EXCEPT ![j] = c] = DOMAIN jobs
    <3>1. c \in JobType /\ jobs \in Seq(JobType)
      BY <1>1, <1>3
    <3> QED BY ONLY <3>1, j \in DOMAIN jobs, OneJob
  <2> QED BY ONLY <1>4, <2>1
<1>6. \A k \in DOMAIN jobs : js[k] = IF k = j THEN c ELSE jobs[k]
  BY <1>1, <1>4
<1>7. run[r].led \in Seq(Nat) /\ led2 \in Seq(Nat) /\ run[r].left - 1 \in Nat
  BY <1>1, <1>2 DEF RunType
<1>8. Prior(led2) = j
  BY <1>2, <1>7, PriorAppend
<1>9. \A n \in DOMAIN led2 : led2[n] = j \/ (n \in DOMAIN run[r].led /\ led2[n] = run[r].led[n])
  BY <1>2, <1>7
<1>10. rn = [run EXCEPT ![r] = v]
  BY <1>1
<1> HIDE DEF led2
<1>11. v \in RunType /\ v.state = "running" /\ v.led = led2
  BY <1>1, <1>7 DEF RunType
<1> HIDE DEF v
<1>12. rn \in [Runs -> RunType] /\ \A s \in Runs : rn[s] = IF s = r THEN v ELSE run[s]
  <2>1. rn \in [Runs -> RunType]
    BY <1>1, <1>10, <1>11
  <2>2. \A s \in Runs : rn[s] = IF s = r THEN v ELSE run[s]
    BY <1>1, <1>10
  <2> QED BY <2>1, <2>2
<1>13. \A k \in DOMAIN jobs : js[k].run = jobs[k].run /\ js[k].status = jobs[k].status
  BY <1>3, <1>6
<1>14. Evolves(run, rn, jobs, js)
  BY <1>5, <1>11, <1>12, <1>13 DEF Evolves, Final
<1>15. \A s \in Runs \ {r} : Open(s, js) \subseteq Open(s, jobs)
  BY <1>3, <1>5, <1>6 DEF Open
<1>16. r \notin doubled => \A k \in Open(r, js) : k = j
  <2> SUFFICES ASSUME r \notin doubled, NEW k \in Open(r, js), k # j PROVE k \in Open(r, jobs)
    OBVIOUS
  <2> QED BY <1>5, <1>6 DEF Open
<1>17. FinalOK(rn, js)
  <2> SUFFICES ASSUME NEW k \in DOMAIN jobs, jobs[k].status = "cancelled"
               PROVE  rn[jobs[k].run].state \in Final
    BY <1>5, <1>13 DEF FinalOK
  <2>1. run[jobs[k].run].state \in Final
    BY <1>1 DEF WorldOK, FinalOK
  <2>2. jobs[k].run \in Runs
    <3>1. jobs[k] \in JobType
      BY <1>1
    <3> QED BY <3>1 DEF JobType
  <2> QED BY <1>14, <2>1, <2>2 DEF Evolves
<1>18. ASSUME NEW s \in Runs PROVE LedOK(s, rn[s], js)
  <2>1. CASE s = r
    BY <1>1, <1>5, <1>9, <1>11, <1>12, <1>13, <2>1 DEF LedOK
  <2>2. CASE s # r
    BY <1>1, <1>5, <1>12, <1>13, <2>2 DEF LedOK, WorldOK
  <2> QED BY <2>1, <2>2
<1>19. ASSUME NEW s \in Runs \ doubled PROVE LastOK(s, rn[s], js)
  <2>1. CASE s = r
    <3>1. \A i, k \in Open(r, js) : i = k
      BY <1>16, <2>1
    <3>2. rn[r].led = led2
      BY <1>11, <1>12
    <3>3. \A k \in Open(r, js) : k = Prior(rn[r].led)
      BY <1>8, <1>16, <2>1, <3>2
    <3> QED BY <2>1, <3>1, <3>3 DEF LastOK
  <2>2. CASE s # r
    <3>1. LastOK(s, run[s], jobs)
      BY <1>1 DEF WorldOK
    <3>2. Open(s, js) \subseteq Open(s, jobs) /\ rn[s] = run[s]
      BY <1>12, <1>15, <2>2
    <3> QED BY <3>1, <3>2 DEF LastOK
  <2> QED BY <2>1, <2>2
<1>20. WorldOK(rn, js, doubled)
  BY <1>17, <1>18, <1>19 DEF WorldOK
<1> QED BY <1>5, <1>12, <1>14, <1>15, <1>20

LEMMA LogStartStep ==
    ASSUME IInv, NEW l \in Lives, LogStart(l)
    PROVE  IInv'
<1> DEFINE x == life[l]
           r == x.run
           y == [x EXCEPT !.pc = "poll"]
<1>1. x.pc = "logging" /\ UNCHANGED <<runs, server, pause, doubled>>
  BY DEF LogStart
<1>2. x \in LifeType /\ LifeOK(x, run) /\ WorkOK(x, jobs, doubled)
  BY Has
<1>3. r \in Runs /\ x.job # 0 /\ x.job \in DOMAIN jobs /\ jobs[x.job].run = r
  BY <1>1, <1>2 DEF LifeOK, WorkOK, WithJob
<1>4. r \notin doubled => Open(r, jobs) = {}
  BY <1>1, <1>2, <1>3 DEF WorkOK, Starting
<1>5. CASE (Put(l, Back(x)) \/ Put(l, Close(x, FALSE))) /\ UNCHANGED <<run, jobs>>
  BY <1>1, <1>5, CloseRight, LifeMove DEF Drives1, Lives1
<1>6. ASSUME run[r].state = "running", ~Limited(run[r]),
             run' = [run EXCEPT ![r].left = @ - 1, ![r].led = Append(@, x.job)],
             jobs' = [jobs EXCEPT ![x.job].logged = TRUE],
             NEW w, w = y \/ w = Close(x, FALSE), Put(l, w)
      PROVE  IInv'
  <2>1. /\ run' \in [Runs -> RunType] /\ jobs' \in Seq(JobType) /\ Evolves(run, run', jobs, jobs')
        /\ WorldOK(run', jobs', doubled)
        /\ \A s \in Runs \ {r} : Open(s, jobs') \subseteq Open(s, jobs)
    <3>1. run[r].left # 0
      BY <1>6 DEF Limited
    <3> HIDE DEF y, r
    <3> QED BY <1>3, <1>4, <1>6, <3>1, LoggedIs
  <2>2. y \in LifeType
    BY <1>2 DEF LifeType, Places
  <2>3. y.pc = "poll" /\ y.run = r /\ y.new = x.new /\ y.key = x.key /\ y.told = x.told /\ y.job = x.job
    BY <1>2 DEF LifeType
  <2> HIDE DEF y
  <2>4. w \in LifeType /\ Same(x, w) /\ LifeOK(w, run) /\ WorkOK(w, jobs', doubled)
    <3>1. CASE w = Close(x, FALSE)
      BY <1>1, <1>2, <3>1, CloseIs DEF Drives1, Lives1
    <3>2. CASE w = y
      <4>1. Same(x, y) /\ LifeOK(y, run)
        BY <1>1, <1>2, <2>3 DEF Same, Lives1, Drives1, LifeOK
      <4>2. WorkOK(y, jobs', doubled)
        BY <1>3, <2>1, <2>3 DEF WorkOK, WithJob, Starting, Evolves
      <4> QED BY <2>2, <3>2, <4>1, <4>2
    <3> QED BY <1>6, <3>1, <3>2
  <2>5. ASSUME NEW k \in Lives \ {l} PROVE WorkOK(life[k], jobs', doubled)
    <3>1. WorkOK(life[k], jobs, doubled) /\ DrivenOnce
      BY DEF IInv
    <3>2. life[k].run \in Runs \ doubled /\ life[k].pc \in Starting \cup {"prior"} => life[k].run # r
      BY <1>1, <3>1 DEF DrivenOnce, Drives, Alive, Starting
    <3> QED BY <2>1, <3>1, <3>2, WorkEvolves
  <2>6. LifeOK(w, run') /\ life' = [life EXCEPT ![l] = w]
    BY <1>6, <2>1, <2>4, LifeEvolves DEF Put
  <2> QED BY <1>1, <2>1, <2>4, <2>5, <2>6, OneLifeWork
<1> QED BY <1>5, <1>6 DEF LogStart

-----------------------------------------------------------------------------
(* The end of a task and of the process.                                   *)

LEMMA ForgetStep ==
    ASSUME IInv, NEW l \in Lives, Forget(l)
    PROVE  IInv'
<1> DEFINE x == life[l]
           y == [New EXCEPT !.pc = "gone"]
<1>1. /\ x.pc = "over" /\ life' = [life EXCEPT ![l] = y]
      /\ runs' = IF Forgets(l) THEN [runs EXCEPT ![x.key] = None] ELSE runs
      /\ UNCHANGED <<run, jobs, server, pause, doubled>>
  BY DEF Forget, Put
<1>2. y \in LifeType
  BY NewIs DEF LifeType, Places
<1>3. y.pc = "gone" /\ y.run = None /\ y.told = 0 /\ y.job = 0
  BY NewIs DEF LifeType
<1> HIDE DEF y
<1>4. LifeOK(y, run) /\ WorkOK(y, jobs, doubled) /\ ~Drives1(y) /\ HasPlace(l, y, runs')
  BY <1>3, Consts DEF LifeOK, WorkOK, WithJob, Starting, Drives1, Lives1, HasPlace
<1>5. runs \in [Runs -> Lives \cup {None}]
  BY DEF IInv, TypeOK
<1>6. runs' \in [Runs -> Lives \cup {None}]
  BY <1>1, <1>5 DEF Forgets
<1>7. ASSUME NEW k \in Lives \ {l} PROVE HasPlace(k, life[k], runs')
  <2>1. HasPlace(k, life[k], runs)
    BY DEF IInv
  <2>2. \A s \in Runs : runs'[s] = runs[s] \/ runs[s] = l
    BY <1>1, <1>5 DEF Forgets
  <2> QED BY <2>1, <2>2 DEF HasPlace
<1> QED BY <1>1, <1>2, <1>4, <1>6, <1>7, PlaceMove

LEMMA GoDownStep ==
    ASSUME IInv, GoDown
    PROVE  IInv'
<1>1. UNCHANGED <<runs, run, jobs, pause, doubled>>
  BY DEF GoDown
<1>2. ASSUME NEW k \in Lives
      PROVE  /\ life'[k] \in LifeType /\ Same(life[k], life'[k])
             /\ LifeOK(life'[k], run) /\ WorkOK(life'[k], jobs, doubled)
  <2> DEFINE x == life[k]
             y == [x EXCEPT !.pc = "over"]
  <2>1. x \in LifeType /\ LifeOK(x, run) /\ WorkOK(x, jobs, doubled)
    BY Has
  <2>2. life'[k] = IF ~Alive(k) THEN x ELSE IF x.pc = "closing" THEN y ELSE Ended(x)
    BY DEF GoDown
  <2>3. CASE life'[k] = x
    BY <2>1, <2>3 DEF Same
  <2>4. CASE Alive(k) /\ x.pc # "closing"
    BY <2>1, <2>2, <2>4, EndedIs DEF Alive
  <2>5. CASE x.pc = "closing" /\ life'[k] = y
    <3>1. y \in LifeType
      BY <2>1 DEF LifeType, Places
    <3>2. Same(x, y) /\ LifeOK(y, run)
      BY <2>1, <2>5 DEF LifeType, Same, Lives1, Drives1, LifeOK
    <3>3. WorkOK(y, jobs, doubled)
      BY <2>1, <2>5 DEF LifeType, WorkOK, WithJob, Starting
    <3> QED BY <2>5, <3>1, <3>2, <3>3
  <2> QED BY <2>2, <2>3, <2>4, <2>5
<1>3. life' \in [Lives -> LifeType]
  <2>1. life' = [k \in Lives |-> life'[k]]
    BY DEF GoDown
  <2> QED BY <1>2, <2>1
<1>4. server' \in [up : BOOLEAN, stops : 0..MaxStops]
  <2>1. server \in [up : BOOLEAN, stops : 0..MaxStops] /\ server.stops < MaxStops
        /\ server' = [up |-> FALSE, stops |-> server.stops + 1]
    BY DEF GoDown, IInv, TypeOK
  <2> QED BY <2>1, Consts
<1>5. TypeOK'
  BY <1>1, <1>3, <1>4 DEF IInv, TypeOK
<1>6. ASSUME NEW k \in Lives PROVE HasPlace(k, life'[k], runs')
  <2>1. HasPlace(k, life[k], runs)
    BY DEF IInv
  <2> QED BY <1>1, <1>2, <2>1 DEF HasPlace, Same
<1>7. \A k \in Lives : (Drives(k)' => Drives(k)) /\ life'[k].run = life[k].run
  BY <1>2 DEF Same, Drives, Alive, Drives1, Lives1
<1>8. DrivenOnce'
  BY <1>1, <1>7 DEF IInv, DrivenOnce
<1>9. CapIsKept'
  BY <1>7, FewerDrive DEF IInv
<1>10. WorldOK(run', jobs', doubled')
  BY <1>1 DEF IInv
<1> QED BY <1>1, <1>2, <1>5, <1>6, <1>8, <1>9, <1>10 DEF IInv

LEMMA BootStep ==
    ASSUME IInv, Boot
    PROVE  IInv'
<1>1. UNCHANGED <<run, doubled>> /\ runs' = [r \in Runs |-> None]
      /\ server' = [server EXCEPT !.up = TRUE] /\ pause' = [pause EXCEPT !.on = FALSE]
  BY DEF Boot
<1>2. PICK lost \in SUBSET {j \in DOMAIN jobs : jobs[j].status \in {"queued", "running", "finishing"}} :
        jobs' = [j \in DOMAIN jobs |->
                    IF j \in lost THEN [jobs[j] EXCEPT !.status = "interrupted"] ELSE jobs[j]]
  BY DEF Boot
<1>3. /\ jobs \in Seq(JobType) /\ WorldOK(run, jobs, doubled) /\ run \in [Runs -> RunType]
      /\ server \in [up : BOOLEAN, stops : 0..MaxStops] /\ pause \in [on : BOOLEAN, left : 0..MaxPauses]
  BY DEF IInv, TypeOK
<1>4. DOMAIN jobs' = DOMAIN jobs
  BY <1>2
<1>5. ASSUME NEW j \in DOMAIN jobs
      PROVE  /\ jobs'[j] \in JobType /\ jobs'[j].run = jobs[j].run /\ jobs'[j].logged = jobs[j].logged
             /\ jobs'[j].status = "interrupted" \/ jobs'[j].status = jobs[j].status
  <2>1. jobs[j] \in JobType
    BY <1>3
  <2>2. jobs'[j] = IF j \in lost THEN [jobs[j] EXCEPT !.status = "interrupted"] ELSE jobs[j]
    BY <1>2
  <2> QED BY <2>1, <2>2 DEF JobType, Dead
<1>6. jobs' \in Seq(JobType)
  <2>1. Len(jobs) \in Nat /\ DOMAIN jobs = 1..Len(jobs)
    BY <1>3
  <2>2. jobs' = [j \in 1..Len(jobs) |-> jobs'[j]]
    BY <1>2, <2>1
  <2> QED BY <1>5, <2>1, <2>2
<1>7. Calm(jobs, jobs')
  BY <1>4, <1>5 DEF Calm, Open, Dead
<1>8. FinalOK(run, jobs')
  BY <1>3, <1>4, <1>5 DEF FinalOK, WorldOK
<1>9. WorldOK(run, jobs', doubled)
  BY <1>3, <1>4, <1>5, <1>7, <1>8, WorldStays
<1>10. ASSUME NEW k \in Lives
       PROVE  /\ life'[k] \in LifeType /\ life'[k].pc \in {"new", "gone"} /\ life'[k].run = None
              /\ life'[k].told = 0 /\ life'[k].job = 0
  <2> DEFINE y == [New EXCEPT !.pc = "gone"]
  <2>1. life'[k] = New \/ life'[k] = y
    BY DEF Boot
  <2>2. y \in LifeType
    BY NewIs DEF LifeType, Places
  <2>3. y.pc = "gone" /\ y.run = None /\ y.told = 0 /\ y.job = 0
    BY NewIs DEF LifeType
  <2> QED BY <2>1, <2>2, <2>3, NewIs
<1>11. life' \in [Lives -> LifeType]
  <2>1. life' = [k \in Lives |-> life'[k]]
    BY DEF Boot
  <2> QED BY <1>10, <2>1
<1>12. TypeOK'
  BY <1>1, <1>3, <1>6, <1>11 DEF IInv, TypeOK
<1>13. ASSUME NEW k \in Lives
       PROVE  LifeOK(life'[k], run') /\ WorkOK(life'[k], jobs', doubled') /\ HasPlace(k, life'[k], runs')
  BY <1>10, Consts DEF LifeOK, WorkOK, HasPlace, Lives1, WithJob, Starting
<1>14. \A k \in Lives : ~Drives(k)'
  BY <1>10 DEF Drives, Alive
<1>15. DrivenOnce'
  BY <1>14 DEF DrivenOnce
<1>16. CapIsKept'
  BY <1>14, FewerDrive DEF IInv
<1> QED BY <1>1, <1>9, <1>12, <1>13, <1>15, <1>16 DEF IInv

-----------------------------------------------------------------------------
(* The invariant.                                                          *)

LEMMA InitIsRight == Init => IInv
<1> SUFFICES ASSUME Init PROVE IInv
  OBVIOUS
<1>1. /\ life = [l \in Lives |-> New] /\ runs = [r \in Runs |-> None] /\ jobs = <<>>
      /\ run = [r \in Runs |-> [Unborn(r) EXCEPT !.state = IF r \in Left THEN "running" ELSE @]]
      /\ server = [up |-> TRUE, stops |-> 0] /\ pause = [on |-> FALSE, left |-> MaxPauses]
      /\ doubled = {}
  BY DEF Init
<1>2. ASSUME NEW r \in Runs PROVE run[r] \in RunType /\ run[r].led = <<>>
  <2> DEFINE b == Unborn(r)
  <2>1. b \in RunType /\ b.led = <<>>
    <3>1. RunCalls[r] \in Nat /\ <<>> \in Seq(Nat)
      BY Consts
    <3> QED BY <3>1 DEF Unborn, RunType
  <2> HIDE DEF b
  <2>2. run[r] = [b EXCEPT !.state = IF r \in Left THEN "running" ELSE b.state]
    BY <1>1 DEF b
  <2> QED BY <2>1, <2>2 DEF RunType
<1>3. run \in [Runs -> RunType]
  BY <1>1, <1>2
<1>4. TypeOK
  <2>1. life \in [Lives -> LifeType]
    BY <1>1, NewIs
  <2>2. runs \in [Runs -> Lives \cup {None}]
    BY <1>1
  <2>3. /\ jobs \in Seq(JobType) /\ server \in [up : BOOLEAN, stops : 0..MaxStops]
        /\ pause \in [on : BOOLEAN, left : 0..MaxPauses] /\ doubled \subseteq Runs
    BY <1>1, Consts
  <2> QED BY <1>3, <2>1, <2>2, <2>3 DEF TypeOK
<1>5. ASSUME NEW l \in Lives
      PROVE  LifeOK(life[l], run) /\ WorkOK(life[l], jobs, doubled) /\ HasPlace(l, life[l], runs)
  BY <1>1, NewIs, Consts DEF LifeOK, WorkOK, HasPlace, Lives1, WithJob, Starting
<1>6. WorldOK(run, jobs, doubled)
  BY <1>1, <1>2 DEF WorldOK, FinalOK, LedOK, LastOK, Open
<1>7. \A l \in Lives : ~Drives(l)
  BY <1>1, NewIs DEF Drives, Alive
<1>8. CapIsKept
  <2>1. {l \in Lives : Drives(l)} = {}
    BY <1>7
  <2>2. Cardinality({}) = 0
    BY FS_EmptySet
  <2>3. Cardinality({l \in Lives : Drives(l)}) = 0
    BY ONLY <2>1, <2>2
  <2>4. 0 <= MaxRunning
    BY Consts
  <2> DEFINE n == Cardinality({l \in Lives : Drives(l)})
  <2> HIDE DEF n
  <2>5. n <= MaxRunning
    BY <2>3, <2>4 DEF n
  <2> QED BY <2>5 DEF CapIsKept, n
<1>9. DrivenOnce
  BY <1>7 DEF DrivenOnce
<1> QED BY <1>4, <1>5, <1>6, <1>8, <1>9 DEF IInv

LEMMA StutterIsRight == IInv /\ UNCHANGED vars => IInv'
<1> SUFFICES ASSUME IInv, UNCHANGED vars PROVE IInv'
  OBVIOUS
<1>1. UNCHANGED <<life, runs, run, jobs, server, pause, doubled>>
  BY DEF vars
<1>2. /\ Evolves(run, run', jobs, jobs') /\ Calm(jobs, jobs') /\ WorldOK(run', jobs', doubled)
      /\ run' \in [Runs -> RunType] /\ jobs' \in Seq(JobType)
      /\ server' \in [up : BOOLEAN, stops : 0..MaxStops]
      /\ pause' \in [on : BOOLEAN, left : 0..MaxPauses]
  BY <1>1, Still DEF IInv, TypeOK
<1> QED BY <1>1, <1>2, NobodyMoves

LEMMA DriveIsRight ==
    ASSUME IInv, NEW l \in Lives, Drive(l)
    PROVE  IInv'
<1>1. CASE Look(l) \/ Reopen(l) \/ Begin(l) \/ Begun(l)
  BY <1>1, LookStep, ReopenStep, BeginStep, BegunStep
<1>2. CASE Read(l) \/ Reconsider(l) \/ CloseStep(l) \/ CloseByLimit(l) \/ Report(l)
  BY <1>2, ReadStep, ReconsiderStep, CloseStepStep, CloseByLimitStep, ReportStep
<1>3. CASE ToolsEnd(l)
  BY <1>3, ToolsEndStep
<1>4. CASE PriorJob(l) \/ StartJob(l) \/ CallStart(l) \/ LogStart(l) \/ ParkEnds(l)
  BY <1>4, PriorJobStep, StartJobStep, CallStartStep, LogStartStep, ParkEndsStep
<1>5. CASE Poll(l) \/ Watch(l) \/ Fold(l) \/ Result(l)
  BY <1>5, PollStep, WatchStep, FoldStep, ResultStep
<1>6. CASE CloseSession(l) \/ Forget(l)
  BY <1>6, CloseSessionStep, ForgetStep
<1> QED BY <1>1, <1>2, <1>3, <1>4, <1>5, <1>6 DEF Drive

LEMMA NextIsRight == IInv /\ Next => IInv'
<1> SUFFICES ASSUME IInv, Next PROVE IInv'
  OBVIOUS
<1>1. CASE \E l \in Lives : Ask(l) \/ Drive(l) \/ ToolCall(l) \/ ParkStays(l)
  BY <1>1, AskStep, DriveIsRight, ToolCallStep, ParkStaysStep
<1>2. CASE \E l \in Lives, r \in Runs : Continue(l, r)
  BY <1>2, ContinueStep
<1>3. CASE \E r \in Runs : UserStops(r) \/ UserPicks(r) \/ PortalInterrupts(r)
  BY <1>3, UserStopsStep, UserPicksStep, PortalInterruptsStep
<1>4. CASE \E j \in 1..MaxJobs : JobStep(j)
  BY <1>4, JobStepStep
<1>5. CASE GoDown \/ Boot
  BY <1>5, GoDownStep, BootStep
<1>6. CASE PauseOn \/ PauseOff
  BY <1>6, PauseStep
<1> QED BY <1>1, <1>2, <1>3, <1>4, <1>5, <1>6 DEF Next

\* The places of the tasks, the ledgers of the runs and the deliberations fit
\* together in every state of the executor: types, IInv's parts, and so what
\* the theorems below say.
THEOREM RoutineInvariant == Spec => []IInv
<1>1. Init => IInv
  BY InitIsRight
<1>2. IInv /\ [Next]_vars => IInv'
  BY NextIsRight, StutterIsRight
<1> QED BY <1>1, <1>2, PTL DEF Spec

LEMMA OneAtMost ==
    ASSUME NEW S, \A a, b \in S : a = b
    PROVE  Cardinality(S) <= 1
<1>1. CASE S = {}
  BY <1>1, FS_EmptySet
<1>2. CASE S # {}
  <2>1. PICK a \in S : TRUE
    BY <1>2
  <2>2. S = {a}
    BY <2>1
  <2>3. Cardinality({a}) = 1
    BY FS_Singleton
  <2> QED BY <2>2, <2>3
<1> QED BY <1>1, <1>2

\* However the requests, the ends of the tasks and their callbacks interleave, a
\* run has one continuing task at most, which holds its place in _RUNS, and no
\* more runs are driven than the limit (continue, _rekey, _forget and
\* _new_work_refusal of src/routine.py).
THEOREM RunsAreDrivenOnce == Spec => []RunsAreKept
<1>1. IInv => RunsAreKept
  <2> SUFFICES ASSUME IInv PROVE RunsAreKept
    OBVIOUS
  <2>1. ASSUME NEW r \in Runs
        PROVE  Cardinality({l \in Lives : Alive(l) /\ ~life[l].new /\ life[l].run = r}) <= 1
    <3> DEFINE S == {l \in Lives : Alive(l) /\ ~life[l].new /\ life[l].run = r}
    <3>1. ASSUME NEW l \in S PROVE runs[r] = l
      <4>1. HasPlace(l, life[l], runs)
        BY DEF IInv
      <4> QED BY <4>1, Consts DEF HasPlace, Alive, Lives1
    <3>2. \A a, b \in S : a = b
      BY <3>1
    <3> QED BY <3>2, OneAtMost
  <2>2. ContinuedOnce
    BY <2>1 DEF ContinuedOnce
  <2> QED BY <2>2 DEF IInv, RunsAreKept
<1> QED BY <1>1, RoutineInvariant, PTL

\* Crashes, lost answers, pauses and continuing start no second deliberation of
\* a run while one that its ledger knows still runs, unless two tasks drove the
\* run (_prior_job, _delib_start and the gateway's ledger).
THEOREM OneDeliberationAtATime == Spec => []OneDeliberation
<1>1. IInv => OneDeliberation
  <2> SUFFICES ASSUME IInv, NEW r \in Runs \ doubled
               PROVE  Cardinality({j \in DOMAIN jobs : /\ jobs[j].run = r /\ jobs[j].logged
                                         /\ jobs[j].status \notin Dead \cup {"done"}}) <= 1
    BY DEF OneDeliberation
  <2>1. \A i, j \in Open(r, jobs) : i = j
    BY DEF IInv, WorldOK, LastOK
  <2>2. Cardinality(Open(r, jobs)) <= 1
    BY <2>1, OneAtMost
  <2> QED BY <2>2 DEF Open
<1> QED BY <1>1, RoutineInvariant, PTL

\* Only a deliberation of a run that nobody can continue is cancelled, however
\* old the view; and whichever path a drive ends by, a shutdown too, its streams
\* get the frame "done" once (_delib_fold; the finally of _drive_task).
THEOREM EndsAreToldOnce == Spec => []EndsOnce
<1>1. IInv => EndsOnce
  <2> SUFFICES ASSUME IInv PROVE EndsOnce
    OBVIOUS
  <2>1. CancelledIsFinal
    BY DEF IInv, WorldOK, FinalOK, CancelledIsFinal
  <2>2. DoneOnce
    <3> SUFFICES ASSUME NEW l \in Lives
                 PROVE  life[l].told <= 1 /\ (life[l].pc \in {"closing", "over"} => life[l].told = 1)
      BY DEF DoneOnce
    <3>1. life[l].told = IF life[l].pc \in {"closing", "over"} THEN 1 ELSE 0
      BY DEF IInv, LifeOK
    <3> QED BY <3>1
  <2> QED BY <2>1, <2>2 DEF EndsOnce
<1> QED BY <1>1, RoutineInvariant, PTL
=============================================================================

-------------------------- MODULE DelibLedgerProofs --------------------------
(***************************************************************************)
(* Proofs about DelibLedger: what the ledger, the arguments and the        *)
(* journals of the jobs promise, however many processes come and go, at    *)
(* whichever write each of them is killed.                                 *)
(*                                                                         *)
(* Every handler is a commit: a list of disks, one for each write, and the *)
(* memory of the process after the last one.  A step of process p thus     *)
(* writes the disk in ways that keep what other processes rely on (StepBy) *)
(* and leaves p dead, or with the memory of the whole handler (Own).       *)
(***************************************************************************)
EXTENDS DelibLedger, WellFoundedInduction, TLAPS

USE DEF Procs

-----------------------------------------------------------------------------
(* Induction over the natural numbers, as a fact about sets.               *)

\* A set of numbers that is not empty has a least one.
LEMMA LeastOf ==
    ASSUME NEW T \in SUBSET Nat, T # {}
    PROVE  \E n \in T : \A m \in T : n <= m
<1> DEFINE R == OpToRel(<, Nat)
<1>1. IsWellFoundedOn(R, Nat)
  BY NatLessThanWellFounded
<1> HIDE DEF R
<1>2. PICK x \in T : \A y \in T : ~ (<<y, x>> \in R)
  BY <1>1, WFMin
<1>3. \A y \in Nat : y < x => <<y, x>> \in R
  BY DEF R, OpToRel
<1>4. \A y \in T : ~ (y < x)
  BY <1>2, <1>3
<1> QED BY <1>4

\* A set with 0 and with the successor of each of its numbers is Nat.
LEMMA Induct ==
    ASSUME NEW T \in SUBSET Nat, 0 \in T, \A n \in Nat : n \in T => n + 1 \in T
    PROVE  T = Nat
<1> DEFINE U == Nat \ T
<1> SUFFICES ASSUME U # {} PROVE FALSE
  OBVIOUS
<1>1. PICK n \in U : \A m \in U : n <= m
  BY LeastOf
<1>2. n # 0 /\ n \in Nat
  BY <1>1
<1>3. n - 1 \in Nat /\ n - 1 \notin U /\ n = (n - 1) + 1
  BY <1>1, <1>2
<1>4. n - 1 \in T
  BY <1>3
<1>5. n \in T
  BY <1>3, <1>4
<1> QED BY <1>1, <1>5

-----------------------------------------------------------------------------
(* The filter of the turns.                                                *)

\* f is the function that Turns(s, k) is made of, up to n.
IsKept(f, s, k, n) ==
    f = [i \in 0..n |-> IF i = 0 THEN <<>>
                        ELSE IF s[i] <= k THEN Append(f[i - 1], s[i]) ELSE f[i - 1]]

\* There is such a function for every n.
LEMMA KeptExists ==
    ASSUME NEW s, NEW k
    PROVE  \A n \in Nat : \E f : IsKept(f, s, k, n)
<1> DEFINE T == {n \in Nat : \E f : IsKept(f, s, k, n)}
<1>1. 0 \in T
  <2> DEFINE f == [i \in 0..0 |-> <<>>]
  <2>1. IsKept(f, s, k, 0)
    BY DEF IsKept
  <2> QED BY <2>1
<1>2. ASSUME NEW n \in Nat, n \in T PROVE n + 1 \in T
  <2>1. PICK f : IsKept(f, s, k, n)
    BY <1>2
  <2> DEFINE g == [i \in 0..(n + 1) |->
                     IF i <= n THEN f[i]
                     ELSE IF s[i] <= k THEN Append(f[i - 1], s[i]) ELSE f[i - 1]]
  <2>2. \A i \in 0..n : g[i] = f[i]
    OBVIOUS
  <2>3. \A i \in 0..n : f[i] = IF i = 0 THEN <<>>
                        ELSE IF s[i] <= k THEN Append(f[i - 1], s[i]) ELSE f[i - 1]
    BY <2>1 DEF IsKept
  <2>4. \A i \in 0..(n + 1) : g[i] = IF i = 0 THEN <<>>
                        ELSE IF s[i] <= k THEN Append(g[i - 1], s[i]) ELSE g[i - 1]
    <3> TAKE i \in 0..(n + 1)
    <3>1. CASE i = 0
      BY <3>1, <2>2, <2>3
    <3>2. CASE i # 0 /\ i <= n
      <4>1. i - 1 \in 0..n /\ i \in 0..n
        BY <3>2
      <4> QED BY <3>2, <4>1, <2>2, <2>3
    <3>3. CASE i = n + 1
      <4>1. i - 1 \in 0..n /\ ~(i <= n) /\ i # 0
        BY <3>3
      <4>2. g[i] = IF s[i] <= k THEN Append(f[i - 1], s[i]) ELSE f[i - 1]
        BY <4>1
      <4> HIDE DEF g
      <4> QED BY <4>1, <4>2, <2>2
    <3> QED BY <3>1, <3>2, <3>3
  <2>5. IsKept(g, s, k, n + 1)
    <3> HIDE DEF g
    <3>1. g = [i \in 0..(n + 1) |-> g[i]]
      BY DEF g
    <3> QED BY <2>4, <3>1 DEF IsKept
  <2> QED BY <2>5
<1>3. T = Nat
  <2> HIDE DEF T
  <2>1. T \in SUBSET Nat
    BY DEF T
  <2> QED BY <1>1, <1>2, <2>1, Induct
<1> QED BY <1>3

\* What the recursive definition of Turns means.
LEMMA TurnsIs ==
    ASSUME NEW s, Len(s) \in Nat, NEW k
    PROVE  \E f : IsKept(f, s, k, Len(s)) /\ Turns(s, k) = f[Len(s)]
<1> DEFINE f == CHOOSE f : IsKept(f, s, k, Len(s))
<1>1. IsKept(f, s, k, Len(s))
  BY KeptExists
<1>2. Turns(s, k) = f[Len(s)]
  BY DEF Turns, IsKept
<1> QED BY <1>1, <1>2

\* Turns are turns.
LEMMA TurnsType ==
    ASSUME NEW S, NEW s \in Seq(S), NEW k
    PROVE  Turns(s, k) \in Seq(S)
<1>1. Len(s) \in Nat
  OBVIOUS
<1>2. PICK f : IsKept(f, s, k, Len(s)) /\ Turns(s, k) = f[Len(s)]
  BY <1>1, TurnsIs
<1>3. \A i \in 0..Len(s) : f[i] = IF i = 0 THEN <<>>
                     ELSE IF s[i] <= k THEN Append(f[i - 1], s[i]) ELSE f[i - 1]
  BY <1>2 DEF IsKept
<1> DEFINE T == {n \in Nat : n <= Len(s) => f[n] \in Seq(S)}
<1>4. 0 \in T
  <2>1. f[0] = <<>> /\ <<>> \in Seq(S)
    BY <1>1, <1>3
  <2> QED BY <2>1
<1>5. ASSUME NEW n \in Nat, n \in T PROVE n + 1 \in T
  <2> SUFFICES ASSUME n + 1 <= Len(s) PROVE f[n + 1] \in Seq(S)
    OBVIOUS
  <2>1. n + 1 \in 0..Len(s) /\ n + 1 # 0 /\ (n + 1) - 1 = n /\ n <= Len(s)
    BY <1>1
  <2>2. f[n] \in Seq(S) /\ s[n + 1] \in S
    BY <1>5, <2>1
  <2>3. f[n + 1] = IF s[n + 1] <= k THEN Append(f[n], s[n + 1]) ELSE f[n]
    BY <1>3, <2>1
  <2> QED BY <2>2, <2>3
<1>6. T = Nat
  <2> HIDE DEF T
  <2>1. T \in SUBSET Nat
    BY DEF T
  <2> QED BY <1>4, <1>5, <2>1, Induct
<1> QED BY <1>1, <1>2, <1>6

InOrder(t) == \A i \in DOMAIN t : t[i] = i

\* A transcript that is whole is cut back to the rounds 1..k.
LEMMA TurnsInOrder ==
    ASSUME NEW s \in Seq(Nat), InOrder(s), NEW k \in Nat, k <= Len(s)
    PROVE  Turns(s, k) \in Seq(Nat) /\ Len(Turns(s, k)) = k /\ InOrder(Turns(s, k))
<1>1. Len(s) \in Nat
  OBVIOUS
<1>2. PICK f : IsKept(f, s, k, Len(s)) /\ Turns(s, k) = f[Len(s)]
  BY <1>1, TurnsIs
<1>3. \A i \in 0..Len(s) : f[i] = IF i = 0 THEN <<>>
                     ELSE IF s[i] <= k THEN Append(f[i - 1], s[i]) ELSE f[i - 1]
  BY <1>2 DEF IsKept
<1> DEFINE Good(n) == /\ f[n] \in Seq(Nat) /\ InOrder(f[n])
                      /\ Len(f[n]) = IF n <= k THEN n ELSE k
<1> DEFINE T == {n \in Nat : n <= Len(s) => Good(n)}
<1>4. 0 \in T
  <2>1. f[0] = <<>>
    BY <1>1, <1>3
  <2>2. f[0] \in Seq(Nat) /\ InOrder(f[0]) /\ Len(f[0]) = 0
    BY <2>1 DEF InOrder
  <2> QED BY <2>2
<1>5. ASSUME NEW n \in Nat, n \in T PROVE n + 1 \in T
  <2> SUFFICES ASSUME n + 1 <= Len(s) PROVE Good(n + 1)
    OBVIOUS
  <2>1. n + 1 \in 0..Len(s) /\ n + 1 # 0 /\ (n + 1) - 1 = n /\ n <= Len(s)
    BY <1>1
  <2>2. Good(n) /\ s[n + 1] = n + 1
    BY <1>5, <2>1 DEF InOrder
  <2>3. f[n + 1] = IF n + 1 <= k THEN Append(f[n], n + 1) ELSE f[n]
    BY <1>3, <2>1, <2>2
  <2>4. CASE n + 1 <= k
    <3>1. f[n + 1] = Append(f[n], n + 1) /\ n <= k
      BY <2>3, <2>4
    <3>2. Len(f[n]) = n
      BY <2>2, <3>1
    <3> QED BY <2>2, <2>4, <3>1, <3>2 DEF InOrder
  <2>5. CASE ~(n + 1 <= k)
    <3>1. f[n + 1] = f[n]
      BY <2>3, <2>5
    <3>2. Len(f[n]) = k
      BY <2>2, <2>5
    <3> QED BY <2>2, <2>5, <3>1, <3>2
  <2> QED BY <2>4, <2>5
<1>6. T = Nat
  <2> HIDE DEF T
  <2>1. T \in SUBSET Nat
    BY DEF T
  <2> QED BY <1>4, <1>5, <2>1, Induct
<1>7. Good(Len(s))
  BY <1>1, <1>6
<1>8. Len(f[Len(s)]) = k
  BY <1>1, <1>7
<1> QED BY <1>2, <1>7, <1>8

-----------------------------------------------------------------------------
(* The inductive invariant: of the whole, and of each process p with its   *)
(* memory m and the disk d.                                                *)

Shown == {"queued", "running"}

Closes(p) == proc[p].up = "closing"

\* A later process may act: this one is dead or goes down.
Gives(p) == proc[p].up = "dead" \/ (overlaps /\ Closes(p))

\* A process that is off or dead has no memory; while a later one has booted,
\* an earlier one is dead or goes down; a stamp on the disk is of a process
\* that has booted.
Order ==
    /\ \A p \in Procs : proc[p].up \in {"off", "dead"} => proc[p] = Off(proc[p].up)
    /\ \A p, q \in Procs : p < q /\ proc[q].up # "off" => Gives(p)
    /\ \A p \in Procs, j \in Jobs :
          disk.led[j].w = p \/ disk.jr[j].ino = p => proc[p].up # "off"
    /\ ~asks => \A p \in Procs : proc[p].calls = <<>>

\* The mark of record j names an heir.
HasHeir(d, j) ==
    d.led[j].by # NoJob =>
        /\ d.led[j].st = "interrupted"
        /\ d.led[d.led[j].by].st # "none" /\ d.led[d.led[j].by].from = j

\* In memory no job is interrupted or marked, and only a running one has a
\* body and a journal.
Bodies(m) ==
    \A j \in Jobs :
        /\ m.jobs[j].st # "interrupted" /\ m.jobs[j].by = NoJob
        /\ j \in m.in => m.jobs[j].st = "running"
        /\ j \in m.fd => j \in m.in

\* Every copy of a record has the origin of the record.
IsCopy(c, d) == Continuable(c.prev) /\ d.led[c.j].st # "none" /\ c.prev.from = d.led[c.j].from

Copies(m, d) ==
    /\ \A j \in Jobs : m.jobs[j].st # "none" =>
          d.led[j].st # "none" /\ m.jobs[j].from = d.led[j].from
    /\ \A i \in DOMAIN m.calls : IsCopy(m.calls[i], d)

\* What the ledger shows as waiting or running the server has, and wrote.
Owns(p, m, d) ==
    ~(overlaps /\ asks) /\ m.up = "up" =>
        \A j \in Jobs : d.led[j].st \in Shown => m.jobs[j].st = d.led[j].st /\ d.led[j].w = p

\* What a process has waiting or running the ledger shows as it is there,
\* unless a later process wrote it.
Agrees(p, m, d) ==
    ~asks =>
        \A j \in Jobs : m.jobs[j].st \in Shown =>
            /\ m.up = "up" \/ ~overlaps => d.led[j].w = p
            /\ d.led[j].w = p => d.led[j].st = m.jobs[j].st

Quiet == ~overlaps /\ ~asks

\* The turns of one job on the disk: l its record, r its journal.
DiskRounds(l, r) ==
    /\ InOrder(l.turns)
    /\ r.has => r.ends <= Len(l.turns) + Len(r.turns)
    /\ ~r.has => r.turns = <<>>
    /\ l.st = "running" => InOrder(l.turns \o r.turns)
    /\ l.st = "interrupted" /\ r.has => r.ends <= Len(l.turns)
    /\ l.st = "queued" =>
          /\ r.turns = <<>> /\ (r.has => l.att /\ r.ends = Len(l.turns))
          /\ ~l.att => l.turns = <<>>

\* The turns of a job c in memory; run: does its body run, open: does it hold
\* its journal.
MemoryRounds(c, run, open, l, r) ==
    /\ InOrder(c.turns)
    /\ c.st \in Shown =>
          /\ c.att = l.att
          /\ r.has => r.ends <= c.done
          /\ ~run => Len(c.turns) = c.done /\ r.turns = <<>> /\ l.turns = c.turns
          /\ run => /\ Len(c.turns) \in {c.done, c.done + 1}
                    /\ Len(l.turns) + Len(r.turns) <= Len(c.turns)
          /\ open => r.has /\ r.ends = c.done /\ l.turns \o r.turns = c.turns

Talks(p, m, d) ==
    Quiet => \A j \in Jobs :
        /\ MemoryRounds(m.jobs[j], j \in m.in, j \in m.fd, d.led[j], d.jr[j])
        /\ j \in m.fd => d.jr[j].ino = p

\* The files of what is over are gone.
Swept(m, d) ==
    Quiet /\ m.up = "up" =>
        \A j \in Jobs : d.args[j] \/ d.jr[j].has =>
            d.led[j].st \notin Over \cup {"none"} /\ d.led[j].by = NoJob

\* What process p relies on.
Own(p, m, d) ==
    Bodies(m) /\ Copies(m, d) /\ Owns(p, m, d) /\ Agrees(p, m, d) /\ Talks(p, m, d) /\ Swept(m, d)

DiskTalk(d) == Quiet => \A j \in Jobs : DiskRounds(d.led[j], d.jr[j])

IInv ==
    /\ TypeOK /\ Order
    /\ \A j \in Jobs : HasHeir(disk, j)
    /\ DiskTalk(disk)
    /\ \A p \in Procs : Own(p, proc[p], disk)

-----------------------------------------------------------------------------
(* The steps.                                                              *)

DiskType == [led : [Jobs -> Records], args : [Jobs -> BOOLEAN], jr : [Jobs -> Journals]]

\* Record j of disk d is as process p may write it.
Written(p, j, d) ==
    /\ d.led[j].w = p /\ d.led[j].st # "none"
    /\ disk.led[j].st # "none" => d.led[j].from = disk.led[j].from
    /\ HasHeir(d, j)
    /\ ~asks =>
          /\ Closes(p) => disk.led[j].w = p /\ d.led[j].st \notin Shown
          /\ disk.led[j].by = NoJob /\ disk.led[j].st \notin Over
          /\ disk.led[j].st = "queued" /\ Restorable(j) => d.led[j].st # "interrupted"

\* The arguments of job j may go with disk d.
MayGo(p, j, d) ==
    \/ d.led[j].st \in Over \/ d.led[j].by # NoJob
    \/ disk.led[j].st \in {"none", "interrupted"} /\ proc[p].up = "off"
    \/ proc[p].jobs[j].st = "running" /\ j \notin proc[p].in

\* Process p may leave disk d.
Fits(p, d) ==
    /\ d \in DiskType
    /\ \A j \in Jobs :
          /\ d.led[j] = disk.led[j] \/ Written(p, j, d)
          /\ d.jr[j].ino \in {0, p, disk.jr[j].ino}
          /\ disk.args[j] /\ ~d.args[j] => MayGo(p, j, d)
    /\ DiskTalk(d)

Acts(p) ==
    \/ proc[p].up \in {"up", "closing"}
    \/ proc[p].up = "off" /\ \A q \in Procs : q < p => Gives(q)

\* The memory m follows that of p.
Follows(p, m) ==
    /\ m \in Memories
    /\ m.up # "off"
    /\ Closes(p) => m.up \in {"closing", "dead"}
    /\ m.up = "dead" => m = Off("dead")
    /\ ~asks => m.calls = <<>>

StepBy(p) ==
    /\ UNCHANGED world
    /\ Acts(p)
    /\ proc' \in [Procs -> Memories]
    /\ \A q \in Procs : q # p => proc'[q] = proc[q]
    /\ Follows(p, proc'[p])
    /\ Fits(p, disk')
    /\ Own(p, proc'[p], disk')

\* A process without memory relies on nothing.
LEMMA DeadOwn ==
    ASSUME NEW p \in Procs, NEW d, NEW u \in {"off", "dead"}
    PROVE  Own(p, Off(u), d)
BY DEF Own, Bodies, Copies, Owns, Agrees, Talks, Swept, MemoryRounds, InOrder, Off, NoRec, Shown

LEMMA OffType ==
    ASSUME NEW u \in {"off", "up", "closing", "dead"}
    PROVE  Off(u) \in Memories
<1>1. <<>> \in Seq(1..Rounds) /\ 0 \in 0..Rounds /\ 0 \in 0..MaxProc
  BY LedgerAssumption
<1>2. NoRec \in Records
  BY <1>1 DEF NoRec, Records, Statuses
<1> QED BY <1>2 DEF Off, Memories

\* A handler whose disks all fit, and whose memory after the last one does.
LEMMA Committed ==
    ASSUME IInv, NEW p \in Procs, NEW m, NEW d, NEW cuts,
           CommitAny(p, m, d, cuts), UNCHANGED world, Acts(p),
           Follows(p, m), Fits(p, d), \A c \in cuts : Fits(p, c), Own(p, m, d)
    PROVE  StepBy(p)
<1>1. proc \in [Procs -> Memories]
  BY DEF IInv, TypeOK
<1>2. CASE disk' = d /\ proc' = [proc EXCEPT ![p] = m]
  <2>1. proc'[p] = m /\ \A q \in Procs : q # p => proc'[q] = proc[q]
    BY <1>1, <1>2
  <2>2. proc' \in [Procs -> Memories]
    BY <1>1, <1>2 DEF Follows
  <2> QED BY <1>2, <2>1, <2>2 DEF StepBy
<1>3. CASE disk' \in cuts /\ proc' = [proc EXCEPT ![p] = Off("dead")]
  <2>1. proc'[p] = Off("dead") /\ \A q \in Procs : q # p => proc'[q] = proc[q]
    BY <1>1, <1>3
  <2>2. proc' \in [Procs -> Memories]
    BY <1>1, <1>3, OffType
  <2>3. Own(p, proc'[p], disk')
    BY <2>1, DeadOwn
  <2>4. Follows(p, Off("dead"))
    BY OffType DEF Follows, Off
  <2>5. Fits(p, disk')
    BY <1>3
  <2> QED BY <2>1, <2>2, <2>3, <2>4, <2>5 DEF StepBy
<1> QED BY <1>2, <1>3 DEF CommitAny

\* The disks of a handler as a list.
LEMMA CommittedOne ==
    ASSUME NEW p, NEW m, NEW a, Commit(p, m, <<a>>)
    PROVE  CommitAny(p, m, a, {})
BY DEF Commit

LEMMA CommittedTwo ==
    ASSUME NEW p, NEW m, NEW a, NEW b, Commit(p, m, <<a, b>>)
    PROVE  CommitAny(p, m, b, {a})
<1> DEFINE ds == <<a, b>>
<1>1. {ds[i] : i \in 1..(Len(ds) - 1)} = {a}
  OBVIOUS
<1> QED BY <1>1 DEF Commit

LEMMA CommittedThree ==
    ASSUME NEW p, NEW m, NEW a, NEW b, NEW c, Commit(p, m, <<a, b, c>>)
    PROVE  CommitAny(p, m, c, {a, b})
<1> DEFINE ds == <<a, b, c>>
<1>1. {ds[i] : i \in 1..(Len(ds) - 1)} = {a, b}
  OBVIOUS
<1> QED BY <1>1 DEF Commit

LEMMA CommittedSix ==
    ASSUME NEW p, NEW m, NEW a, NEW b, NEW c, NEW d, NEW e, NEW f,
           Commit(p, m, <<a, b, c, d, e, f>>)
    PROVE  CommitAny(p, m, f, {a, b, c, d, e})
<1> DEFINE ds == <<a, b, c, d, e, f>>
<1>1. {ds[i] : i \in 1..(Len(ds) - 1)} = {a, b, c, d, e}
  OBVIOUS
<1> QED BY <1>1 DEF Commit

\* Where process p acts the others are down, or go down, or overlap.
LEMMA OthersRest ==
    ASSUME IInv, NEW p \in Procs, Acts(p), NEW q \in Procs, q # p
    PROVE  /\ ~overlaps => proc[q].up \in {"off", "dead"}
           /\ proc[q].up = "up" => Closes(p) /\ overlaps
<1>1. proc[p].up \in {"off", "up", "closing", "dead"} /\ proc[q].up \in {"off", "up", "closing", "dead"}
  BY DEF IInv, TypeOK, Memories
<1>2. Order
  BY DEF IInv
<1>3. MaxProc \in Nat
  BY LedgerAssumption
<1>4. CASE q < p
  <2>1. Gives(q)
    BY <1>2, <1>4 DEF Order, Acts
  <2> QED BY <2>1 DEF Gives, Closes
<1>5. CASE p < q
  <2>1. proc[q].up # "off" => Gives(p)
    BY <1>2, <1>5 DEF Order
  <2> QED BY <1>1, <2>1 DEF Gives, Closes, Acts
<1>6. q < p \/ p < q
  BY <1>3
<1> QED BY <1>4, <1>5, <1>6

\* The other processes rely on what they relied on.
LEMMA OthersKept ==
    ASSUME IInv, NEW p \in Procs, StepBy(p), NEW q \in Procs, q # p
    PROVE  Own(q, proc[q], disk')
<1> DEFINE m == proc[q]
<1>1. Own(q, m, disk) /\ Order /\ m \in Memories /\ disk \in DiskType
  BY DEF IInv, TypeOK, DiskType
<1>2. Acts(p) /\ disk' \in DiskType
      /\ \A j \in Jobs : disk'.led[j] = disk.led[j] \/ Written(p, j, disk')
  BY DEF StepBy, Fits
<1>3. /\ ~overlaps => m.up \in {"off", "dead"}
      /\ m.up = "up" => Closes(p) /\ overlaps
  BY <1>2, OthersRest
<1>4. m.up \in {"off", "dead"} => Own(q, m, disk')
  <2>1. m.up \in {"off", "dead"} => m = Off(m.up)
    BY <1>1 DEF Order
  <2> QED BY <2>1, DeadOwn
<1> SUFFICES ASSUME m.up \notin {"off", "dead"} PROVE Own(q, m, disk')
  BY <1>4
<1>5. overlaps /\ ~Quiet
  BY <1>3 DEF Quiet
<1>6. \A j \in Jobs : disk.led[j].st # "none" =>
         disk'.led[j].st # "none" /\ disk'.led[j].from = disk.led[j].from
  BY <1>2 DEF Written
<1> HIDE DEF m
<1>7. Bodies(m)
  BY <1>1 DEF Own
<1>8. Copies(m, disk')
  <2>1. Copies(m, disk)
    BY <1>1 DEF Own
  <2>2. ASSUME NEW i \in DOMAIN m.calls PROVE IsCopy(m.calls[i], disk')
    <3> DEFINE C == [j : Jobs, prev : Records]
    <3>0. m.calls \in Seq(C)
      BY <1>1 DEF Memories
    <3> HIDE DEF C
    <3>a. m.calls[i] \in C
      BY <2>2, <3>0
    <3>1. m.calls[i].j \in Jobs
      BY <3>a DEF C
    <3>2. IsCopy(m.calls[i], disk)
      BY <2>1, <2>2 DEF Copies
    <3> QED BY <3>1, <3>2, <1>6 DEF IsCopy
  <2>3. \A j \in Jobs : m.jobs[j].st # "none" =>
          disk'.led[j].st # "none" /\ m.jobs[j].from = disk'.led[j].from
    BY <2>1, <1>6 DEF Copies
  <2> QED BY <2>2, <2>3 DEF Copies
<1>9. Owns(q, m, disk')
  <2> SUFFICES ASSUME ~(overlaps /\ asks), m.up = "up", NEW j \in Jobs, disk'.led[j].st \in Shown
               PROVE  m.jobs[j].st = disk'.led[j].st /\ disk'.led[j].w = q
    BY DEF Owns
  <2>1. Closes(p) /\ ~asks
    BY <1>3
  <2>2. disk'.led[j] = disk.led[j]
    BY <1>2, <2>1 DEF Written
  <2>3. Owns(q, m, disk)
    BY <1>1 DEF Own
  <2> QED BY <2>2, <2>3 DEF Owns
<1>10. Agrees(q, m, disk')
  <2> SUFFICES ASSUME ~asks, NEW j \in Jobs, m.jobs[j].st \in Shown
               PROVE  /\ m.up = "up" \/ ~overlaps => disk'.led[j].w = q
                      /\ disk'.led[j].w = q => disk'.led[j].st = m.jobs[j].st
    BY DEF Agrees
  <2>1. /\ m.up = "up" \/ ~overlaps => disk.led[j].w = q
        /\ disk.led[j].w = q => disk.led[j].st = m.jobs[j].st
    BY <1>1 DEF Own, Agrees
  <2>2. Written(p, j, disk') => disk'.led[j].w = p /\ (Closes(p) => disk.led[j].w = p)
    BY DEF Written
  <2> QED BY <1>2, <1>3, <1>5, <2>1, <2>2
<1> QED BY <1>5, <1>7, <1>8, <1>9, <1>10 DEF Own, Talks, Swept

\* A step of a process keeps the invariant.
LEMMA StepKept ==
    ASSUME IInv, NEW p \in Procs, StepBy(p)
    PROVE  IInv'
<1>0. /\ UNCHANGED world /\ Acts(p) /\ proc' \in [Procs -> Memories]
      /\ \A q \in Procs : q # p => proc'[q] = proc[q]
      /\ Follows(p, proc'[p]) /\ Fits(p, disk') /\ Own(p, proc'[p], disk')
  BY DEF StepBy
<1>1. TypeOK'
  BY <1>0 DEF IInv, TypeOK, Fits, DiskType, world
<1>2. Order'
  <2>0. Order /\ proc \in [Procs -> Memories] /\ overlaps' = overlaps /\ asks' = asks /\ MaxProc \in Nat
    BY <1>0, LedgerAssumption DEF IInv, TypeOK, world
  <2>1. \A q \in Procs : proc'[q].up \in {"off", "dead"} => proc'[q] = Off(proc'[q].up)
    BY <1>0, <2>0 DEF Order, Follows
  <2>2. ASSUME NEW q \in Procs, NEW r \in Procs, q < r, proc'[r].up # "off"
        PROVE  Gives(q)'
    <3>1. CASE q # p /\ r # p
      BY <1>0, <2>0, <2>2, <3>1 DEF Order, Gives, Closes
    <3>2. CASE r = p
      <4>1. q # p
        BY <2>0, <2>2, <3>2
      <4>2. Gives(q)
        BY <1>0, <2>0, <2>2, <3>2 DEF Order, Acts
      <4> QED BY <1>0, <2>0, <4>1, <4>2 DEF Gives, Closes
    <3>3. CASE q = p
      <4>1. r # p
        BY <2>0, <2>2, <3>3
      <4>2. Gives(p)
        BY <1>0, <2>0, <2>2, <3>3, <4>1 DEF Order
      <4>3. overlaps /\ Closes(p)
        BY <1>0, <4>2 DEF Gives, Acts
      <4> QED BY <1>0, <2>0, <3>3, <4>3 DEF Gives, Closes, Follows
    <3> QED BY <3>1, <3>2, <3>3
  <2>3. ASSUME NEW q \in Procs, NEW j \in Jobs, disk'.led[j].w = q \/ disk'.jr[j].ino = q
        PROVE  proc'[q].up # "off"
    <3>1. CASE q = p
      BY <1>0, <3>1 DEF Follows
    <3>2. CASE q # p
      <4>1. disk.led[j].w = q \/ disk.jr[j].ino = q
        BY <1>0, <2>0, <2>3, <3>2 DEF Fits, Written
      <4> QED BY <1>0, <2>0, <3>2, <4>1 DEF Order
    <3> QED BY <3>1, <3>2
  <2>4. ~asks => \A q \in Procs : proc'[q].calls = <<>>
    BY <1>0, <2>0 DEF Order, Follows
  <2> QED BY <2>0, <2>1, <2>2, <2>3, <2>4 DEF Order
<1>3. \A j \in Jobs : HasHeir(disk', j)
  <2> TAKE j \in Jobs
  <2>1. CASE Written(p, j, disk')
    BY <2>1 DEF Written
  <2>2. CASE disk'.led[j] = disk.led[j] /\ disk.led[j].by # NoJob
    <3>1. HasHeir(disk, j) /\ disk.led[j].by \in Jobs
      BY <2>2 DEF IInv, TypeOK, Records
    <3> DEFINE k == disk.led[j].by
    <3>2. disk.led[k].st # "none" /\ disk.led[k].from = j /\ disk.led[j].st = "interrupted"
      BY <2>2, <3>1 DEF HasHeir
    <3>3. disk'.led[k].st # "none" /\ disk'.led[k].from = disk.led[k].from
      BY <1>0, <3>1, <3>2 DEF Fits, Written
    <3> QED BY <2>2, <3>2, <3>3 DEF HasHeir
  <2>3. CASE disk'.led[j] = disk.led[j] /\ disk.led[j].by = NoJob
    BY <2>3 DEF HasHeir
  <2> QED BY <1>0, <2>1, <2>2, <2>3 DEF Fits
<1>4. DiskTalk(disk)'
  BY <1>0 DEF Fits, DiskTalk, Quiet, world
<1>5. ASSUME NEW q \in Procs PROVE Own(q, proc[q], disk)'
  <2>1. Own(q, proc'[q], disk')
    BY <1>0, OthersKept
  <2> QED BY <1>0, <2>1 DEF world, Own, Bodies, Copies, IsCopy, Owns, Agrees, Talks, Swept, Quiet
<1> QED BY <1>1, <1>2, <1>3, <1>4, <1>5 DEF IInv, HasHeir

-----------------------------------------------------------------------------
(* The disks and the memory of a handler.                                  *)

\* What a write of a record does.
LEMMA PutRecordIs ==
    ASSUME NEW d \in DiskType, NEW p \in Procs, NEW j \in Jobs, NEW r \in Records
    PROVE  LET e == PutRecord(d, p, j, r) IN
           /\ e \in DiskType
           /\ e.led[j] = Stamped(p, r)
           /\ \A i \in Jobs : i # j => e.led[i] = d.led[i]
           /\ e.args = d.args /\ e.jr = d.jr
<1>1. 0 \in 0..Rounds /\ p \in 0..MaxProc
  BY LedgerAssumption
<1>2. Stamped(p, r) \in Records
  BY <1>1 DEF Stamped, Records
<1> HIDE DEF Procs
<1> QED BY <1>2 DEF PutRecord, DiskType

LEMMA PutArgsIs ==
    ASSUME NEW d \in DiskType, NEW j \in Jobs, NEW b \in BOOLEAN
    PROVE  LET e == PutArgs(d, j, b) IN
           /\ e \in DiskType
           /\ e.args[j] = b
           /\ \A i \in Jobs : i # j => e.args[i] = d.args[i]
           /\ e.led = d.led /\ e.jr = d.jr
BY DEF PutArgs, DiskType

LEMMA PutJournalIs ==
    ASSUME NEW d \in DiskType, NEW j \in Jobs, NEW r \in Journals
    PROVE  LET e == PutJournal(d, j, r) IN
           /\ e \in DiskType
           /\ e.jr[j] = r
           /\ \A i \in Jobs : i # j => e.jr[i] = d.jr[i]
           /\ e.led = d.led /\ e.args = d.args
BY DEF PutJournal, DiskType

LEMMA NoJournalType == NoJournal \in Journals
<1>1. <<>> \in Seq(1..Rounds) /\ 0 \in 0..Rounds /\ 0 \in 0..MaxProc
  BY LedgerAssumption
<1> QED BY <1>1 DEF NoJournal, Journals

LEMMA DroppedIs ==
    ASSUME NEW d \in DiskType, NEW j \in Jobs
    PROVE  LET e == Dropped(d, j) IN
           /\ e \in DiskType
           /\ ~e.args[j] /\ e.jr[j] = NoJournal
           /\ \A i \in Jobs : i # j => e.args[i] = d.args[i] /\ e.jr[i] = d.jr[i]
           /\ e.led = d.led
<1> DEFINE a == PutArgs(d, j, FALSE)
<1>1. /\ a \in DiskType /\ ~a.args[j] /\ a.led = d.led /\ a.jr = d.jr
      /\ \A i \in Jobs : i # j => a.args[i] = d.args[i]
  BY PutArgsIs
<1> HIDE DEF a
<1>2. LET e == PutJournal(a, j, NoJournal) IN
      /\ e \in DiskType /\ e.jr[j] = NoJournal /\ e.led = a.led /\ e.args = a.args
      /\ \A i \in Jobs : i # j => e.jr[i] = a.jr[i]
  BY <1>1, NoJournalType, PutJournalIs
<1>3. Dropped(d, j) = PutJournal(a, j, NoJournal)
  BY DEF Dropped, a
<1> QED BY <1>1, <1>2, <1>3

LEMMA StampedIs ==
    ASSUME NEW p \in Procs, NEW r \in Records
    PROVE  LET s == Stamped(p, r) IN
           /\ s \in Records
           /\ s.st = r.st /\ s.turns = r.turns /\ s.att = r.att /\ s.by = r.by /\ s.from = r.from
           /\ s.done = 0 /\ s.w = p
<1>1. 0 \in 0..Rounds /\ p \in 0..MaxProc
  BY LedgerAssumption
<1> HIDE DEF Procs
<1> QED BY <1>1 DEF Stamped, Records

LEMMA NewIs ==
    ASSUME NEW st \in Statuses, NEW f \in Jobs \cup {NoJob}
    PROVE  LET r == New(st, f) IN
           /\ r \in Records
           /\ r.st = st /\ r.turns = <<>> /\ r.done = 0 /\ ~r.att /\ r.by = NoJob /\ r.from = f
<1>1. <<>> \in Seq(1..Rounds) /\ 0 \in 0..Rounds /\ 0 \in 0..MaxProc
  BY LedgerAssumption
<1> QED BY <1>1 DEF New, NoRec, Records

\* What the invariant says before a step of p.
LEMMA Before ==
    ASSUME IInv, NEW p \in Procs
    PROVE  /\ disk \in DiskType /\ proc \in [Procs -> Memories] /\ proc[p] \in Memories
           /\ Order /\ DiskTalk(disk) /\ Own(p, proc[p], disk)
           /\ \A j \in Jobs : HasHeir(disk, j)
           /\ disk.led \in [Jobs -> Records] /\ disk.jr \in [Jobs -> Journals]
           /\ disk.args \in [Jobs -> BOOLEAN]
           /\ ~asks => proc[p].calls = <<>>
BY DEF IInv, TypeOK, DiskType, Order

\* A job nobody has used has no turns.
LEMMA FreshIs ==
    ASSUME IInv, NEW j \in Jobs, Fresh(j)
    PROVE  /\ disk.led[j].st = "none" /\ disk.led[j].by = NoJob
           /\ ~disk.jr[j].has /\ ~disk.args[j]
           /\ \A p \in Procs : proc[p].jobs[j].st = "none"
           /\ Quiet => disk.jr[j].turns = <<>>
<1>1. HasHeir(disk, j) /\ DiskTalk(disk)
  BY DEF IInv
<1> QED BY <1>1 DEF Fresh, HasHeir, DiskTalk, DiskRounds

\* A disk that writes one record, over a disk that fits.
LEMMA FitsRecord ==
    ASSUME IInv, NEW p \in Procs, NEW d, Fits(p, d), NEW j \in Jobs, NEW r \in Records,
           Written(p, j, PutRecord(d, p, j, r)),
           \A i \in Jobs : i # j /\ d.led[i].by = j => r.from = i /\ r.st # "none",
           disk.args[j] /\ ~d.args[j] => MayGo(p, j, PutRecord(d, p, j, r)),
           Quiet => DiskRounds(Stamped(p, r), d.jr[j])
    PROVE  Fits(p, PutRecord(d, p, j, r))
<1> DEFINE e == PutRecord(d, p, j, r)
<1>1. d \in DiskType
  BY DEF Fits
<1>2. /\ e \in DiskType /\ e.led[j] = Stamped(p, r) /\ e.args = d.args /\ e.jr = d.jr
      /\ \A i \in Jobs : i # j => e.led[i] = d.led[i]
  BY <1>1, PutRecordIs
<1> HIDE DEF e
<1>3. ASSUME NEW i \in Jobs
      PROVE  /\ e.led[i] = disk.led[i] \/ Written(p, i, e)
             /\ e.jr[i].ino \in {0, p, disk.jr[i].ino}
             /\ disk.args[i] /\ ~e.args[i] => MayGo(p, i, e)
  <2>1. CASE i = j
    BY <1>2, <2>1 DEF Fits, e
  <2>2. CASE i # j
    <3>1. e.led[i] = d.led[i]
      BY <1>2, <2>2
    <3>2. Written(p, i, d) => Written(p, i, e)
      <4> SUFFICES ASSUME Written(p, i, d) PROVE Written(p, i, e)
        OBVIOUS
      <4>1. HasHeir(e, i)
        <5>1. CASE d.led[i].by = NoJob
          BY <3>1, <5>1 DEF HasHeir
        <5>2. CASE d.led[i].by # NoJob /\ d.led[i].by # j
          <6>1. d.led[i].by # j /\ d.led[i].by \in Jobs
            BY <1>1, <2>2, <5>2 DEF DiskType, Records
          <6>2. e.led[d.led[i].by] = d.led[d.led[i].by]
            BY <1>2, <6>1
          <6> QED BY <3>1, <5>2, <6>2 DEF HasHeir, Written
        <5>3. CASE d.led[i].by = j
          <6>1. r.from = i /\ r.st # "none"
            BY <2>2, <5>3
          <6>2. e.led[j].from = i /\ e.led[j].st # "none"
            BY <1>2, <6>1, StampedIs
          <6> QED BY <3>1, <5>3, <6>2 DEF HasHeir, Written
        <5> QED BY <5>1, <5>2, <5>3
      <4> QED BY <3>1, <4>1 DEF Written
    <3>3. /\ d.led[i] = disk.led[i] \/ Written(p, i, d)
          /\ d.jr[i].ino \in {0, p, disk.jr[i].ino}
          /\ disk.args[i] /\ ~d.args[i] => MayGo(p, i, d)
      BY DEF Fits
    <3> QED BY <1>2, <3>1, <3>2, <3>3 DEF MayGo
  <2> QED BY <2>1, <2>2
<1>4. DiskTalk(e)
  BY <1>2 DEF Fits, DiskTalk
<1> QED BY <1>2, <1>3, <1>4 DEF Fits, e

\* One that writes arguments, or drops them where they may go.
LEMMA FitsArgs ==
    ASSUME NEW p \in Procs, NEW d, Fits(p, d), NEW j \in Jobs, NEW b \in BOOLEAN,
           disk.args[j] /\ ~b => MayGo(p, j, d)
    PROVE  Fits(p, PutArgs(d, j, b))
<1> DEFINE e == PutArgs(d, j, b)
<1>1. d \in DiskType
  BY DEF Fits
<1>2. /\ e \in DiskType /\ e.args[j] = b /\ e.led = d.led /\ e.jr = d.jr
      /\ \A i \in Jobs : i # j => e.args[i] = d.args[i]
  BY <1>1, PutArgsIs
<1> HIDE DEF e
<1>3. \A i \in Jobs : /\ Written(p, i, d) <=> Written(p, i, e)
                      /\ MayGo(p, i, d) <=> MayGo(p, i, e)
  BY <1>2 DEF Written, MayGo, HasHeir
<1> QED BY <1>2, <1>3 DEF Fits, DiskTalk, e

\* One that writes a journal.
LEMMA FitsJournal ==
    ASSUME NEW p \in Procs, NEW d, Fits(p, d), NEW j \in Jobs, NEW r \in Journals,
           r.ino \in {0, p, disk.jr[j].ino},
           Quiet => DiskRounds(d.led[j], r)
    PROVE  Fits(p, PutJournal(d, j, r))
<1> DEFINE e == PutJournal(d, j, r)
<1>1. d \in DiskType
  BY DEF Fits
<1>2. /\ e \in DiskType /\ e.jr[j] = r /\ e.led = d.led /\ e.args = d.args
      /\ \A i \in Jobs : i # j => e.jr[i] = d.jr[i]
  BY <1>1, PutJournalIs
<1> HIDE DEF e
<1>3. \A i \in Jobs : /\ Written(p, i, d) <=> Written(p, i, e)
                      /\ MayGo(p, i, d) <=> MayGo(p, i, e)
  BY <1>2 DEF Written, MayGo, HasHeir
<1> QED BY <1>2, <1>3 DEF Fits, DiskTalk, e

\* The disk as it is fits.
LEMMA FitsSame ==
    ASSUME IInv, NEW p \in Procs
    PROVE  Fits(p, disk)
BY DEF IInv, TypeOK, DiskType, Fits

\* A journal that is gone says nothing.
LEMMA RoundsGone ==
    ASSUME NEW l \in Records, NEW r, DiskRounds(l, r), r \in Journals,
           l.st = "running" => InOrder(l.turns)
    PROVE  DiskRounds(l, NoJournal)
<1>1. l.turns \in Seq(1..Rounds) /\ l.turns \o <<>> = l.turns
  BY DEF Records
<1> QED BY <1>1 DEF DiskRounds, NoJournal

\* What process p relies on for one job: r in memory, its body runs, its
\* journal is open; l, a, jr on the disk.
OwnRec(p, up, r, run, open, l, a, jr) ==
    /\ r.st # "interrupted" /\ r.by = NoJob
    /\ run => r.st = "running"
    /\ open => run
    /\ r.st # "none" => l.st # "none" /\ r.from = l.from
    /\ ~(overlaps /\ asks) /\ up = "up" /\ l.st \in Shown => r.st = l.st /\ l.w = p
    /\ ~asks /\ r.st \in Shown =>
          /\ up = "up" \/ ~overlaps => l.w = p
          /\ l.w = p => l.st = r.st
    /\ Quiet => MemoryRounds(r, run, open, l, jr) /\ (open => jr.ino = p)
    /\ Quiet /\ up = "up" /\ (a \/ jr.has) => l.st \notin Over \cup {"none"} /\ l.by = NoJob

OwnAt(p, m, d, j) ==
    OwnRec(p, m.up, m.jobs[j], j \in m.in, j \in m.fd, d.led[j], d.args[j], d.jr[j])

\* The invariant of a process, job by job.
LEMMA OwnIs ==
    ASSUME NEW p, NEW m, NEW d
    PROVE  Own(p, m, d) <=>
              (\A j \in Jobs : OwnAt(p, m, d, j)) /\ \A i \in DOMAIN m.calls : IsCopy(m.calls[i], d)
<1>1. Own(p, m, d) => \A j \in Jobs : OwnAt(p, m, d, j)
  BY DEF Own, OwnAt, OwnRec, Bodies, Copies, Owns, Agrees, Talks, Swept
<1>2. Own(p, m, d) => \A i \in DOMAIN m.calls : IsCopy(m.calls[i], d)
  BY DEF Own, Copies
<1>3. (\A j \in Jobs : OwnAt(p, m, d, j)) /\ (\A i \in DOMAIN m.calls : IsCopy(m.calls[i], d)) => Own(p, m, d)
  <2> SUFFICES ASSUME \A j \in Jobs : OwnAt(p, m, d, j), \A i \in DOMAIN m.calls : IsCopy(m.calls[i], d)
               PROVE  Own(p, m, d)
    OBVIOUS
  <2>1. Bodies(m)
    BY DEF OwnAt, OwnRec, Bodies
  <2>2. Copies(m, d)
    BY DEF OwnAt, OwnRec, Copies
  <2>3. Owns(p, m, d)
    BY DEF OwnAt, OwnRec, Owns
  <2>4. Agrees(p, m, d)
    BY DEF OwnAt, OwnRec, Agrees
  <2>5. Talks(p, m, d)
    BY DEF OwnAt, OwnRec, Talks
  <2>6. Swept(m, d)
    BY DEF OwnAt, OwnRec, Swept
  <2> QED BY <2>1, <2>2, <2>3, <2>4, <2>5, <2>6 DEF Own
<1> QED BY <1>1, <1>2, <1>3

\* A copy stays one on a disk that fits.
LEMMA CopyKept ==
    ASSUME IInv, NEW p \in Procs, NEW d, Fits(p, d), NEW c, c.j \in Jobs, IsCopy(c, disk)
    PROVE  IsCopy(c, d)
<1>1. d.led[c.j] = disk.led[c.j] \/ Written(p, c.j, d)
  BY DEF Fits
<1> QED BY <1>1 DEF IsCopy, Written

CallType == [j : Jobs, prev : Records]

LEMMA CallsKept ==
    ASSUME IInv, NEW p \in Procs, NEW d, Fits(p, d)
    PROVE  \A i \in DOMAIN proc[p].calls : IsCopy(proc[p].calls[i], d)
<1> TAKE i \in DOMAIN proc[p].calls
<1>1. proc[p].calls \in Seq(CallType) /\ Own(p, proc[p], disk)
  BY Before DEF Memories, CallType
<1>2. proc[p].calls[i] \in CallType
  BY <1>1
<1>3. proc[p].calls[i].j \in Jobs
  BY <1>2 DEF CallType
<1>4. IsCopy(proc[p].calls[i], disk)
  BY <1>1 DEF Own, Copies
<1> QED BY <1>3, <1>4, CopyKept

\* A step that changes the jobs of J only.
LEMMA OwnChanged ==
    ASSUME IInv, NEW p \in Procs, NEW m, NEW d, NEW J, m.up = proc[p].up,
           \A i \in Jobs \ J : /\ m.jobs[i] = proc[p].jobs[i]
                               /\ i \in m.in <=> i \in proc[p].in
                               /\ i \in m.fd <=> i \in proc[p].fd
                               /\ d.led[i] = disk.led[i] /\ d.args[i] = disk.args[i] /\ d.jr[i] = disk.jr[i],
           \A j \in Jobs : j \in J => OwnAt(p, m, d, j),
           \A i \in DOMAIN m.calls : IsCopy(m.calls[i], d)
    PROVE  Own(p, m, d)
<1>1. Own(p, proc[p], disk)
  BY DEF IInv
<1>2. \A j \in Jobs : OwnAt(p, proc[p], disk, j)
  BY <1>1, OwnIs
<1>3. ASSUME NEW i \in Jobs, i \notin J PROVE OwnAt(p, m, d, i)
  <2>1. OwnAt(p, proc[p], disk, i)
    BY <1>2
  <2> QED BY <1>3, <2>1 DEF OwnAt, OwnRec
<1>4. \A j \in Jobs : OwnAt(p, m, d, j)
  BY <1>3
<1> QED BY <1>4, OwnIs

\* One that changes the job j only.
LEMMA OwnChangedOne ==
    ASSUME IInv, NEW p \in Procs, NEW m, NEW d, NEW j \in Jobs, m.up = proc[p].up,
           \A i \in Jobs : i # j =>
              /\ m.jobs[i] = proc[p].jobs[i]
              /\ i \in m.in <=> i \in proc[p].in
              /\ i \in m.fd <=> i \in proc[p].fd
              /\ d.led[i] = disk.led[i] /\ d.args[i] = disk.args[i] /\ d.jr[i] = disk.jr[i],
           OwnAt(p, m, d, j),
           \A i \in DOMAIN m.calls : IsCopy(m.calls[i], d)
    PROVE  Own(p, m, d)
<1> DEFINE J == {j}
<1>1. \A i \in Jobs : i \in J <=> i = j
  OBVIOUS
<1> HIDE DEF J
<1> QED BY <1>1, OwnChanged

LEMMA RestatusIs ==
    ASSUME NEW c \in Records, NEW st \in Statuses
    PROVE  LET r == [c EXCEPT !.st = st] IN
           /\ r \in Records
           /\ r.st = st /\ r.turns = c.turns /\ r.done = c.done /\ r.att = c.att
           /\ r.by = c.by /\ r.from = c.from /\ r.w = c.w
BY DEF Records

\* The record of a job that p has waiting or running, with a new status.
LEMMA FitsMine ==
    ASSUME IInv, NEW p \in Procs, NEW j \in Jobs, NEW st, NEW d,
           proc[p].jobs[j].st \in Shown,
           \/ proc[p].up = "up" /\ st = "running"
           \/ st \in Over /\ (proc[p].up = "up" \/ ~ClosedElsewhere(p, j)),
           Fits(p, d), d.led = disk.led,
           disk.args[j] /\ ~d.args[j] =>
              st \in Over \/ (proc[p].jobs[j].st = "running" /\ j \notin proc[p].in),
           Quiet => DiskRounds(Stamped(p, [proc[p].jobs[j] EXCEPT !.st = st]), d.jr[j])
    PROVE  /\ [proc[p].jobs[j] EXCEPT !.st = st] \in Records
           /\ Fits(p, PutRecord(d, p, j, [proc[p].jobs[j] EXCEPT !.st = st]))
<1> DEFINE c == proc[p].jobs[j]
           r == [c EXCEPT !.st = st]
           e == PutRecord(d, p, j, r)
<1>1. /\ proc[p] \in Memories /\ disk.led \in [Jobs -> Records] /\ Own(p, proc[p], disk)
      /\ HasHeir(disk, j)
  BY Before
<1>a. c \in Records
  BY <1>1 DEF Memories
<1>2. r \in Records /\ r.st = st /\ r.by = c.by /\ r.from = c.from
  <2>1. st \in Statuses
    BY DEF Statuses, Over
  <2> HIDE DEF c
  <2> QED BY <1>a, <2>1, RestatusIs
<1>3. r.st = st /\ r.by = c.by /\ r.from = c.from
  BY <1>2
<1>4. OwnAt(p, proc[p], disk, j)
  BY <1>1, OwnIs
<1>5. c.by = NoJob /\ disk.led[j].st # "none" /\ c.from = disk.led[j].from
  BY <1>4 DEF OwnAt, OwnRec, Shown
<1>6. d \in DiskType
  BY DEF Fits
<1> HIDE DEF c, r
<1>b. /\ e \in DiskType /\ e.led[j] = Stamped(p, r) /\ e.args = d.args /\ e.jr = d.jr
  BY <1>2, <1>6, PutRecordIs
<1> HIDE DEF e
<1>7. /\ e \in DiskType /\ e.led[j] = Stamped(p, r) /\ e.args = d.args /\ e.jr = d.jr
      /\ Stamped(p, r).st = st /\ Stamped(p, r).by = NoJob /\ Stamped(p, r).from = c.from
      /\ Stamped(p, r).w = p
  BY <1>2, <1>3, <1>5, <1>b, StampedIs
<1>8. Written(p, j, e)
  <2>1. st # "none" /\ st # "interrupted"
    BY DEF Over
  <2>2. ASSUME ~asks
        PROVE  /\ Closes(p) => disk.led[j].w = p /\ st \notin Shown
               /\ disk.led[j].by = NoJob /\ disk.led[j].st \notin Over
    <3>1. disk.led[j].w = p
      <4>1. CASE proc[p].up = "up"
        BY <1>4, <2>2, <4>1 DEF OwnAt, OwnRec, c
      <4>2. CASE ~ClosedElsewhere(p, j)
        BY <1>5, <4>2 DEF ClosedElsewhere
      <4> QED BY <4>1, <4>2
    <3>2. disk.led[j].st \in Shown
      BY <1>4, <2>2, <3>1 DEF OwnAt, OwnRec, c
    <3>3. disk.led[j].by = NoJob
      BY <1>1, <3>2 DEF HasHeir, Shown
    <3>4. Closes(p) => st \notin Shown
      BY DEF Closes, Shown, Over
    <3> QED BY <3>1, <3>2, <3>3, <3>4 DEF Shown, Over
  <2>3. HasHeir(e, j)
    BY <1>7 DEF HasHeir
  <2> QED BY <1>5, <1>7, <2>1, <2>2, <2>3 DEF Written
<1>9. \A i \in Jobs : i # j /\ d.led[i].by = j => r.from = i /\ r.st # "none"
  <2> SUFFICES ASSUME NEW i \in Jobs, disk.led[i].by = j PROVE r.from = i /\ r.st # "none"
    OBVIOUS
  <2>1. HasHeir(disk, i)
    BY Before
  <2>2. disk.led[j].from = i
    BY <2>1, LedgerAssumption DEF HasHeir
  <2> QED BY <1>3, <1>5, <2>2 DEF Over
<1>10. disk.args[j] /\ ~d.args[j] => MayGo(p, j, e)
  BY <1>7 DEF MayGo, c
<1>11. Quiet => DiskRounds(Stamped(p, r), d.jr[j])
  BY DEF r, c
<1>12. Fits(p, e)
  BY <1>2, <1>8, <1>9, <1>10, <1>11, FitsRecord DEF e
<1> QED BY <1>2, <1>12 DEF e, r, c

-----------------------------------------------------------------------------
(* The life of a job in one process.                                       *)

\* What p and the disk say of a job that p has waiting or running.
LEMMA MineIs ==
    ASSUME IInv, NEW p \in Procs, NEW j \in Jobs, proc[p].jobs[j].st \in Shown
    PROVE  LET c == proc[p].jobs[j]
               l == disk.led[j]
               jr == disk.jr[j]
           IN
           /\ c \in Records /\ l \in Records /\ jr \in Journals
           /\ proc[p].up \in {"up", "closing"} /\ Acts(p)
           /\ c.by = NoJob /\ l.st # "none" /\ c.from = l.from
           /\ proc[p].up = "up" \/ ~overlaps => (~asks => l.w = p)
           /\ ~asks /\ l.w = p => l.st = c.st
           /\ j \in proc[p].in => c.st = "running"
           /\ j \in proc[p].fd => j \in proc[p].in
           /\ Quiet => /\ l.st = c.st
                       /\ DiskRounds(l, jr)
                       /\ MemoryRounds(c, j \in proc[p].in, j \in proc[p].fd, l, jr)
                       /\ j \in proc[p].fd => jr.ino = p
<1>1. /\ proc[p] \in Memories /\ disk.led \in [Jobs -> Records] /\ disk.jr \in [Jobs -> Journals]
      /\ Own(p, proc[p], disk) /\ Order /\ DiskTalk(disk)
  BY Before
<1>2. OwnAt(p, proc[p], disk, j)
  BY <1>1, OwnIs
<1>3. proc[p].up \in {"up", "closing"}
  <2>1. proc[p].up \in {"off", "dead"} => proc[p] = Off(proc[p].up)
    BY <1>1 DEF Order
  <2>2. proc[p].up \notin {"off", "dead"}
    BY <2>1 DEF Off, NoRec, Shown
  <2> QED BY <1>1, <2>2 DEF Memories
<1>4. proc[p].jobs[j] \in Records
  BY <1>1 DEF Memories
<1>5. Acts(p)
  BY <1>3 DEF Acts
<1>6. Quiet => disk.led[j].st = proc[p].jobs[j].st
  BY <1>2 DEF OwnAt, OwnRec, Quiet
<1>7. Quiet => DiskRounds(disk.led[j], disk.jr[j])
  BY <1>1 DEF DiskTalk
<1> QED BY <1>1, <1>2, <1>3, <1>4, <1>5, <1>6, <1>7 DEF OwnAt, OwnRec, Shown

\* A memory with another record of one job.
LEMMA MemoryIs ==
    ASSUME NEW m \in Memories, NEW j \in Jobs, NEW r \in Records
    PROVE  LET n == [m EXCEPT !.jobs[j] = r] IN
           /\ n \in Memories
           /\ n.up = m.up /\ n.in = m.in /\ n.fd = m.fd /\ n.calls = m.calls
           /\ n.jobs[j] = r /\ \A i \in Jobs : i # j => n.jobs[i] = m.jobs[i]
BY DEF Memories

\* A process that stays as it is follows itself.
LEMMA FollowsIs ==
    ASSUME IInv, NEW p \in Procs, NEW m \in Memories, proc[p].up \in {"up", "closing"},
           m.up = proc[p].up, ~asks => m.calls = <<>>
    PROVE  Follows(p, m)
BY DEF Follows, Closes

LEMMA LaunchStep ==
    ASSUME IInv, NEW p \in Procs, NEW j \in Jobs, Launch(p, j)
    PROVE  StepBy(p)
<1> DEFINE c == proc[p].jobs[j]
           r == [c EXCEPT !.st = "running"]
           m == [proc[p] EXCEPT !.jobs[j] = r]
           e == PutRecord(disk, p, j, r)
           l == disk.led[j]
           jr == disk.jr[j]
<1>1. proc[p].up = "up" /\ c.st = "queued" /\ UNCHANGED world /\ Commit(p, m, <<e>>)
  BY DEF Launch
<1>2. CommitAny(p, m, e, {})
  BY <1>1, CommittedOne
<1>a. c.st \in Shown
  BY <1>1 DEF Shown
<1>b. /\ c \in Records /\ l \in Records /\ jr \in Journals /\ Acts(p)
      /\ c.by = NoJob /\ l.st # "none" /\ c.from = l.from
      /\ proc[p].up = "up" \/ ~overlaps => (~asks => l.w = p)
      /\ j \in proc[p].in => c.st = "running"
      /\ j \in proc[p].fd => j \in proc[p].in
      /\ Quiet => /\ l.st = c.st
                  /\ DiskRounds(l, jr)
                  /\ MemoryRounds(c, j \in proc[p].in, j \in proc[p].fd, l, jr)
  BY <1>a, MineIs
<1>3. /\ ~asks => l.w = p
      /\ j \notin proc[p].in /\ j \notin proc[p].fd
      /\ Quiet => l.st = "queued" /\ DiskRounds(l, jr) /\ MemoryRounds(c, FALSE, FALSE, l, jr)
  <2>1. j \notin proc[p].in /\ j \notin proc[p].fd
    BY <1>1, <1>b
  <2>2. (j \in proc[p].in) = FALSE /\ (j \in proc[p].fd) = FALSE
    BY <2>1
  <2> QED BY <1>1, <1>b, <2>1, <2>2
<1>4. /\ r \in Records /\ r.st = "running" /\ r.turns = c.turns /\ r.done = c.done
      /\ r.att = c.att /\ r.by = c.by /\ r.from = c.from
  BY <1>b, RestatusIs DEF Statuses
<1>5. disk \in DiskType /\ proc[p] \in Memories /\ (~asks => proc[p].calls = <<>>)
  BY Before
<1> HIDE DEF r
<1>6. /\ e.led[j] = Stamped(p, r) /\ \A i \in Jobs : i # j => e.led[i] = disk.led[i]
      /\ e.args = disk.args /\ e.jr = disk.jr
  BY <1>4, <1>5, PutRecordIs
<1>7. LET s == Stamped(p, r) IN
      s.st = "running" /\ s.turns = c.turns /\ s.att = c.att /\ s.by = NoJob /\ s.from = c.from /\ s.w = p
  BY <1>b, <1>4, StampedIs
<1>8. c.turns \in Seq(1..Rounds) /\ c.turns \o <<>> = c.turns /\ Len(<<>>) = 0 /\ Len(c.turns) \in Nat
      /\ c.done \in Nat
  <2> HIDE DEF c
  <2>1. c.turns \in Seq(1..Rounds) /\ c.done \in 0..Rounds
    BY <1>b DEF Records
  <2> QED BY <2>1, LedgerAssumption
<1>9. Quiet => /\ DiskRounds(Stamped(p, r), jr)
               /\ MemoryRounds(r, FALSE, FALSE, Stamped(p, r), jr)
  <2> HIDE DEF c, l, jr
  <2> QED BY <1>a, <1>3, <1>4, <1>7, <1>8 DEF DiskRounds, MemoryRounds, Shown
<1>10. Fits(p, e)
  <2> DEFINE st == "running"
  <2>1. st = "running" /\ r = [c EXCEPT !.st = st]
    BY DEF r
  <2>2. Quiet => DiskRounds(Stamped(p, [c EXCEPT !.st = st]), disk.jr[j])
    BY <1>9, <2>1
  <2> HIDE DEF st
  <2>3. Fits(p, PutRecord(disk, p, j, [c EXCEPT !.st = st]))
    BY <1>1, <1>a, <2>1, <2>2, FitsSame, FitsMine
  <2> QED BY <2>1, <2>3
<1>11. /\ m \in Memories /\ m.up = proc[p].up /\ m.in = proc[p].in /\ m.fd = proc[p].fd
       /\ m.calls = proc[p].calls
       /\ m.jobs[j] = r /\ \A i \in Jobs : i # j => m.jobs[i] = proc[p].jobs[i]
  BY <1>4, <1>5, MemoryIs
<1> HIDE DEF m, e
<1>12. OwnAt(p, m, e, j)
  <2>1. (j \in m.in) = FALSE /\ (j \in m.fd) = FALSE
    BY <1>3, <1>11
  <2> QED BY <2>1, <1>1, <1>b, <1>3, <1>4, <1>6, <1>7, <1>9, <1>11 DEF OwnAt, OwnRec, Over
<1>13. Own(p, m, e)
  <2>1. \A i \in DOMAIN m.calls : IsCopy(m.calls[i], e)
    BY <1>10, <1>11, CallsKept
  <2> QED BY <1>6, <1>11, <1>12, <2>1, OwnChangedOne
<1>14. Follows(p, m)
  BY <1>1, <1>5, <1>11, FollowsIs
<1> QED BY <1>1, <1>2, <1>b, <1>10, <1>13, <1>14, Committed

\* The first records of a new job.
LEMMA FitsNew ==
    ASSUME IInv, NEW p \in Procs, NEW j \in Jobs, Fresh(j), NEW st \in Shown,
           NEW f \in Jobs \cup {NoJob}, NEW d, Fits(p, d), d.jr[j] = disk.jr[j],
           Closes(p) => asks,
           \A i \in Jobs : i # j => d.led[i].by # j
    PROVE  Fits(p, PutRecord(d, p, j, New(st, f)))
<1> DEFINE r == New(st, f)
           e == PutRecord(d, p, j, r)
<1>1. /\ r \in Records /\ r.st = st /\ r.turns = <<>> /\ ~r.att /\ r.by = NoJob
  BY NewIs DEF Shown, Statuses
<1>2. d \in DiskType
  BY DEF Fits
<1> HIDE DEF r
<1>3. e.led[j] = Stamped(p, r)
  BY <1>1, <1>2, PutRecordIs
<1>4. LET s == Stamped(p, r) IN s.st = st /\ s.turns = <<>> /\ ~s.att /\ s.by = NoJob /\ s.w = p
  BY <1>1, StampedIs
<1>5. /\ disk.led[j].st = "none" /\ disk.led[j].by = NoJob /\ ~disk.jr[j].has /\ ~disk.args[j]
      /\ Quiet => disk.jr[j].turns = <<>>
  BY FreshIs
<1> HIDE DEF e
<1>6. Written(p, j, e)
  BY <1>3, <1>4, <1>5 DEF Written, HasHeir, Shown, Over
<1>7. Quiet => DiskRounds(Stamped(p, r), d.jr[j])
  <2> SUFFICES ASSUME Quiet PROVE DiskRounds(Stamped(p, r), d.jr[j])
    OBVIOUS
  <2>1. Stamped(p, r).turns \o d.jr[j].turns = <<>>
    BY <1>4, <1>5
  <2> QED BY <1>4, <1>5, <2>1 DEF DiskRounds, InOrder, Shown
<1> QED BY <1>1, <1>5, <1>6, <1>7, FitsRecord DEF e, r

\* The arguments of a new job, written or not.
LEMMA FitsSaved ==
    ASSUME IInv, NEW p \in Procs, NEW j \in Jobs, NEW durable \in BOOLEAN
    PROVE  LET d == SaveArgs(j, durable) IN
           /\ Fits(p, d) /\ d \in DiskType /\ d.led = disk.led /\ d.jr = disk.jr
           /\ \A i \in Jobs : i # j => d.args[i] = disk.args[i]
<1>1. Fits(p, disk) /\ disk \in DiskType
  BY FitsSame, Before
<1>2. CASE durable
  <2> DEFINE b == TRUE
             d == PutArgs(disk, j, b)
  <2>1. SaveArgs(j, durable) = d
    BY <1>2 DEF SaveArgs
  <2>2. b \in BOOLEAN /\ (disk.args[j] /\ ~b => MayGo(p, j, disk))
    OBVIOUS
  <2> HIDE DEF b
  <2>3. Fits(p, d)
    BY <1>1, <2>2, FitsArgs
  <2>4. /\ d \in DiskType /\ d.led = disk.led /\ d.jr = disk.jr
        /\ \A i \in Jobs : i # j => d.args[i] = disk.args[i]
    BY <1>1, <2>2, PutArgsIs
  <2> QED BY <2>1, <2>3, <2>4
<1>3. CASE ~durable
  BY <1>1, <1>3 DEF SaveArgs
<1> QED BY <1>2, <1>3

\* The memory's side of a new job.
LEMMA OwnNew ==
    ASSUME NEW p \in Procs, NEW m, NEW e, NEW j \in Jobs, NEW st \in Shown, NEW f \in Jobs \cup {NoJob},
           m.jobs[j] = New(st, f), j \notin m.in, j \notin m.fd,
           e.led[j] = Stamped(p, New(st, f)),
           ~e.jr[j].has, Quiet => e.jr[j].turns = <<>>
    PROVE  OwnAt(p, m, e, j)
<1> DEFINE r == New(st, f)
<1>1. /\ r \in Records /\ r.st = st /\ r.turns = <<>> /\ ~r.att /\ r.by = NoJob /\ r.from = f /\ r.done = 0
  BY NewIs DEF Shown, Statuses
<1> HIDE DEF r
<1>2. LET s == Stamped(p, r) IN
      s.st = st /\ s.turns = <<>> /\ ~s.att /\ s.by = NoJob /\ s.w = p /\ s.from = f /\ s.att = r.att
  BY <1>1, StampedIs
<1>3. (j \in m.in) = FALSE /\ (j \in m.fd) = FALSE
  OBVIOUS
<1>4. m.jobs[j] = r /\ e.led[j] = Stamped(p, r)
  BY DEF r
<1>5. Quiet => MemoryRounds(r, FALSE, FALSE, Stamped(p, r), e.jr[j])
  BY <1>1, <1>2 DEF MemoryRounds, InOrder
<1>6. st # "none" /\ st # "interrupted" /\ st \notin Over
  BY DEF Shown, Over
<1> QED BY <1>1, <1>2, <1>3, <1>4, <1>5, <1>6 DEF OwnAt, OwnRec

LEMMA StartStep ==
    ASSUME IInv, NEW p \in Procs, NEW j \in Jobs, Start(p, j)
    PROVE  StepBy(p)
<1>1. /\ proc[p].up = "up" /\ Fresh(j) /\ UNCHANGED world
      /\ \E st \in StartStatus(p), durable \in BOOLEAN :
            LET d == SaveArgs(j, durable) IN
            Commit(p, [proc[p] EXCEPT !.jobs[j] = New(st, NoJob)], <<d, PutRecord(d, p, j, New(st, NoJob))>>)
  BY DEF Start
<1>2. PICK st \in StartStatus(p), durable \in BOOLEAN :
            LET d == SaveArgs(j, durable) IN
            Commit(p, [proc[p] EXCEPT !.jobs[j] = New(st, NoJob)], <<d, PutRecord(d, p, j, New(st, NoJob))>>)
  BY <1>1
<1> DEFINE d == SaveArgs(j, durable)
           r == New(st, NoJob)
           m == [proc[p] EXCEPT !.jobs[j] = r]
           e == PutRecord(d, p, j, r)
<1>3. CommitAny(p, m, e, {d})
  BY <1>2, CommittedTwo
<1>4. st \in Shown /\ st \in Statuses /\ NoJob \in Jobs \cup {NoJob}
  BY DEF StartStatus, Shown, Statuses
<1>5. /\ Fits(p, d) /\ d \in DiskType /\ d.led = disk.led /\ d.jr = disk.jr
      /\ \A i \in Jobs : i # j => d.args[i] = disk.args[i]
  BY FitsSaved
<1>6. /\ disk.led[j].st = "none" /\ ~disk.jr[j].has /\ proc[p].jobs[j].st = "none"
      /\ Quiet => disk.jr[j].turns = <<>>
  BY <1>1, FreshIs
<1>7. \A i \in Jobs : i # j => disk.led[i].by # j
  <2> SUFFICES ASSUME NEW i \in Jobs, disk.led[i].by = j PROVE FALSE
    OBVIOUS
  <2>1. HasHeir(disk, i)
    BY Before
  <2> QED BY <1>6, <2>1, LedgerAssumption DEF HasHeir
<1> HIDE DEF d
<1>8. Fits(p, e)
  <2>1. Closes(p) => asks
    BY <1>1 DEF Closes
  <2> QED BY <1>1, <1>4, <1>5, <1>7, <2>1, FitsNew
<1>9. proc[p] \in Memories /\ (~asks => proc[p].calls = <<>>) /\ Own(p, proc[p], disk)
  BY Before
<1>10. r \in Records
  BY <1>4, NewIs
<1>11. /\ m \in Memories /\ m.up = proc[p].up /\ m.in = proc[p].in /\ m.fd = proc[p].fd
       /\ m.calls = proc[p].calls
       /\ m.jobs[j] = r /\ \A i \in Jobs : i # j => m.jobs[i] = proc[p].jobs[i]
  <2> HIDE DEF r
  <2> QED BY <1>9, <1>10, MemoryIs
<1>12. /\ e.led[j] = Stamped(p, r) /\ \A i \in Jobs : i # j => e.led[i] = disk.led[i]
       /\ e.args = d.args /\ e.jr = disk.jr
  BY <1>5, <1>10, PutRecordIs
<1>13. j \notin m.in /\ j \notin m.fd
  <2>1. Bodies(proc[p])
    BY <1>9 DEF Own
  <2> QED BY <1>6, <1>11, <2>1 DEF Bodies
<1> HIDE DEF m, e
<1>14. OwnAt(p, m, e, j)
  BY <1>4, <1>6, <1>11, <1>12, <1>13, OwnNew
<1>15. Own(p, m, e)
  <2>1. \A i \in DOMAIN m.calls : IsCopy(m.calls[i], e)
    BY <1>8, <1>11, CallsKept
  <2> QED BY <1>5, <1>11, <1>12, <1>14, <2>1, OwnChangedOne
<1>16. Follows(p, m)
  BY <1>1, <1>9, <1>11, FollowsIs
<1>17. Acts(p)
  BY <1>1 DEF Acts
<1> QED BY <1>1, <1>3, <1>5, <1>8, <1>15, <1>16, <1>17, Committed

\* What the body of job j of p may change: its turns and its journal.
BodyWrites(p, j, m, e) ==
    /\ proc[p].jobs[j].st = "running"
    /\ m \in Memories /\ m.up = proc[p].up /\ m.calls = proc[p].calls
    /\ \A i \in Jobs : i # j => /\ m.jobs[i] = proc[p].jobs[i]
                                /\ i \in m.in <=> i \in proc[p].in
                                /\ i \in m.fd <=> i \in proc[p].fd
    /\ j \in m.in
    /\ m.jobs[j].st = "running" /\ m.jobs[j].by = proc[p].jobs[j].by
    /\ m.jobs[j].from = proc[p].jobs[j].from
    /\ e \in DiskType /\ e.led = disk.led /\ e.args = disk.args
    /\ \A i \in Jobs : i # j => e.jr[i] = disk.jr[i]
    /\ e.jr[j].ino \in {p, disk.jr[j].ino}

\* The rounds of a running job: in memory and on the disk.
Running(p, c, open, l, jr) ==
    /\ DiskRounds(l, jr) /\ MemoryRounds(c, TRUE, open, l, jr)
    /\ open => jr.ino = p

RoundsOf(p, j, m, e) == Quiet => Running(p, m.jobs[j], j \in m.fd, e.led[j], e.jr[j])

\* A step of the body of a job.
LEMMA BodyStep ==
    ASSUME IInv, NEW p \in Procs, NEW j \in Jobs, NEW m, NEW e,
           BodyWrites(p, j, m, e), RoundsOf(p, j, m, e),
           CommitAny(p, m, e, {}), UNCHANGED world
    PROVE  StepBy(p)
<1> DEFINE c == proc[p].jobs[j]
           l == disk.led[j]
<1>0. /\ c.st = "running"
      /\ m \in Memories /\ m.up = proc[p].up /\ m.calls = proc[p].calls
      /\ \A i \in Jobs : i # j => /\ m.jobs[i] = proc[p].jobs[i]
                                  /\ i \in m.in <=> i \in proc[p].in
                                  /\ i \in m.fd <=> i \in proc[p].fd
      /\ j \in m.in
      /\ m.jobs[j].st = "running" /\ m.jobs[j].by = c.by /\ m.jobs[j].from = c.from
      /\ e \in DiskType /\ e.led = disk.led /\ e.args = disk.args
      /\ \A i \in Jobs : i # j => e.jr[i] = disk.jr[i]
      /\ e.jr[j].ino \in {p, disk.jr[j].ino}
  BY DEF BodyWrites
<1>a. Quiet => /\ DiskRounds(l, e.jr[j])
               /\ MemoryRounds(m.jobs[j], TRUE, j \in m.fd, l, e.jr[j])
               /\ j \in m.fd => e.jr[j].ino = p
  BY <1>0 DEF RoundsOf, Running
<1>1. c.st \in Shown
  BY <1>0 DEF Shown
<1>2. /\ proc[p].up \in {"up", "closing"} /\ Acts(p)
      /\ c.by = NoJob /\ l.st # "none" /\ c.from = l.from
      /\ proc[p].up = "up" \/ ~overlaps => (~asks => l.w = p)
      /\ ~asks /\ l.w = p => l.st = c.st
      /\ Quiet => l.st = c.st
  BY <1>1, MineIs
<1>3. /\ Own(p, proc[p], disk) /\ HasHeir(disk, j) /\ DiskTalk(disk)
      /\ ~asks => proc[p].calls = <<>>
  BY Before
<1>4. Fits(p, e)
  <2>1. DiskTalk(e)
    BY <1>0, <1>3, <1>a DEF DiskTalk
  <2>2. \A i \in Jobs : e.jr[i].ino \in {0, p, disk.jr[i].ino}
    BY <1>0
  <2> QED BY <1>0, <2>1, <2>2 DEF Fits
<1>5. OwnAt(p, m, e, j)
  <2>1. OwnAt(p, proc[p], disk, j)
    BY <1>3, OwnIs
  <2>2. l.st \in Shown => l.by = NoJob
    BY <1>3 DEF HasHeir, Shown
  <2>3. (j \in m.in) = TRUE
    BY <1>0
  <2>4. ~(overlaps /\ asks) /\ m.up = "up" /\ l.st \in Shown => m.jobs[j].st = l.st /\ l.w = p
    BY <1>0, <2>1 DEF OwnAt, OwnRec
  <2> QED BY <1>0, <1>a, <1>1, <1>2, <2>2, <2>3, <2>4 DEF OwnAt, OwnRec, Shown, Over
<1>6. Own(p, m, e)
  <2>1. \A i \in DOMAIN m.calls : IsCopy(m.calls[i], e)
    BY <1>0, <1>4, CallsKept
  <2> QED BY <1>0, <1>5, <2>1, OwnChangedOne
<1>7. Follows(p, m)
  BY <1>0, <1>2, <1>3, FollowsIs
<1> QED BY <1>2, <1>4, <1>6, <1>7, Committed

\* What the invariant says of a running job.
LEMMA RunningIs ==
    ASSUME IInv, NEW p \in Procs, NEW j \in Jobs, j \in proc[p].in
    PROVE  LET c == proc[p].jobs[j] IN
           /\ c.st = "running" /\ c \in Records
           /\ disk.led[j] \in Records /\ disk.jr[j] \in Journals
           /\ proc[p] \in Memories /\ disk \in DiskType
           /\ Quiet => /\ disk.led[j].st = "running"
                       /\ Running(p, c, j \in proc[p].fd, disk.led[j], disk.jr[j])
<1> DEFINE c == proc[p].jobs[j]
<1>1. proc[p] \in Memories /\ Bodies(proc[p]) /\ disk \in DiskType
  BY Before DEF Own
<1>2. c.st = "running" /\ c.st \in Shown
  BY <1>1 DEF Bodies, Shown
<1>3. (j \in proc[p].in) = TRUE
  OBVIOUS
<1>4. /\ c \in Records /\ disk.led[j] \in Records /\ disk.jr[j] \in Journals
      /\ Quiet => /\ disk.led[j].st = c.st
                  /\ DiskRounds(disk.led[j], disk.jr[j])
                  /\ MemoryRounds(c, j \in proc[p].in, j \in proc[p].fd, disk.led[j], disk.jr[j])
                  /\ j \in proc[p].fd => disk.jr[j].ino = p
  BY <1>2, MineIs
<1> QED BY <1>1, <1>2, <1>3, <1>4 DEF Running

-----------------------------------------------------------------------------
(* The rounds of a running job, step by step.                              *)

\* What Running says, in numbers.
Tally(c, l, jr) ==
    /\ c.turns \in Seq(1..Rounds) /\ jr.turns \in Seq(1..Rounds) /\ l.turns \in Seq(1..Rounds)
    /\ c.done \in Nat /\ jr.ends \in Nat /\ Rounds \in Nat
    /\ Len(c.turns) \in Nat /\ Len(jr.turns) \in Nat /\ Len(l.turns) \in Nat

Adds(p, c, open, l, jr) ==
    /\ InOrder(c.turns) /\ InOrder(l.turns) /\ InOrder(l.turns \o jr.turns)
    /\ c.att = l.att
    /\ jr.has => jr.ends <= c.done /\ jr.ends <= Len(l.turns) + Len(jr.turns)
    /\ ~jr.has => jr.turns = <<>>
    /\ Len(c.turns) \in {c.done, c.done + 1}
    /\ Len(l.turns) + Len(jr.turns) <= Len(c.turns)
    /\ open => jr.has /\ jr.ends = c.done /\ l.turns \o jr.turns = c.turns /\ jr.ino = p

LEMMA TallyIs ==
    ASSUME NEW c \in Records, NEW l \in Records, NEW jr \in Journals
    PROVE  Tally(c, l, jr)
<1>1. /\ c.turns \in Seq(1..Rounds) /\ jr.turns \in Seq(1..Rounds) /\ l.turns \in Seq(1..Rounds)
      /\ c.done \in 0..Rounds /\ jr.ends \in 0..Rounds /\ Rounds \in Nat
  BY LedgerAssumption DEF Records, Journals
<1>2. Len(c.turns) \in Nat /\ Len(jr.turns) \in Nat /\ Len(l.turns) \in Nat
  BY <1>1
<1> QED BY <1>1, <1>2 DEF Tally

LEMMA RunningSays ==
    ASSUME NEW p, NEW c, NEW open, NEW l, NEW jr,
           open \in BOOLEAN, c.st = "running", l.st = "running"
    PROVE  Running(p, c, open, l, jr) <=> Adds(p, c, open, l, jr)
<1>1. c.st \in Shown
  BY DEF Shown
<1>2. Running(p, c, open, l, jr) => Adds(p, c, open, l, jr)
  BY <1>1 DEF Running, Adds, MemoryRounds, DiskRounds
<1>3. Adds(p, c, open, l, jr) => Running(p, c, open, l, jr)
  BY <1>1 DEF Running, Adds, MemoryRounds, DiskRounds
<1> QED BY <1>2, <1>3

\* Another record or journal with the same rounds.
LEMMA RunningSame ==
    ASSUME NEW p, NEW c, NEW open \in BOOLEAN, NEW l, NEW jr, NEW r,
           Running(p, c, open, l, jr),
           r.has = jr.has /\ r.turns = jr.turns /\ r.ends = jr.ends /\ r.ino = jr.ino
    PROVE  Running(p, c, open, l, r)
BY DEF Running, MemoryRounds, DiskRounds

\* A line more.
LEMMA AppendConcat ==
    ASSUME NEW S, NEW s \in Seq(S), NEW t \in Seq(S), NEW k \in S
    PROVE  s \o Append(t, k) = Append(s \o t, k)
OBVIOUS

\* The last turn of a transcript that is whole.
LEMMA SpokenIs ==
    ASSUME NEW c \in Records, InOrder(c.turns), Len(c.turns) \in {c.done, c.done + 1}
    PROVE  Spoken(c) <=> Len(c.turns) = c.done + 1
<1>1. c.turns \in Seq(1..Rounds) /\ c.done \in Nat /\ Len(c.turns) \in Nat
  BY LedgerAssumption DEF Records
<1>2. c.turns = <<>> <=> Len(c.turns) = 0
  BY <1>1
<1>3. c.turns # <<>> => Last(c.turns) = Len(c.turns)
  <2> SUFFICES ASSUME c.turns # <<>> PROVE Last(c.turns) = Len(c.turns)
    OBVIOUS
  <2>1. Len(c.turns) \in DOMAIN c.turns
    BY <1>1, <1>2
  <2> QED BY <2>1 DEF InOrder, Last
<1> QED BY <1>1, <1>2, <1>3 DEF Spoken

\* A seat speaks: with the journal open the line is written too.
LEMMA TurnRounds ==
    ASSUME NEW p, NEW c \in Records, NEW open \in BOOLEAN, NEW l \in Records, NEW jr \in Journals,
           Running(p, c, open, l, jr), c.st = "running", l.st = "running",
           ~Spoken(c), c.done < Rounds,
           NEW b \in Records, b.st = c.st, b.att = c.att, b.done = c.done,
           b.turns = Append(c.turns, c.done + 1),
           NEW r \in Journals, r.ino = jr.ino, r.has = jr.has, r.ends = jr.ends,
           r.turns = Append(jr.turns, c.done + 1)
    PROVE  Running(p, b, open, l, IF open THEN r ELSE jr)
<1> DEFINE k == c.done + 1
<1>1. Adds(p, c, open, l, jr) /\ Tally(c, l, jr)
  BY RunningSays, TallyIs
<1>2. Len(c.turns) = c.done
  BY <1>1, SpokenIs DEF Adds
<1>3. k \in 1..Rounds
  BY <1>1 DEF Tally
<1>4. Len(b.turns) = c.done + 1 /\ InOrder(b.turns)
  BY <1>1, <1>2, <1>3 DEF Adds, Tally, InOrder
<1>5. CASE open
  <2>1. Len(r.turns) = Len(jr.turns) + 1
    BY <1>1, <1>3 DEF Tally
  <2>2. l.turns \o r.turns = b.turns
    <3>1. l.turns \o Append(jr.turns, k) = Append(l.turns \o jr.turns, k)
      <4> DEFINE S == 1..Rounds
      <4> DEFINE s == l.turns
                 t == jr.turns
      <4>1. s \in Seq(S) /\ t \in Seq(S) /\ k \in S
        BY <1>1, <1>3 DEF Tally
      <4> HIDE DEF S, k, s, t
      <4>2. s \o Append(t, k) = Append(s \o t, k)
        BY <4>1, AppendConcat
      <4> QED BY <4>2 DEF s, t
    <3> QED BY <1>1, <1>5, <3>1 DEF Adds
  <2>3. InOrder(l.turns \o r.turns)
    BY <1>4, <2>2
  <2>4. Len(l.turns) + Len(jr.turns) = c.done
    <3>1. Len(l.turns \o jr.turns) = Len(l.turns) + Len(jr.turns)
      BY <1>1 DEF Tally
    <3> QED BY <1>1, <1>2, <1>5, <3>1 DEF Adds
  <2>5. Running(p, b, open, l, r)
    <3> DEFINE x == Len(l.turns)
               y == Len(jr.turns)
               z == Len(r.turns)
               n == c.done
               v == Len(b.turns)
               q == b.done
               u == r.ends
    <3>1. /\ InOrder(l.turns) /\ b.att = l.att
          /\ r.has /\ r.ino = p /\ u = q
      BY <1>1, <1>5 DEF Adds
    <3>2. x \in Nat /\ y \in Nat /\ n \in Nat /\ z = y + 1 /\ x + y = n /\ q = n /\ v = n + 1
      BY <1>1, <1>4, <2>1, <2>4 DEF Tally
    <3>3. v \in {q, q + 1} /\ u <= x + z /\ x + z <= v /\ u <= q
      <4> HIDE DEF x, y, z, n, v, q, u
      <4> QED BY ONLY <3>1, <3>2
    <3>5. Adds(p, b, open, l, r)
      BY <1>4, <2>2, <2>3, <3>1, <3>3 DEF Adds
    <3> QED BY <3>5, RunningSays
  <2> QED BY <1>5, <2>5
<1>6. CASE ~open
  <2>1. Len(l.turns) + Len(jr.turns) <= Len(b.turns)
    <3> DEFINE x == Len(l.turns)
               y == Len(jr.turns)
               n == c.done
               v == Len(b.turns)
    <3>1. x + y <= n
      BY <1>1, <1>2 DEF Adds
    <3>2. x \in Nat /\ y \in Nat /\ n \in Nat /\ v = n + 1
      BY <1>1, <1>4 DEF Tally
    <3>3. x + y <= v
      <4> HIDE DEF x, y, n, v
      <4> QED BY ONLY <3>1, <3>2
    <3> QED BY <3>3
  <2>2. Running(p, b, open, l, jr)
    <3>1. Adds(p, b, open, l, jr)
      BY <1>1, <1>2, <1>4, <1>6, <2>1 DEF Adds, Tally
    <3> QED BY <3>1, RunningSays
  <2> QED BY <1>6, <2>2
<1> QED BY <1>5, <1>6

\* A round ends.
LEMMA EndRounds ==
    ASSUME NEW p, NEW c \in Records, NEW open \in BOOLEAN, NEW l \in Records, NEW jr \in Journals,
           Running(p, c, open, l, jr), c.st = "running", l.st = "running", Spoken(c),
           NEW b \in Records, b.st = c.st, b.att = c.att, b.done = c.done + 1, b.turns = c.turns,
           NEW r \in Journals, r.ino = jr.ino, r.has = jr.has, r.ends = c.done + 1, r.turns = jr.turns
    PROVE  Running(p, b, open, l, IF open THEN r ELSE jr)
<1>1. Adds(p, c, open, l, jr) /\ Tally(c, l, jr)
  BY RunningSays, TallyIs
<1>2. Len(c.turns) = c.done + 1
  BY <1>1, SpokenIs DEF Adds
<1>3. CASE open
  <2>1. Len(l.turns \o jr.turns) = Len(l.turns) + Len(jr.turns)
    BY <1>1 DEF Tally
  <2>2. Len(l.turns) + Len(jr.turns) = c.done + 1
    BY <1>1, <1>2, <1>3, <2>1 DEF Adds
  <2>3. Running(p, b, open, l, r)
    <3>1. Adds(p, b, open, l, r)
      BY <1>1, <1>2, <1>3, <2>2 DEF Adds, Tally
    <3> QED BY <3>1, RunningSays
  <2> QED BY <1>3, <2>3
<1>4. CASE ~open
  <2>1. jr.has => jr.ends <= b.done
    BY <1>1 DEF Adds, Tally
  <2>2. Len(b.turns) \in {b.done, b.done + 1}
    BY <1>2
  <2>3. Running(p, b, open, l, jr)
    <3>1. Adds(p, b, open, l, jr)
      BY <1>1, <1>4, <2>1, <2>2 DEF Adds, Tally
    <3> QED BY <3>1, RunningSays
  <2> QED BY <1>4, <2>3
<1> QED BY <1>3, <1>4

\* The journal a body opens is one.
LEMMA OpenedIs ==
    ASSUME NEW p \in Procs, NEW r \in Records
    PROVE  LET o == Opened(p, r) IN
           /\ o \in Journals
           /\ o.has /\ o.turns = <<>> /\ o.ends = r.done /\ o.ino = p
<1>1. <<>> \in Seq(1..Rounds) /\ p \in 0..MaxProc /\ r.done \in 0..Rounds /\ r.att \in BOOLEAN
  BY LedgerAssumption DEF Records
<1> QED BY <1>1 DEF Opened, Journals

\* A body begins: with a journal of its own, or without.
LEMMA EnterRounds ==
    ASSUME NEW p \in Procs, NEW c \in Records, NEW l \in Records, NEW jr \in Journals,
           c.st = "running", l.st = "running", DiskRounds(l, jr), MemoryRounds(c, FALSE, FALSE, l, jr)
    PROVE  Running(p, c, TRUE, l, Opened(p, c)) /\ Running(p, c, FALSE, l, jr)
<1>1. /\ c.turns \in Seq(1..Rounds) /\ l.turns \in Seq(1..Rounds)
      /\ c.done \in Nat /\ Len(c.turns) \in Nat /\ c.turns \o <<>> = c.turns /\ Len(<<>>) = 0
  <2>1. c.done \in 0..Rounds /\ Rounds \in Nat /\ c.turns \in Seq(1..Rounds) /\ l.turns \in Seq(1..Rounds)
    BY LedgerAssumption DEF Records
  <2> QED BY <2>1
<1>2. /\ InOrder(c.turns) /\ c.att = l.att /\ (jr.has => jr.ends <= c.done)
      /\ Len(c.turns) = c.done /\ jr.turns = <<>> /\ l.turns = c.turns
  BY DEF MemoryRounds, Shown
<1>3. jr.has => jr.ends <= Len(l.turns) + Len(jr.turns)
  BY DEF DiskRounds
<1>4. Running(p, c, FALSE, l, jr)
  <2> DEFINE open == FALSE
  <2>1. open \in BOOLEAN /\ ~open
    OBVIOUS
  <2> HIDE DEF open
  <2>2. Running(p, c, open, l, jr)
    <3>1. Adds(p, c, open, l, jr)
      BY <1>1, <1>2, <1>3, <2>1 DEF Adds, DiskRounds
    <3> QED BY <2>1, <3>1, RunningSays
  <2> QED BY <2>2 DEF open
<1>5. Running(p, c, TRUE, l, Opened(p, c))
  <2> DEFINE open == TRUE
             o == Opened(p, c)
  <2>1. open \in BOOLEAN
    OBVIOUS
  <2>2. o \in Journals /\ o.has /\ o.turns = <<>> /\ o.ends = c.done /\ o.ino = p
    BY OpenedIs
  <2> HIDE DEF open, o
  <2>3. l.turns \o o.turns = c.turns /\ Len(l.turns) + Len(o.turns) = c.done
    BY <1>1, <1>2, <2>2
  <2>4. Running(p, c, open, l, o)
    <3>1. Adds(p, c, open, l, o)
      BY <1>1, <1>2, <2>1, <2>2, <2>3 DEF Adds
    <3> QED BY <2>1, <3>1, RunningSays
  <2> QED BY <2>4 DEF open, o
<1> QED BY <1>4, <1>5

-----------------------------------------------------------------------------
(* The steps of a body.                                                    *)

LEMMA EnterStep ==
    ASSUME IInv, NEW p \in Procs, NEW j \in Jobs, Enter(p, j)
    PROVE  StepBy(p)
<1> DEFINE c == proc[p].jobs[j]
           l == disk.led[j]
           jr == disk.jr[j]
           o == Opened(p, c)
           n == [proc[p] EXCEPT !.in = @ \cup {j}]
           m == [n EXCEPT !.fd = @ \cup {j}]
           e == PutJournal(disk, j, o)
<1>1. /\ c.st = "running" /\ j \notin proc[p].in /\ UNCHANGED world
      /\ Commit(p, m, <<e>>) \/ Commit(p, n, <<disk>>)
  BY DEF Enter
<1>2. c.st \in Shown
  BY <1>1 DEF Shown
<1>3. /\ c \in Records /\ l \in Records /\ jr \in Journals
      /\ j \in proc[p].fd => j \in proc[p].in
      /\ Quiet => /\ l.st = c.st
                  /\ DiskRounds(l, jr)
                  /\ MemoryRounds(c, j \in proc[p].in, j \in proc[p].fd, l, jr)
  BY <1>2, MineIs
<1>4. (j \in proc[p].in) = FALSE /\ (j \in proc[p].fd) = FALSE
  BY <1>1, <1>3
<1>5. Quiet => Running(p, c, TRUE, l, o) /\ Running(p, c, FALSE, l, jr)
  <2> SUFFICES ASSUME Quiet PROVE Running(p, c, TRUE, l, o) /\ Running(p, c, FALSE, l, jr)
    OBVIOUS
  <2>1. l.st = "running" /\ DiskRounds(l, jr) /\ MemoryRounds(c, FALSE, FALSE, l, jr)
    BY <1>1, <1>3, <1>4
  <2> HIDE DEF c, l, jr
  <2> QED BY <1>1, <1>3, <2>1, EnterRounds
<1>6. disk \in DiskType /\ proc[p] \in Memories
  BY Before
<1>7. /\ n \in Memories /\ n.up = proc[p].up /\ n.calls = proc[p].calls /\ n.jobs = proc[p].jobs
      /\ n.in = proc[p].in \cup {j} /\ n.fd = proc[p].fd
  BY <1>6 DEF Memories
<1>8. /\ m \in Memories /\ m.up = proc[p].up /\ m.calls = proc[p].calls /\ m.jobs = proc[p].jobs
      /\ m.in = proc[p].in \cup {j} /\ m.fd = proc[p].fd \cup {j}
  BY <1>6 DEF Memories
<1>9. o \in Journals /\ o.ino = p
  BY <1>3, OpenedIs
<1> HIDE DEF o, m, n
<1>10. CASE Commit(p, m, <<e>>)
  <2>1. CommitAny(p, m, e, {})
    BY <1>10, CommittedOne
  <2>2. /\ e \in DiskType /\ e.led = disk.led /\ e.args = disk.args /\ e.jr[j] = o
        /\ \A i \in Jobs : i # j => e.jr[i] = disk.jr[i]
    BY <1>6, <1>9, PutJournalIs
  <2> HIDE DEF e
  <2>3. (j \in m.fd) = TRUE /\ m.jobs[j] = c /\ e.led[j] = l
    BY <1>8, <2>2
  <2>4. RoundsOf(p, j, m, e)
    BY <1>5, <2>2, <2>3 DEF RoundsOf
  <2>5. BodyWrites(p, j, m, e)
    BY <1>1, <1>8, <1>9, <2>2 DEF BodyWrites
  <2> QED BY <1>1, <2>1, <2>4, <2>5, BodyStep
<1>11. CASE Commit(p, n, <<disk>>)
  <2>1. CommitAny(p, n, disk, {})
    BY <1>11, CommittedOne
  <2>2. (j \in n.fd) = FALSE /\ n.jobs[j] = c
    BY <1>4, <1>7
  <2>3. RoundsOf(p, j, n, disk)
    BY <1>5, <2>2 DEF RoundsOf
  <2>4. BodyWrites(p, j, n, disk)
    BY <1>1, <1>6, <1>7 DEF BodyWrites
  <2> QED BY <1>1, <2>1, <2>3, <2>4, BodyStep
<1> QED BY <1>1, <1>10, <1>11

\* The line a body writes, where it holds the journal.
LEMMA LineIs ==
    ASSUME IInv, NEW p \in Procs, NEW j \in Jobs, NEW r \in Journals, r.ino = disk.jr[j].ino
    PROVE  LET e == Line(p, j, r) IN
           /\ e \in DiskType /\ e.led = disk.led /\ e.args = disk.args
           /\ \A i \in Jobs : i # j => e.jr[i] = disk.jr[i]
           /\ e.jr[j] = IF Holds(p, j) THEN r ELSE disk.jr[j]
           /\ e.jr[j].ino = disk.jr[j].ino
<1>1. disk \in DiskType
  BY Before
<1>2. LET e == PutJournal(disk, j, r) IN
      /\ e \in DiskType /\ e.jr[j] = r /\ e.led = disk.led /\ e.args = disk.args
      /\ \A i \in Jobs : i # j => e.jr[i] = disk.jr[i]
  BY <1>1, PutJournalIs
<1> HIDE DEF PutJournal
<1> QED BY <1>1, <1>2 DEF Line

\* A body that writes one line, b being its record in memory.
LEMMA LineStep ==
    ASSUME IInv, NEW p \in Procs, NEW j \in Jobs, j \in proc[p].in,
           NEW b \in Records, b.st = "running", b.by = proc[p].jobs[j].by,
           b.from = proc[p].jobs[j].from,
           NEW r \in Journals, r.ino = disk.jr[j].ino,
           NEW m \in Memories, m.up = proc[p].up, m.in = proc[p].in, m.fd = proc[p].fd,
           m.calls = proc[p].calls, m.jobs[j] = b,
           \A i \in Jobs : i # j => m.jobs[i] = proc[p].jobs[i],
           Quiet => Running(p, b, j \in proc[p].fd, disk.led[j],
                            IF j \in proc[p].fd THEN r ELSE disk.jr[j]),
           CommitAny(p, m, Line(p, j, r), {}), UNCHANGED world
    PROVE  StepBy(p)
<1> DEFINE e == Line(p, j, r)
<1>1. /\ e \in DiskType /\ e.led = disk.led /\ e.args = disk.args
      /\ \A i \in Jobs : i # j => e.jr[i] = disk.jr[i]
      /\ e.jr[j] = IF Holds(p, j) THEN r ELSE disk.jr[j]
      /\ e.jr[j].ino = disk.jr[j].ino
  BY LineIs
<1> HIDE DEF e
<1>2. /\ proc[p].jobs[j].st = "running"
      /\ Quiet => Running(p, proc[p].jobs[j], j \in proc[p].fd, disk.led[j], disk.jr[j])
  BY RunningIs
<1>3. Quiet => (Holds(p, j) <=> j \in proc[p].fd)
  BY <1>2 DEF Running, Holds
<1>4. RoundsOf(p, j, m, e)
  <2> SUFFICES ASSUME Quiet PROVE Running(p, m.jobs[j], j \in m.fd, e.led[j], e.jr[j])
    BY DEF RoundsOf
  <2>1. e.jr[j] = IF j \in proc[p].fd THEN r ELSE disk.jr[j]
    BY <1>1, <1>3
  <2> QED BY <1>1, <2>1
<1>5. BodyWrites(p, j, m, e)
  BY <1>1, <1>2 DEF BodyWrites
<1> QED BY <1>4, <1>5, BodyStep DEF e

LEMMA SeatedStep ==
    ASSUME IInv, NEW p \in Procs, NEW j \in Jobs, Seated(p, j)
    PROVE  StepBy(p)
<1> DEFINE c == proc[p].jobs[j]
           l == disk.led[j]
           jr == disk.jr[j]
           r == [jr EXCEPT !.pre = TRUE]
           m == proc[p]
           open == j \in proc[p].fd
<1>1. j \in proc[p].in /\ UNCHANGED world /\ Commit(p, m, <<Line(p, j, r)>>)
  BY DEF Seated
<1>2. CommitAny(p, m, Line(p, j, r), {})
  BY <1>1, CommittedOne
<1>3. /\ c.st = "running" /\ c \in Records /\ l \in Records /\ jr \in Journals /\ m \in Memories
      /\ Quiet => Running(p, c, open, l, jr)
  BY <1>1, RunningIs
<1>4. r \in Journals /\ r.ino = jr.ino /\ r.turns = jr.turns /\ r.ends = jr.ends /\ r.has = jr.has
  <2> HIDE DEF jr
  <2> QED BY <1>3 DEF Journals
<1>5. Quiet => Running(p, c, open, l, IF open THEN r ELSE jr)
  <2>1. open \in BOOLEAN
    OBVIOUS
  <2> HIDE DEF c, l, jr, r, open
  <2> QED BY <1>3, <1>4, <2>1, RunningSame
<1> HIDE DEF r
<1> QED BY <1>1, <1>2, <1>3, <1>4, <1>5, LineStep

LEMMA TurnStep ==
    ASSUME IInv, NEW p \in Procs, NEW j \in Jobs, Turn(p, j)
    PROVE  StepBy(p)
<1> DEFINE c == proc[p].jobs[j]
           l == disk.led[j]
           jr == disk.jr[j]
           k == c.done + 1
           r == [jr EXCEPT !.turns = Append(@, k)]
           b == [c EXCEPT !.turns = Append(@, k)]
           m == [proc[p] EXCEPT !.jobs[j] = b]
           open == j \in proc[p].fd
<1>a. proc[p] \in Memories
  BY Before
<1>1. /\ j \in proc[p].in /\ c.done < Rounds /\ ~Spoken(c) /\ UNCHANGED world
      /\ Commit(p, m, <<Line(p, j, r)>>)
  <2>1. m = [proc[p] EXCEPT !.jobs[j].turns = Append(@, k)]
    BY <1>a DEF Memories
  <2> QED BY <2>1 DEF Turn
<1>2. CommitAny(p, m, Line(p, j, r), {})
  BY <1>1, CommittedOne
<1>3. /\ c.st = "running" /\ c \in Records /\ l \in Records /\ jr \in Journals
      /\ Quiet => l.st = "running" /\ Running(p, c, open, l, jr)
  BY <1>1, RunningIs
<1>4. c.turns \in Seq(1..Rounds) /\ jr.turns \in Seq(1..Rounds) /\ k \in 1..Rounds
  <2> HIDE DEF c, jr, l
  <2>1. c.done \in 0..Rounds /\ Rounds \in Nat
    BY <1>3, LedgerAssumption DEF Records
  <2> QED BY <1>1, <1>3, <2>1 DEF Records, Journals
<1>5. /\ b \in Records /\ b.st = c.st /\ b.by = c.by /\ b.from = c.from /\ b.att = c.att
      /\ b.done = c.done /\ b.turns = Append(c.turns, k)
  <2> HIDE DEF c, k
  <2>1. Append(c.turns, k) \in Seq(1..Rounds)
    BY <1>4
  <2> QED BY <1>3, <2>1 DEF Records
<1>6. /\ r \in Journals /\ r.ino = jr.ino /\ r.has = jr.has /\ r.ends = jr.ends
      /\ r.turns = Append(jr.turns, k)
  <2> HIDE DEF jr, k
  <2>1. Append(jr.turns, k) \in Seq(1..Rounds)
    BY <1>4
  <2> QED BY <1>3, <2>1 DEF Journals
<1> HIDE DEF r, b
<1>7. Quiet => Running(p, b, open, l, IF open THEN r ELSE jr)
  <2>1. open \in BOOLEAN
    OBVIOUS
  <2> HIDE DEF c, l, jr, open
  <2> QED BY <1>1, <1>3, <1>5, <1>6, <2>1, TurnRounds
<1>8. /\ m \in Memories /\ m.up = proc[p].up /\ m.in = proc[p].in /\ m.fd = proc[p].fd
      /\ m.calls = proc[p].calls
      /\ m.jobs[j] = b /\ \A i \in Jobs : i # j => m.jobs[i] = proc[p].jobs[i]
  BY <1>a, <1>5, MemoryIs
<1> HIDE DEF m
<1> QED BY <1>1, <1>2, <1>3, <1>5, <1>6, <1>7, <1>8, LineStep

LEMMA RoundEndStep ==
    ASSUME IInv, NEW p \in Procs, NEW j \in Jobs, RoundEnd(p, j)
    PROVE  StepBy(p)
<1> DEFINE c == proc[p].jobs[j]
           l == disk.led[j]
           jr == disk.jr[j]
           k == c.done + 1
           r == [jr EXCEPT !.ends = k]
           b == [c EXCEPT !.done = k]
           m == [proc[p] EXCEPT !.jobs[j] = b]
           open == j \in proc[p].fd
<1>a. proc[p] \in Memories
  BY Before
<1>1. /\ j \in proc[p].in /\ Spoken(c) /\ UNCHANGED world
      /\ Commit(p, m, <<Line(p, j, r)>>)
  <2>1. m = [proc[p] EXCEPT !.jobs[j].done = @ + 1]
    BY <1>a DEF Memories
  <2> QED BY <2>1 DEF RoundEnd
<1>2. CommitAny(p, m, Line(p, j, r), {})
  BY <1>1, CommittedOne
<1>3. /\ c.st = "running" /\ c \in Records /\ l \in Records /\ jr \in Journals
      /\ Quiet => l.st = "running" /\ Running(p, c, open, l, jr)
  BY <1>1, RunningIs
<1>4. k \in 0..Rounds
  <2> HIDE DEF c, jr, l
  <2>1. c.done \in 0..Rounds /\ Rounds \in Nat /\ c.turns \in Seq(1..Rounds)
    BY <1>3, LedgerAssumption DEF Records
  <2>2. Len(c.turns) \in DOMAIN c.turns
    BY <1>1, <2>1 DEF Spoken
  <2>3. c.turns[Len(c.turns)] \in 1..Rounds
    BY <2>1, <2>2
  <2> QED BY <1>1, <2>1, <2>3 DEF Spoken, Last
<1>5. /\ b \in Records /\ b.st = c.st /\ b.by = c.by /\ b.from = c.from /\ b.att = c.att
      /\ b.done = k /\ b.turns = c.turns
  <2> HIDE DEF c, k
  <2> QED BY <1>3, <1>4 DEF Records
<1>6. /\ r \in Journals /\ r.ino = jr.ino /\ r.has = jr.has /\ r.ends = k /\ r.turns = jr.turns
  <2> HIDE DEF jr, k
  <2> QED BY <1>3, <1>4 DEF Journals
<1> HIDE DEF r, b
<1>7. Quiet => Running(p, b, open, l, IF open THEN r ELSE jr)
  <2>1. open \in BOOLEAN
    OBVIOUS
  <2> HIDE DEF c, l, jr, open
  <2> QED BY <1>1, <1>3, <1>5, <1>6, <2>1, EndRounds
<1>8. /\ m \in Memories /\ m.up = proc[p].up /\ m.in = proc[p].in /\ m.fd = proc[p].fd
      /\ m.calls = proc[p].calls
      /\ m.jobs[j] = b /\ \A i \in Jobs : i # j => m.jobs[i] = proc[p].jobs[i]
  BY <1>a, <1>5, MemoryIs
<1> HIDE DEF m
<1> QED BY <1>1, <1>2, <1>3, <1>5, <1>6, <1>7, <1>8, LineStep

LEMMA JournalFailsStep ==
    ASSUME IInv, NEW p \in Procs, NEW j \in Jobs, JournalFails(p, j)
    PROVE  StepBy(p)
<1> DEFINE c == proc[p].jobs[j]
           m == [proc[p] EXCEPT !.fd = @ \ {j}]
<1>1. j \in proc[p].fd /\ proc' = [proc EXCEPT ![p] = m] /\ disk' = disk /\ UNCHANGED world
  <2>1. proc \in [Procs -> Memories]
    BY Before
  <2> QED BY <2>1 DEF JournalFails, world
<1>2. CommitAny(p, m, disk, {})
  BY <1>1 DEF CommitAny
<1>3. j \in proc[p].in
  <2>1. Bodies(proc[p])
    BY Before DEF Own
  <2> QED BY <1>1, <2>1 DEF Bodies
<1>4. /\ c.st = "running" /\ proc[p] \in Memories /\ disk \in DiskType
      /\ Quiet => Running(p, c, j \in proc[p].fd, disk.led[j], disk.jr[j])
  BY <1>3, RunningIs
<1>5. /\ m \in Memories /\ m.up = proc[p].up /\ m.calls = proc[p].calls /\ m.jobs = proc[p].jobs
      /\ m.in = proc[p].in /\ m.fd = proc[p].fd \ {j}
  BY <1>4 DEF Memories
<1> HIDE DEF m
<1>6. (j \in m.fd) = FALSE
  BY <1>5
<1>7. RoundsOf(p, j, m, disk)
  BY <1>4, <1>5, <1>6 DEF RoundsOf, Running, MemoryRounds
<1>8. BodyWrites(p, j, m, disk)
  BY <1>3, <1>4, <1>5 DEF BodyWrites
<1> QED BY <1>1, <1>2, <1>7, <1>8, BodyStep

-----------------------------------------------------------------------------
(* Requests that wait, and the end of a process.                           *)

LEMMA DieStep ==
    ASSUME IInv, NEW p \in Procs, Die(p)
    PROVE  StepBy(p)
<1>1. proc[p].up \in {"up", "closing"} /\ proc' = [proc EXCEPT ![p] = Off("dead")]
      /\ disk' = disk /\ UNCHANGED world
  BY DEF Die, world
<1>2. proc \in [Procs -> Memories]
  BY Before
<1>3. proc'[p] = Off("dead") /\ (\A q \in Procs : q # p => proc'[q] = proc[q])
      /\ proc' \in [Procs -> Memories]
  BY <1>1, <1>2, OffType
<1>4. Follows(p, Off("dead"))
  BY OffType DEF Follows, Off
<1>5. Own(p, proc'[p], disk')
  BY <1>3, DeadOwn
<1>6. Fits(p, disk')
  BY <1>1, FitsSame
<1>7. Acts(p)
  BY <1>1 DEF Acts
<1> QED BY <1>1, <1>3, <1>4, <1>5, <1>6, <1>7 DEF StepBy

\* A step that changes the memory of p only, but no job.
LEMMA MemoryStep ==
    ASSUME IInv, NEW p \in Procs, NEW m, proc' = [proc EXCEPT ![p] = m], disk' = disk,
           UNCHANGED world, Acts(p), Follows(p, m), Own(p, m, disk)
    PROVE  StepBy(p)
<1>1. CommitAny(p, m, disk, {})
  BY DEF CommitAny
<1> QED BY <1>1, FitsSame, Committed

LEMMA ExitSignalStep ==
    ASSUME IInv, NEW p \in Procs, ExitSignal(p)
    PROVE  StepBy(p)
<1> DEFINE m == [proc[p] EXCEPT !.up = "closing"]
<1>1. /\ proc \in [Procs -> Memories] /\ proc[p] \in Memories /\ Own(p, proc[p], disk)
      /\ ~asks => proc[p].calls = <<>>
  BY Before
<1>2. /\ proc[p].up = "up" /\ proc' = [proc EXCEPT ![p] = m]
      /\ disk' = disk /\ UNCHANGED world
  BY <1>1 DEF ExitSignal, world
<1>3. /\ m \in Memories /\ m.up = "closing" /\ m.jobs = proc[p].jobs /\ m.in = proc[p].in
      /\ m.fd = proc[p].fd /\ m.calls = proc[p].calls
  BY <1>1 DEF Memories
<1> HIDE DEF m
<1>4. Own(p, m, disk)
  <2>1. ASSUME NEW j \in Jobs PROVE OwnAt(p, m, disk, j)
    <3>1. OwnAt(p, proc[p], disk, j)
      BY <1>1, OwnIs
    <3> QED BY <1>2, <1>3, <3>1 DEF OwnAt, OwnRec
  <2>2. \A i \in DOMAIN m.calls : IsCopy(m.calls[i], disk)
    BY <1>3, FitsSame, CallsKept
  <2> QED BY <2>1, <2>2, OwnIs
<1>5. Follows(p, m)
  BY <1>1, <1>2, <1>3 DEF Follows, Closes
<1>6. Acts(p)
  BY <1>2 DEF Acts
<1> QED BY <1>2, <1>4, <1>5, <1>6, MemoryStep

LEMMA ContinueAskStep ==
    ASSUME IInv, NEW p \in Procs, NEW j \in Jobs, ContinueAsk(p, j)
    PROVE  StepBy(p)
<1> DEFINE c == [j |-> j, prev |-> disk.led[j]]
           s == proc[p].calls
           m == [proc[p] EXCEPT !.calls = Append(s, c)]
<1>1. /\ proc \in [Procs -> Memories] /\ proc[p] \in Memories /\ Own(p, proc[p], disk)
      /\ disk.led \in [Jobs -> Records]
  BY Before
<1>2. /\ asks /\ proc[p].up = "up" /\ Continuable(disk.led[j])
      /\ proc' = [proc EXCEPT ![p] = m] /\ disk' = disk /\ UNCHANGED world
  <2>1. m = [proc[p] EXCEPT !.calls = Append(@, c)]
    OBVIOUS
  <2> QED BY <1>1, <2>1 DEF ContinueAsk, world
<1>3. c \in CallType /\ c.j = j /\ c.prev = disk.led[j]
  BY <1>1 DEF CallType
<1>4. s \in Seq(CallType)
  BY <1>1 DEF Memories, CallType
<1> HIDE DEF c, s
<1>5. Append(s, c) \in Seq(CallType)
  BY <1>3, <1>4
<1>6. /\ m \in Memories /\ m.up = proc[p].up /\ m.jobs = proc[p].jobs /\ m.in = proc[p].in
      /\ m.fd = proc[p].fd /\ m.calls = Append(s, c)
  BY <1>1, <1>5 DEF Memories, CallType
<1> HIDE DEF m
<1>7. \A i \in DOMAIN m.calls : IsCopy(m.calls[i], disk)
  <2> TAKE i \in DOMAIN m.calls
  <2>1. CASE i \in DOMAIN s
    <3>1. IsCopy(s[i], disk)
      BY <1>1, <2>1 DEF Own, Copies, s
    <3>2. m.calls[i] = s[i]
      BY <1>3, <1>4, <1>6, <2>1
    <3> QED BY <3>1, <3>2
  <2>2. CASE i \notin DOMAIN s
    <3>1. m.calls[i] = c
      BY <1>3, <1>4, <1>6, <2>2
    <3>2. IsCopy(c, disk)
      BY <1>2, <1>3 DEF IsCopy, Continuable
    <3> QED BY <3>1, <3>2
  <2> QED BY <2>1, <2>2
<1>8. Own(p, m, disk)
  <2>1. ASSUME NEW i \in Jobs PROVE OwnAt(p, m, disk, i)
    <3>1. OwnAt(p, proc[p], disk, i)
      BY <1>1, OwnIs
    <3> QED BY <1>6, <3>1 DEF OwnAt
  <2> QED BY <1>7, <2>1, OwnIs
<1>9. Follows(p, m)
  BY <1>2, <1>6 DEF Follows, Closes
<1>10. Acts(p)
  BY <1>2 DEF Acts
<1> QED BY <1>2, <1>8, <1>9, <1>10, MemoryStep

\* The rounds on the disk once a job has ended or been cut, its record
\* written with the turns it has in memory.
LEMMA EndedRounds ==
    ASSUME NEW c \in Records, NEW run, NEW open, NEW l \in Records, NEW jr \in Journals,
           run \in BOOLEAN, open \in BOOLEAN,
           c.st \in Shown, DiskRounds(l, jr), MemoryRounds(c, run, open, l, jr),
           NEW s \in Records, s.turns = c.turns, s.st \in Over \cup {"interrupted"}
    PROVE  DiskRounds(s, jr)
<1>1. /\ InOrder(c.turns) /\ (jr.has => jr.ends <= c.done) /\ (~jr.has => jr.turns = <<>>)
      /\ Len(c.turns) \in {c.done, c.done + 1}
  BY DEF MemoryRounds, DiskRounds
<1>2. Tally(c, l, jr)
  BY TallyIs
<1>3. jr.has => jr.ends <= Len(s.turns) /\ jr.ends <= Len(s.turns) + Len(jr.turns)
  <2> DEFINE n == c.done
             v == Len(s.turns)
             x == jr.ends
             y == Len(jr.turns)
  <2>1. /\ v \in {n, n + 1} /\ n \in Nat /\ x \in Nat /\ y \in Nat
        /\ jr.has => x <= n
    BY <1>1, <1>2 DEF Tally
  <2>2. jr.has => x <= v /\ x <= v + y
    <3> HIDE DEF n, v, x, y
    <3> QED BY <2>1
  <2> QED BY <2>2
<1> QED BY <1>1, <1>3 DEF DiskRounds, Over

LEMMA ShutdownStep ==
    ASSUME IInv, NEW p \in Procs, Shutdown(p)
    PROVE  StepBy(p)
<1> DEFINE mine == {j \in Jobs : proc[p].jobs[j].st = "running" /\ ~ClosedElsewhere(p, j)}
           rec(j) == Stamped(p, [proc[p].jobs[j] EXCEPT !.st = "interrupted"])
           cut(S) == [disk EXCEPT !.led = [j \in Jobs |-> IF j \in S THEN rec(j) ELSE disk.led[j]]]
           cuts == {cut(S) : S \in SUBSET mine}
<1>1. proc[p].up = "closing" /\ UNCHANGED world /\ CommitAny(p, Off("dead"), cut(mine), cuts)
  BY DEF Shutdown
<1>2. /\ disk \in DiskType /\ proc[p] \in Memories /\ DiskTalk(disk)
      /\ \A j \in Jobs : HasHeir(disk, j)
  BY Before
<1>3. ASSUME NEW S \in SUBSET mine PROVE Fits(p, cut(S))
  <2> DEFINE d == cut(S)
  <2>1. ASSUME NEW j \in mine
        PROVE  LET r == rec(j) IN
               /\ r \in Records
               /\ r.st = "interrupted" /\ r.by = NoJob /\ r.from = disk.led[j].from /\ r.w = p
               /\ ~asks => disk.led[j].w = p /\ disk.led[j].st = "running"
               /\ Quiet => DiskRounds(r, disk.jr[j])
    <3> DEFINE c == proc[p].jobs[j]
               r == [c EXCEPT !.st = "interrupted"]
    <3>1. c.st = "running" /\ c.st \in Shown /\ ~ClosedElsewhere(p, j)
      BY DEF Shown
    <3>2. /\ c \in Records /\ disk.led[j] \in Records /\ disk.jr[j] \in Journals
          /\ c.by = NoJob /\ disk.led[j].st # "none" /\ c.from = disk.led[j].from
          /\ ~asks /\ disk.led[j].w = p => disk.led[j].st = c.st
          /\ Quiet => /\ DiskRounds(disk.led[j], disk.jr[j])
                      /\ MemoryRounds(c, j \in proc[p].in, j \in proc[p].fd, disk.led[j], disk.jr[j])
      BY <3>1, MineIs
    <3>3. /\ r \in Records /\ r.st = "interrupted" /\ r.turns = c.turns /\ r.by = c.by
          /\ r.from = c.from
      BY <3>2, RestatusIs DEF Statuses
    <3> HIDE DEF r
    <3>4. LET s == Stamped(p, r) IN
          /\ s \in Records
          /\ s.st = r.st /\ s.turns = r.turns /\ s.by = r.by /\ s.from = r.from /\ s.w = p
      BY <3>3, StampedIs
    <3>5. disk.led[j].w = p
      BY <3>1, <3>2 DEF ClosedElsewhere
    <3>6. Quiet => DiskRounds(Stamped(p, r), disk.jr[j])
      <4> DEFINE run == j \in proc[p].in
                 open == j \in proc[p].fd
      <4>1. run \in BOOLEAN /\ open \in BOOLEAN
        OBVIOUS
      <4>2. Stamped(p, r).st \in Over \cup {"interrupted"}
        BY <3>3, <3>4
      <4> HIDE DEF run, open
      <4> QED BY <3>1, <3>2, <3>3, <3>4, <4>1, <4>2, EndedRounds DEF run, open
    <3>7. rec(j) = Stamped(p, r)
      BY DEF r
    <3> QED BY <3>1, <3>2, <3>3, <3>4, <3>5, <3>6, <3>7
  <2> HIDE DEF rec, mine
  <2>a. S \subseteq mine /\ mine \subseteq Jobs
    BY DEF mine
  <2>2. /\ d.args = disk.args /\ d.jr = disk.jr
        /\ \A j \in Jobs : d.led[j] = IF j \in S THEN rec(j) ELSE disk.led[j]
        /\ d \in DiskType
    <3>1. [j \in Jobs |-> IF j \in S THEN rec(j) ELSE disk.led[j]] \in [Jobs -> Records]
      BY <1>2, <2>1, <2>a DEF DiskType
    <3> QED BY <1>2, <3>1 DEF DiskType
  <2> HIDE DEF d
  <2>3. ASSUME NEW j \in Jobs PROVE d.led[j] = disk.led[j] \/ Written(p, j, d)
    <3>1. CASE j \notin S
      BY <2>2, <3>1
    <3>2. CASE j \in S
      <4>1. /\ d.led[j].st = "interrupted" /\ d.led[j].by = NoJob
            /\ d.led[j].from = disk.led[j].from /\ d.led[j].w = p
            /\ ~asks => disk.led[j].w = p /\ disk.led[j].st = "running"
        BY <2>1, <2>2, <2>a, <3>2
      <4>2. disk.led[j].st = "running" => disk.led[j].by = NoJob
        BY <1>2 DEF HasHeir
      <4> QED BY <4>1, <4>2 DEF Written, HasHeir, Shown, Over
    <3> QED BY <3>1, <3>2
  <2>4. DiskTalk(d)
    <3> SUFFICES ASSUME Quiet, NEW j \in Jobs PROVE DiskRounds(d.led[j], d.jr[j])
      BY DEF DiskTalk
    <3>1. DiskRounds(disk.led[j], disk.jr[j])
      BY <1>2 DEF DiskTalk
    <3> QED BY <2>1, <2>2, <2>a, <3>1
  <2>5. Fits(p, d)
    BY <2>2, <2>3, <2>4 DEF Fits
  <2> QED BY <2>5 DEF d
<1>4. Follows(p, Off("dead"))
  BY OffType DEF Follows, Off
<1>5. Acts(p)
  BY <1>1 DEF Acts
<1> HIDE DEF rec, mine
<1>6. Fits(p, cut(mine)) /\ \A d \in cuts : Fits(p, d)
  BY <1>3
<1> HIDE DEF cut, cuts
<1>7. Own(p, Off("dead"), cut(mine))
  BY DeadOwn
<1> QED BY <1>1, <1>4, <1>5, <1>6, <1>7, Committed

-----------------------------------------------------------------------------
(* The end of a job.                                                       *)

\* The memory without a body of j.
LEMMA GoneIs ==
    ASSUME IInv, NEW p \in Procs, NEW j \in Jobs, NEW r \in Records
    PROVE  LET m == Gone(p, j, r) IN
           /\ m \in Memories /\ m.up = proc[p].up /\ m.calls = proc[p].calls
           /\ m.jobs[j] = r /\ j \notin m.in /\ j \notin m.fd
           /\ \A i \in Jobs : i # j => /\ m.jobs[i] = proc[p].jobs[i]
                                       /\ i \in m.in <=> i \in proc[p].in
                                       /\ i \in m.fd <=> i \in proc[p].fd
<1>1. proc[p] \in Memories
  BY Before
<1>2. Gone(p, j, r) = [[[proc[p] EXCEPT !.jobs[j] = r] EXCEPT !.in = @ \ {j}] EXCEPT !.fd = @ \ {j}]
  BY DEF Gone
<1> DEFINE n == [proc[p] EXCEPT !.jobs[j] = r]
<1>3. /\ n \in Memories
      /\ n.up = proc[p].up /\ n.in = proc[p].in /\ n.fd = proc[p].fd /\ n.calls = proc[p].calls
      /\ n.jobs[j] = r /\ \A i \in Jobs : i # j => n.jobs[i] = proc[p].jobs[i]
  BY <1>1, MemoryIs
<1> HIDE DEF n
<1>4. LET m == [[n EXCEPT !.in = @ \ {j}] EXCEPT !.fd = @ \ {j}] IN
      /\ m \in Memories /\ m.up = n.up /\ m.calls = n.calls /\ m.jobs = n.jobs
      /\ m.in = n.in \ {j} /\ m.fd = n.fd \ {j}
  BY <1>3 DEF Memories
<1>5. Gone(p, j, r) = [[n EXCEPT !.in = @ \ {j}] EXCEPT !.fd = @ \ {j}]
  BY <1>2 DEF n
<1> QED BY <1>3, <1>4, <1>5

\* Job j of p, which ends as st.
Ends(p, j, st) ==
    /\ proc[p].jobs[j].st \in Shown /\ st \in Over
    /\ proc[p].up = "up" \/ ~ClosedElsewhere(p, j)

EndRec(p, j, st) == [proc[p].jobs[j] EXCEPT !.st = st]

LEMMA EndRecIs ==
    ASSUME IInv, NEW p \in Procs, NEW j \in Jobs, NEW st, proc[p].jobs[j].st \in Shown, st \in Over
    PROVE  LET r == EndRec(p, j, st)
               s == Stamped(p, r)
           IN
           /\ r \in Records /\ r.st = st /\ r.by = NoJob /\ r.from = disk.led[j].from
           /\ s \in Records /\ s.st = st /\ s.from = r.from
           /\ Quiet => /\ InOrder(r.turns)
                       /\ DiskRounds(s, disk.jr[j]) /\ DiskRounds(s, NoJournal)
<1> DEFINE c == proc[p].jobs[j]
           r == EndRec(p, j, st)
           s == Stamped(p, r)
           l == disk.led[j]
           jr == disk.jr[j]
           run == j \in proc[p].in
           open == j \in proc[p].fd
<1>1. /\ c \in Records /\ l \in Records /\ jr \in Journals
      /\ c.by = NoJob /\ c.from = l.from
      /\ Quiet => DiskRounds(l, jr) /\ MemoryRounds(c, run, open, l, jr)
  BY MineIs
<1>2. /\ r \in Records /\ r.st = st /\ r.turns = c.turns /\ r.by = c.by /\ r.from = c.from
  <2>1. st \in Statuses
    BY DEF Over, Statuses
  <2> HIDE DEF c
  <2>2. LET x == [c EXCEPT !.st = st] IN
        x \in Records /\ x.st = st /\ x.turns = c.turns /\ x.by = c.by /\ x.from = c.from
    BY <1>1, <2>1, RestatusIs
  <2>3. r = [c EXCEPT !.st = st]
    BY DEF EndRec, c
  <2> QED BY <2>2, <2>3
<1> HIDE DEF r
<1>3. s \in Records /\ s.st = st /\ s.turns = c.turns /\ s.from = r.from
  BY <1>2, StampedIs
<1> HIDE DEF s
<1>4. Quiet => DiskRounds(s, jr)
  <2>1. run \in BOOLEAN /\ open \in BOOLEAN /\ s.st \in Over \cup {"interrupted"} /\ c.st \in Shown
    BY <1>3
  <2> HIDE DEF run, open, c, l, jr
  <2> QED BY <1>1, <1>3, <2>1, EndedRounds
<1>5. Quiet => DiskRounds(s, NoJournal)
  <2>1. s.st # "running"
    BY <1>3 DEF Over
  <2> QED BY <1>1, <1>3, <1>4, <2>1, RoundsGone
<1>6. Quiet => InOrder(r.turns)
  BY <1>1, <1>2 DEF MemoryRounds
<1> QED BY <1>1, <1>2, <1>3, <1>4, <1>5, <1>6 DEF r, s

\* The files of a job are dropped from a disk that fits.
LEMMA FitsDropped ==
    ASSUME IInv, NEW p \in Procs, NEW j \in Jobs, NEW d, Fits(p, d), MayGo(p, j, d),
           Quiet => DiskRounds(d.led[j], NoJournal)
    PROVE  Fits(p, PutArgs(d, j, FALSE)) /\ Fits(p, Dropped(d, j))
<1> DEFINE b == FALSE
           a == PutArgs(d, j, b)
<1>1. b \in BOOLEAN /\ d \in DiskType
  BY DEF Fits
<1> HIDE DEF b
<1>2. Fits(p, a)
  BY <1>1, FitsArgs
<1>3. a.led = d.led
  BY <1>1, PutArgsIs
<1> HIDE DEF a
<1>4. NoJournal.ino = 0 /\ NoJournal \in Journals
  BY NoJournalType DEF NoJournal
<1>5. NoJournal.ino \in {0, p, disk.jr[j].ino} /\ (Quiet => DiskRounds(a.led[j], NoJournal))
  BY <1>3, <1>4
<1>6. Fits(p, PutJournal(a, j, NoJournal))
  BY <1>2, <1>4, <1>5, FitsJournal
<1>7. PutArgs(d, j, FALSE) = a /\ Dropped(d, j) = PutJournal(a, j, NoJournal)
  BY DEF a, b, Dropped
<1> QED BY <1>2, <1>6, <1>7

\* The end is written: no file of the job is left.
LEMMA OwnEnded ==
    ASSUME IInv, NEW p \in Procs, NEW j \in Jobs, NEW st, Ends(p, j, st),
           NEW d, Fits(p, d), d.led[j] = Stamped(p, EndRec(p, j, st)), ~d.args[j], d.jr[j] = NoJournal,
           \A i \in Jobs : i # j => d.led[i] = disk.led[i] /\ d.args[i] = disk.args[i] /\ d.jr[i] = disk.jr[i]
    PROVE  Own(p, Gone(p, j, EndRec(p, j, st)), d)
<1> DEFINE r == EndRec(p, j, st)
           m == Gone(p, j, r)
           s == Stamped(p, r)
<1>1. /\ r \in Records /\ r.st = st /\ r.by = NoJob
      /\ s.st = st /\ s.from = r.from /\ st \in Over
      /\ Quiet => InOrder(r.turns)
  BY EndRecIs DEF Ends
<1> HIDE DEF r
<1>2. /\ m.up = proc[p].up /\ m.calls = proc[p].calls
      /\ m.jobs[j] = r /\ j \notin m.in /\ j \notin m.fd
      /\ \A i \in Jobs : i # j => /\ m.jobs[i] = proc[p].jobs[i]
                                  /\ i \in m.in <=> i \in proc[p].in
                                  /\ i \in m.fd <=> i \in proc[p].fd
  BY <1>1, GoneIs
<1> HIDE DEF m
<1>3. d.led[j] = s
  BY DEF r
<1> HIDE DEF s
<1>4. st \notin Shown /\ st # "none" /\ st # "interrupted" /\ st # "running" /\ ~NoJournal.has
  BY <1>1 DEF Over, Shown, NoJournal
<1>5. Quiet => MemoryRounds(r, FALSE, FALSE, s, NoJournal)
  BY <1>1, <1>4 DEF MemoryRounds
<1>6. OwnAt(p, m, d, j)
  <2>1. (j \in m.in) = FALSE /\ (j \in m.fd) = FALSE
    BY <1>2
  <2> QED BY <2>1,<1>1, <1>2, <1>3, <1>4, <1>5 DEF OwnAt, OwnRec
<1>7. \A i \in DOMAIN m.calls : IsCopy(m.calls[i], d)
  BY <1>2, CallsKept
<1>8. Own(p, m, d)
  BY <1>2, <1>6, <1>7, OwnChangedOne
<1> QED BY <1>8 DEF m, r

\* The end is not written: another process has the job.
LEMMA OwnElsewhere ==
    ASSUME IInv, NEW p \in Procs, NEW j \in Jobs, NEW st, proc[p].jobs[j].st \in Shown, st \in Over,
           ClosedElsewhere(p, j)
    PROVE  Own(p, Gone(p, j, EndRec(p, j, st)), disk)
<1> DEFINE r == EndRec(p, j, st)
           m == Gone(p, j, r)
           l == disk.led[j]
<1>1. /\ r \in Records /\ r.st = st /\ r.by = NoJob /\ r.from = l.from
      /\ Quiet => InOrder(r.turns)
  BY EndRecIs
<1> HIDE DEF r
<1>2. /\ m.up = proc[p].up /\ m.calls = proc[p].calls
      /\ m.jobs[j] = r /\ j \notin m.in /\ j \notin m.fd
      /\ \A i \in Jobs : i # j => /\ m.jobs[i] = proc[p].jobs[i]
                                  /\ i \in m.in <=> i \in proc[p].in
                                  /\ i \in m.fd <=> i \in proc[p].fd
  BY <1>1, GoneIs
<1> HIDE DEF m
<1>3. OwnAt(p, proc[p], disk, j)
  BY Before, OwnIs
<1>4. st \notin Shown /\ st # "none" /\ st # "interrupted" /\ st # "running"
  BY DEF Over, Shown
<1>5. Quiet => MemoryRounds(r, FALSE, FALSE, l, disk.jr[j])
  BY <1>1, <1>4 DEF MemoryRounds
<1>6. l.st # "none" /\ l.w # p
  BY DEF ClosedElsewhere
<1>7. OwnAt(p, m, disk, j)
  <2>1. (j \in m.in) = FALSE /\ (j \in m.fd) = FALSE
    BY <1>2
  <2> QED BY <2>1,<1>1, <1>2, <1>3, <1>4, <1>5, <1>6 DEF OwnAt, OwnRec
<1>8. \A i \in DOMAIN m.calls : IsCopy(m.calls[i], disk)
  BY <1>2, FitsSame, CallsKept
<1>9. Own(p, m, disk)
  BY <1>2, <1>7, <1>8, OwnChangedOne
<1> QED BY <1>9 DEF m, r

\* The memory after an end follows.
LEMMA EndFollows ==
    ASSUME IInv, NEW p \in Procs, NEW j \in Jobs, NEW st, proc[p].jobs[j].st \in Shown, st \in Over
    PROVE  Follows(p, Gone(p, j, EndRec(p, j, st))) /\ Acts(p)
<1> DEFINE r == EndRec(p, j, st)
           m == Gone(p, j, r)
<1>1. r \in Records
  BY EndRecIs
<1> HIDE DEF r
<1>2. m \in Memories /\ m.up = proc[p].up /\ m.calls = proc[p].calls
  BY <1>1, GoneIs
<1>3. proc[p].up \in {"up", "closing"} /\ Acts(p) /\ (~asks => proc[p].calls = <<>>)
  BY MineIs, Before
<1> HIDE DEF m
<1>4. Follows(p, m)
  BY <1>2, <1>3, FollowsIs
<1> QED BY <1>3, <1>4 DEF m, r

\* The writes of an end: the ledger, the arguments, the journal.
LEMMA EndWritten ==
    ASSUME IInv, NEW p \in Procs, NEW j \in Jobs, NEW st, Ends(p, j, st), UNCHANGED world,
           LET r == EndRec(p, j, st)
               d == PutRecord(disk, p, j, r)
           IN  Commit(p, Gone(p, j, r), <<d, PutArgs(d, j, FALSE), Dropped(d, j)>>)
    PROVE  StepBy(p)
<1> DEFINE r == EndRec(p, j, st)
           d == PutRecord(disk, p, j, r)
           e == Dropped(d, j)
           a == PutArgs(d, j, FALSE)
           m == Gone(p, j, r)
<1>1. CommitAny(p, m, e, {d, a})
  BY CommittedThree
<1>2. proc[p].jobs[j].st \in Shown /\ st \in Over
  BY DEF Ends
<1>3. /\ r \in Records
      /\ Stamped(p, r).st = st
      /\ Quiet => DiskRounds(Stamped(p, r), disk.jr[j]) /\ DiskRounds(Stamped(p, r), NoJournal)
  BY <1>2, EndRecIs
<1>4. Fits(p, d)
  <2>1. Quiet => DiskRounds(Stamped(p, [proc[p].jobs[j] EXCEPT !.st = st]), disk.jr[j])
    BY <1>3 DEF EndRec
  <2>2. Fits(p, PutRecord(disk, p, j, [proc[p].jobs[j] EXCEPT !.st = st]))
    BY <1>2, <2>1, FitsSame, FitsMine DEF Ends
  <2> QED BY <2>2 DEF EndRec
<1>5. disk \in DiskType
  BY Before
<1> HIDE DEF r
<1>6. /\ d \in DiskType /\ d.led[j] = Stamped(p, r) /\ d.args = disk.args /\ d.jr = disk.jr
      /\ \A i \in Jobs : i # j => d.led[i] = disk.led[i]
  BY <1>3, <1>5, PutRecordIs
<1> HIDE DEF d
<1>7. MayGo(p, j, d)
  BY <1>2, <1>3, <1>6 DEF MayGo
<1>8. Fits(p, a) /\ Fits(p, e)
  BY <1>3, <1>4, <1>6, <1>7, FitsDropped
<1>9. /\ ~e.args[j] /\ e.jr[j] = NoJournal /\ e.led = d.led
      /\ \A i \in Jobs : i # j => e.args[i] = d.args[i] /\ e.jr[i] = d.jr[i]
  BY <1>6, DroppedIs
<1> HIDE DEF e, a
<1>10. Own(p, m, e)
  BY <1>6, <1>8, <1>9, OwnEnded DEF r
<1>11. Follows(p, m) /\ Acts(p)
  BY <1>2, EndFollows DEF r
<1> HIDE DEF m
<1> QED BY <1>1, <1>4, <1>8, <1>10, <1>11, Committed

LEMMA ElsewhereStep ==
    ASSUME IInv, NEW p \in Procs, NEW j \in Jobs, NEW st, proc[p].jobs[j].st \in Shown, st \in Over,
           ClosedElsewhere(p, j), UNCHANGED world,
           Commit(p, Gone(p, j, EndRec(p, j, st)), <<disk>>)
    PROVE  StepBy(p)
<1> DEFINE m == Gone(p, j, EndRec(p, j, st))
<1>1. CommitAny(p, m, disk, {})
  BY CommittedOne
<1>2. Own(p, m, disk) /\ Follows(p, m) /\ Acts(p)
  BY OwnElsewhere, EndFollows
<1> HIDE DEF m
<1> QED BY <1>1, <1>2, FitsSame, Committed

\* The finally of a run.
LEMMA EndStep ==
    ASSUME IInv, NEW p \in Procs, NEW j \in Jobs, NEW st, proc[p].jobs[j].st \in Shown, st \in Over,
           End(p, j, st), UNCHANGED world
    PROVE  StepBy(p)
<1>1. CASE ClosedElsewhere(p, j)
  <2>1. Commit(p, Gone(p, j, EndRec(p, j, st)), <<disk>>)
    BY <1>1 DEF End, EndRec
  <2> QED BY <1>1, <2>1, ElsewhereStep
<1>2. CASE ~ClosedElsewhere(p, j)
  <2>1. LET r == EndRec(p, j, st)
            d == PutRecord(disk, p, j, r)
        IN  Commit(p, Gone(p, j, r), <<d, PutArgs(d, j, FALSE), Dropped(d, j)>>)
    BY <1>2 DEF End, EndRec
  <2>2. Ends(p, j, st)
    BY <1>2 DEF Ends
  <2> QED BY <2>1, <2>2, EndWritten
<1> QED BY <1>1, <1>2

\* A job that never ran loses its files first.
LEMMA DropsFirstStep ==
    ASSUME IInv, NEW p \in Procs, NEW j \in Jobs, NEW st, proc[p].jobs[j].st = "running", st \in Over,
           j \notin proc[p].in, DropsFirst(p, j, EndRec(p, j, st)), UNCHANGED world
    PROVE  StepBy(p)
<1> DEFINE r == EndRec(p, j, st)
           m == Gone(p, j, r)
           a == PutArgs(disk, j, FALSE)
           d == Dropped(disk, j)
           e == PutRecord(d, p, j, r)
<1>1. proc[p].jobs[j].st \in Shown
  BY DEF Shown
<1>2. CASE ClosedElsewhere(p, j)
  <2>1. Commit(p, m, <<disk>>)
    BY <1>2 DEF DropsFirst
  <2> QED BY <1>1, <1>2, <2>1, ElsewhereStep
<1>3. CASE ~ClosedElsewhere(p, j)
  <2>1. CommitAny(p, m, e, {a, d})
    <3>1. Commit(p, m, <<a, d, e>>)
      BY <1>3 DEF DropsFirst
    <3> QED BY <3>1, CommittedThree
  <2>2. Ends(p, j, st)
    BY <1>1, <1>3 DEF Ends
  <2>3. /\ r \in Records
        /\ Quiet => DiskRounds(Stamped(p, r), NoJournal)
    BY <1>1, EndRecIs
  <2>4. /\ disk \in DiskType /\ disk.led \in [Jobs -> Records] /\ disk.jr \in [Jobs -> Journals]
        /\ Quiet => DiskRounds(disk.led[j], disk.jr[j])
    BY Before DEF DiskTalk
  <2>5. Quiet => DiskRounds(disk.led[j], NoJournal)
    <3>1. disk.led[j] \in Records /\ disk.jr[j] \in Journals
      BY <2>4
    <3>2. Quiet => InOrder(disk.led[j].turns)
      BY <2>4 DEF DiskRounds
    <3> QED BY <2>4, <3>1, <3>2, RoundsGone
  <2>6. MayGo(p, j, disk)
    BY DEF MayGo
  <2>7. Fits(p, a) /\ Fits(p, d)
    BY <2>5, <2>6, FitsSame, FitsDropped
  <2>8. /\ d \in DiskType /\ ~d.args[j] /\ d.jr[j] = NoJournal /\ d.led = disk.led
        /\ \A i \in Jobs : i # j => d.args[i] = disk.args[i] /\ d.jr[i] = disk.jr[i]
    BY <2>4, DroppedIs
  <2> HIDE DEF a, d
  <2>9. Fits(p, e)
    <3>1. Quiet => DiskRounds(Stamped(p, [proc[p].jobs[j] EXCEPT !.st = st]), d.jr[j])
      BY <2>3, <2>8 DEF EndRec
    <3>2. Fits(p, PutRecord(d, p, j, [proc[p].jobs[j] EXCEPT !.st = st]))
      BY <1>1, <1>3, <2>7, <2>8, <3>1, FitsMine
    <3> QED BY <3>2 DEF EndRec
  <2> HIDE DEF r
  <2>10. /\ e.led[j] = Stamped(p, r) /\ e.args = d.args /\ e.jr = d.jr
         /\ \A i \in Jobs : i # j => e.led[i] = d.led[i]
    BY <2>3, <2>8, PutRecordIs
  <2> HIDE DEF e
  <2>11. Own(p, m, e)
    BY <2>2, <2>8, <2>9, <2>10, OwnEnded DEF r
  <2>12. Follows(p, m) /\ Acts(p)
    BY <1>1, EndFollows DEF r
  <2> HIDE DEF m
  <2> QED BY <2>1, <2>7, <2>9, <2>11, <2>12, Committed
<1> QED BY <1>2, <1>3

LEMMA FinishStep ==
    ASSUME IInv, NEW p \in Procs, NEW j \in Jobs, Finish(p, j)
    PROVE  StepBy(p)
<1> DEFINE st == "done"
<1>1. j \in proc[p].in /\ End(p, j, st) /\ UNCHANGED world /\ st \in Over
  BY DEF Finish, Over
<1>2. proc[p].jobs[j].st \in Shown
  BY <1>1, RunningIs DEF Shown
<1> HIDE DEF st
<1> QED BY <1>1, <1>2, EndStep

LEMMA CancelRunningStep ==
    ASSUME IInv, NEW p \in Procs, NEW j \in Jobs, CancelRunning(p, j)
    PROVE  StepBy(p)
<1> DEFINE st == "cancelled"
<1>1. /\ proc[p].up = "up" /\ proc[p].jobs[j].st = "running" /\ UNCHANGED world /\ st \in Over
      /\ IF j \in proc[p].in THEN End(p, j, st) ELSE DropsFirst(p, j, EndRec(p, j, st))
  BY DEF CancelRunning, Over, EndRec
<1>2. proc[p].jobs[j].st \in Shown
  BY <1>1 DEF Shown
<1> HIDE DEF st
<1> QED BY <1>1, <1>2, EndStep, DropsFirstStep

LEMMA CancelQueuedStep ==
    ASSUME IInv, NEW p \in Procs, NEW j \in Jobs, CancelQueued(p, j)
    PROVE  StepBy(p)
<1> DEFINE st == "cancelled"
<1>1. /\ Ends(p, j, st) /\ UNCHANGED world
      /\ LET r == EndRec(p, j, st)
             d == PutRecord(disk, p, j, r)
         IN  Commit(p, Gone(p, j, r), <<d, PutArgs(d, j, FALSE), Dropped(d, j)>>)
  BY DEF CancelQueued, Ends, Over, Shown, EndRec
<1> HIDE DEF st
<1> QED BY <1>1, EndWritten

-----------------------------------------------------------------------------
(* A job is continued.                                                     *)

\* The memory m of p but for its jobs: calls may have been answered.
Base(p, m) ==
    /\ m \in Memories /\ m.up = proc[p].up
    /\ m.jobs = proc[p].jobs /\ m.in = proc[p].in /\ m.fd = proc[p].fd
    /\ ~asks => m.calls = <<>>
    /\ \A i \in DOMAIN m.calls : \E k \in DOMAIN proc[p].calls : m.calls[i] = proc[p].calls[k]

\* p may continue j, of which it has read prev.
MayResume(p, j, prev) ==
    /\ proc[p].up \in {"up", "closing"} /\ (Closes(p) => asks)
    /\ prev \in Records
    /\ prev.st = "interrupted" /\ prev.by = NoJob
    /\ disk.led[j].st # "none" /\ prev.from = disk.led[j].from
    /\ ~asks => prev = disk.led[j]

LEMMA BaseCalls ==
    ASSUME IInv, NEW p \in Procs, NEW m, Base(p, m), NEW d, Fits(p, d), NEW n, n.calls = m.calls
    PROVE  \A i \in DOMAIN n.calls : IsCopy(n.calls[i], d)
<1>1. \A i \in DOMAIN proc[p].calls : IsCopy(proc[p].calls[i], d)
  BY CallsKept
<1> QED BY <1>1 DEF Base

\* An interrupted job is not in memory.
LEMMA KnownIs ==
    ASSUME IInv, NEW p \in Procs, NEW j \in Jobs, Continuable(Known(p, j))
    PROVE  /\ Known(p, j) = disk.led[j] /\ proc[p].jobs[j].st = "none"
           /\ disk.led[j].st = "interrupted" /\ disk.led[j].by = NoJob
           /\ j \notin proc[p].in /\ j \notin proc[p].fd
<1>1. Bodies(proc[p])
  BY Before DEF Own
<1> QED BY <1>1 DEF Known, Continuable, Bodies

\* The rounds a job goes on with, in the record and in the journal.
LEMMA ReopenedRounds ==
    ASSUME NEW l \in Records, NEW jr \in Journals, DiskRounds(l, jr), l.st = "interrupted", jr.has,
           NEW g \in Journals, g.has, g.turns = <<>>, g.ends = jr.ends,
           NEW s \in Records, s.st \in Shown, s.att, s.turns = Turns(l.turns, jr.ends),
           NEW r \in Records, r.st = s.st, r.att, r.turns = s.turns, r.done = jr.ends
    PROVE  /\ DiskRounds(l, g) /\ DiskRounds(s, g)
           /\ MemoryRounds(r, FALSE, FALSE, s, g)
<1> DEFINE k == jr.ends
           t == l.turns
           u == s.turns
<1>1. t \in Seq(Nat) /\ InOrder(t) /\ k \in Nat /\ k <= Len(t)
  <2>1. l.turns \in Seq(1..Rounds) /\ jr.ends \in 0..Rounds /\ Rounds \in Nat
    BY LedgerAssumption DEF Records, Journals
  <2>2. l.turns \in Seq(Nat)
    BY <2>1
  <2>3. InOrder(l.turns) /\ jr.ends <= Len(l.turns)
    BY DEF DiskRounds
  <2> QED BY <2>1, <2>2, <2>3
<1>2. u \in Seq(Nat) /\ Len(u) = k /\ InOrder(u)
  <2>1. u = Turns(t, k)
    OBVIOUS
  <2> HIDE DEF t, k, u
  <2> QED BY <1>1, <2>1, TurnsInOrder
<1>3. u \o <<>> = u /\ Len(<<>>) = 0 /\ (k = 0 => u = <<>>)
  <2> HIDE DEF u, k
  <2> QED BY <1>2
<1>4. l.turns \o <<>> = l.turns
  BY <1>1
<1>5. DiskRounds(l, g)
  BY <1>1, <1>4 DEF DiskRounds
<1>6. k <= Len(u) + Len(<<>>) /\ k <= Len(u)
  <2> HIDE DEF k, u
  <2> QED BY <1>1, <1>2, <1>3
<1>7. DiskRounds(s, g)
  BY <1>2, <1>3, <1>6 DEF DiskRounds, Shown
<1>8. MemoryRounds(r, FALSE, FALSE, s, g)
  BY <1>1, <1>2 DEF MemoryRounds
<1> QED BY <1>5, <1>7, <1>8

\* The record l of a job that is in the line again as st.
AgainRec(l, jr, st) ==
    [[l EXCEPT !.turns = Turns(@, jr.ends), !.done = jr.ends, !.att = TRUE] EXCEPT !.st = st]

LEMMA ReopenedIs ==
    ASSUME NEW l \in Records, NEW jr \in Journals, NEW st \in Statuses
    PROVE  LET r == AgainRec(l, jr, st) IN
            /\ r \in Records
               /\ r.st = st /\ r.turns = Turns(l.turns, jr.ends) /\ r.done = jr.ends /\ r.att
               /\ r.by = l.by /\ r.from = l.from
<1>1. l.turns \in Seq(1..Rounds) /\ jr.ends \in 0..Rounds
  BY DEF Records, Journals
<1>2. Turns(l.turns, jr.ends) \in Seq(1..Rounds)
  BY <1>1, TurnsType
<1> HIDE DEF Turns
<1> QED BY <1>1, <1>2 DEF Records, AgainRec

LEMMA InPlaceStep ==
    ASSUME IInv, NEW p \in Procs, NEW j \in Jobs, NEW m, Base(p, m), InPlace(p, j, m),
           proc[p].up \in {"up", "closing"}, Closes(p) => asks, disk.jr[j].has, UNCHANGED world
    PROVE  StepBy(p)
<1> DEFINE l == disk.led[j]
           jr == disk.jr[j]
           g == [jr EXCEPT !.turns = <<>>, !.ino = p]
           b == TRUE
           d1 == PutJournal(disk, j, g)
           d2 == PutArgs(d1, j, b)
<1>1. /\ Known(p, j) = l /\ proc[p].jobs[j].st = "none"
      /\ l.st = "interrupted" /\ l.by = NoJob
      /\ j \notin proc[p].in /\ j \notin proc[p].fd
  BY KnownIs DEF InPlace
<1>2. PICK st \in StartStatus(p) :
          LET r == [Reopened(p, j) EXCEPT !.st = st]
          IN  Commit(p, [m EXCEPT !.jobs[j] = r], <<d1, d2, PutRecord(d2, p, j, r)>>)
  BY DEF InPlace, Rewritten
<1> DEFINE r == AgainRec(l, jr, st)
           n == [m EXCEPT !.jobs[j] = r]
           e == PutRecord(d2, p, j, r)
           s == Stamped(p, r)
<1>3. Commit(p, n, <<d1, d2, e>>)
  BY <1>1, <1>2 DEF Reopened, AgainRec
<1>4. st \in Shown /\ st \in Statuses
  BY DEF StartStatus, Shown, Statuses
<1>5. /\ disk \in DiskType /\ l \in Records /\ jr \in Journals /\ proc[p] \in Memories
      /\ Quiet => DiskRounds(l, jr)
      /\ \A i \in Jobs : HasHeir(disk, i)
  BY Before DEF DiskTalk
<1>6. /\ r \in Records
      /\ r.st = st /\ r.turns = Turns(l.turns, jr.ends) /\ r.done = jr.ends /\ r.att
      /\ r.by = NoJob /\ r.from = l.from
  <2>1. r.by = l.by
    BY <1>4, <1>5, ReopenedIs
  <2> QED BY <1>1, <1>4, <1>5, <2>1, ReopenedIs
<1>7. g \in Journals /\ g.has /\ g.turns = <<>> /\ g.ends = jr.ends /\ g.ino = p
  <2>1. <<>> \in Seq(1..Rounds) /\ p \in 0..MaxProc
    BY LedgerAssumption
  <2> HIDE DEF Procs
  <2> QED BY <1>5, <2>1 DEF Journals
<1> HIDE DEF r, g
<1>8. CommitAny(p, n, e, {d1, d2})
  BY <1>3, CommittedThree
<1>9. s \in Records /\ s.st = r.st /\ s.turns = r.turns /\ s.att = r.att /\ s.by = r.by
      /\ s.from = r.from /\ s.w = p
  BY <1>6, StampedIs
<1> HIDE DEF s
<1>10. Quiet => DiskRounds(l, g) /\ DiskRounds(s, g) /\ MemoryRounds(r, FALSE, FALSE, s, g)
  <2> HIDE DEF l, jr, Turns
  <2>1. Quiet => DiskRounds(l, jr)
    BY <1>5
  <2>2. jr.has
    BY DEF jr
  <2> QED BY <1>1, <1>4, <1>5, <1>6, <1>7, <1>9, <2>1, <2>2, ReopenedRounds
<1>11. /\ d1 \in DiskType /\ d1.jr[j] = g /\ d1.led = disk.led /\ d1.args = disk.args
       /\ \A i \in Jobs : i # j => d1.jr[i] = disk.jr[i]
  BY <1>5, <1>7, PutJournalIs
<1>12. Fits(p, d1)
  <2>1. g.ino \in {0, p, disk.jr[j].ino} /\ (Quiet => DiskRounds(disk.led[j], g))
    BY <1>7, <1>10
  <2> QED BY <1>7, <2>1, FitsSame, FitsJournal
<1> HIDE DEF d1
<1>13. b \in BOOLEAN /\ b
  OBVIOUS
<1> HIDE DEF b
<1>14. /\ d2 \in DiskType /\ d2.args[j] /\ d2.led = d1.led /\ d2.jr = d1.jr
       /\ \A i \in Jobs : i # j => d2.args[i] = d1.args[i]
  BY <1>11, <1>13 DEF PutArgs, DiskType
<1>15. Fits(p, d2)
  BY <1>12, <1>13, FitsArgs
<1> HIDE DEF d2
<1>16. /\ e \in DiskType /\ e.led[j] = s /\ e.args = d2.args /\ e.jr = d2.jr
       /\ \A i \in Jobs : i # j => e.led[i] = d2.led[i]
  BY <1>6, <1>14, PutRecordIs DEF s
<1> HIDE DEF e
<1>17. Written(p, j, e)
  <2>1. disk.led[j].by = NoJob /\ disk.led[j].st = "interrupted" /\ e.led[j].st = st
        /\ e.led[j].by = NoJob /\ e.led[j].from = disk.led[j].from /\ e.led[j].w = p
    BY <1>1, <1>6, <1>9, <1>16
  <2> QED BY <1>4, <2>1 DEF Written, HasHeir, Shown, Over
<1>18. Fits(p, e)
  <2>1. \A i \in Jobs : i # j /\ d2.led[i].by = j => r.from = i /\ r.st # "none"
    <3> SUFFICES ASSUME NEW i \in Jobs, disk.led[i].by = j PROVE r.from = i /\ r.st # "none"
      BY <1>11, <1>14
    <3>1. disk.led[j].from = i
      BY <1>5, LedgerAssumption DEF HasHeir
    <3> QED BY <1>4, <1>6, <3>1 DEF Shown
  <2>2. Quiet => DiskRounds(s, d2.jr[j])
    BY <1>10, <1>11, <1>14
  <2>3. Fits(p, PutRecord(d2, p, j, r))
    BY <1>6, <1>13, <1>14, <1>15, <1>17, <2>1, <2>2, FitsRecord DEF e, s
  <2> QED BY <2>3 DEF e
<1>19. /\ m \in Memories /\ m.up = proc[p].up /\ m.jobs = proc[p].jobs /\ m.in = proc[p].in
       /\ m.fd = proc[p].fd /\ (~asks => m.calls = <<>>)
  BY DEF Base
<1>20. /\ n \in Memories /\ n.up = m.up /\ n.in = m.in /\ n.fd = m.fd /\ n.calls = m.calls
       /\ n.jobs[j] = r /\ \A i \in Jobs : i # j => n.jobs[i] = m.jobs[i]
  <2>1. r \in Records /\ m \in Memories
    BY <1>6, <1>19
  <2> QED BY <2>1, MemoryIs
<1> HIDE DEF n
<1>21. OwnAt(p, n, e, j)
  <2>1. (j \in n.in) = FALSE /\ (j \in n.fd) = FALSE
    BY <1>1, <1>19, <1>20
  <2>2. e.jr[j] = g
    BY <1>11, <1>14, <1>16
  <2>3. st # "none" /\ st # "interrupted" /\ st \notin Over
    BY <1>4 DEF Shown, Over
  <2> QED BY <1>6, <1>9, <1>10, <1>16, <1>20, <2>1, <2>2, <2>3 DEF OwnAt, OwnRec
<1>22. Own(p, n, e)
  <2>1. \A i \in DOMAIN n.calls : IsCopy(n.calls[i], e)
    BY <1>18, <1>20, BaseCalls
  <2> QED BY <1>11, <1>14, <1>16, <1>19, <1>20, <1>21, <2>1, OwnChangedOne
<1>23. Follows(p, n)
  BY <1>19, <1>20, FollowsIs
<1>24. Acts(p)
  BY DEF Acts
<1>25. \A x \in {d1, d2} : Fits(p, x)
  BY <1>12, <1>15
<1> QED BY <1>8, <1>18, <1>22, <1>23, <1>24, <1>25, Committed

LEMMA SummaryStep ==
    ASSUME IInv, NEW p \in Procs, NEW j \in Jobs, NEW prev, NEW m, Base(p, m),
           MayResume(p, j, prev), Summary(p, j, prev, m), UNCHANGED world
    PROVE  StepBy(p)
<1>1. PICK k \in {i \in Jobs : Fresh(i)} :
          \E st \in StartStatus(p), durable \in BOOLEAN :
            LET d1 == SaveArgs(k, durable)
                d2 == PutRecord(d1, p, k, New(st, NoJob))
                d3 == PutRecord(d2, p, k, New(st, j))
                d4 == PutRecord(d3, p, j, [prev EXCEPT !.by = k])
            IN  Commit(p, [m EXCEPT !.jobs[k] = New(st, j)],
                       <<d1, d2, d3, d4, PutArgs(d4, j, FALSE), Dropped(d4, j)>>)
  BY DEF Summary
<1>2. PICK st \in StartStatus(p), durable \in BOOLEAN :
            LET d1 == SaveArgs(k, durable)
                d2 == PutRecord(d1, p, k, New(st, NoJob))
                d3 == PutRecord(d2, p, k, New(st, j))
                d4 == PutRecord(d3, p, j, [prev EXCEPT !.by = k])
            IN  Commit(p, [m EXCEPT !.jobs[k] = New(st, j)],
                       <<d1, d2, d3, d4, PutArgs(d4, j, FALSE), Dropped(d4, j)>>)
  BY <1>1
<1> DEFINE a == New(st, NoJob)
           c == New(st, j)
           r == [prev EXCEPT !.by = k]
           d1 == SaveArgs(k, durable)
           d2 == PutRecord(d1, p, k, a)
           d3 == PutRecord(d2, p, k, c)
           d4 == PutRecord(d3, p, j, r)
           d5 == PutArgs(d4, j, FALSE)
           e == Dropped(d4, j)
           n == [m EXCEPT !.jobs[k] = c]
           l == disk.led[j]
           jr == disk.jr[j]
           s == Stamped(p, r)
<1>3. CommitAny(p, n, e, {d1, d2, d3, d4, d5})
  BY <1>2, CommittedSix
<1>4. st \in Shown /\ st \in Statuses /\ NoJob \in Jobs \cup {NoJob} /\ j \in Jobs \cup {NoJob}
  BY DEF StartStatus, Shown, Statuses
<1>5. /\ proc[p].up \in {"up", "closing"} /\ (Closes(p) => asks)
      /\ prev \in Records /\ prev.st = "interrupted" /\ prev.by = NoJob
      /\ l.st # "none" /\ prev.from = l.from /\ (~asks => prev = l)
  BY DEF MayResume
<1>6. /\ disk \in DiskType /\ l \in Records /\ jr \in Journals /\ proc[p] \in Memories
      /\ Quiet => DiskRounds(l, jr)
      /\ \A i \in Jobs : HasHeir(disk, i)
      /\ Own(p, proc[p], disk)
  BY Before DEF DiskTalk
<1>7. /\ k \in Jobs /\ Fresh(k)
      /\ disk.led[k].st = "none" /\ ~disk.jr[k].has /\ proc[p].jobs[k].st = "none"
      /\ Quiet => disk.jr[k].turns = <<>>
  BY <1>1, FreshIs
<1>8. k # j /\ k # NoJob
  BY <1>5, <1>7, LedgerAssumption
<1>9. \A i \in Jobs : i # k => disk.led[i].by # k
  BY <1>6, <1>7, <1>8 DEF HasHeir
<1>10. a \in Records /\ a.by = NoJob
  BY <1>4, NewIs
<1>11. c \in Records /\ c.by = NoJob /\ c.from = j /\ c.st = st
  BY <1>4, NewIs
<1>12. r \in Records /\ r.st = "interrupted" /\ r.by = k /\ r.from = l.from
       /\ r.turns = prev.turns /\ r.att = prev.att
  BY <1>5, <1>7 DEF Records
<1>13. s \in Records /\ s.st = "interrupted" /\ s.by = k /\ s.from = l.from
       /\ s.turns = prev.turns /\ s.att = prev.att /\ s.w = p
  BY <1>12, StampedIs
<1>14. /\ Fits(p, d1) /\ d1 \in DiskType /\ d1.led = disk.led /\ d1.jr = disk.jr
       /\ \A i \in Jobs : i # k => d1.args[i] = disk.args[i]
  BY <1>7, FitsSaved
<1> HIDE DEF d1
<1>15. /\ d2 \in DiskType /\ d2.led[k] = Stamped(p, a) /\ d2.args = d1.args /\ d2.jr = d1.jr
       /\ \A i \in Jobs : i # k => d2.led[i] = d1.led[i]
  <2> HIDE DEF a
  <2> QED BY <1>7, <1>10, <1>14, PutRecordIs
<1>16. Fits(p, d2)
  BY <1>4, <1>5, <1>7, <1>9, <1>14, FitsNew
<1> HIDE DEF d2, a
<1>17. /\ d3 \in DiskType /\ d3.led[k] = Stamped(p, c) /\ d3.args = d2.args /\ d3.jr = d2.jr
       /\ \A i \in Jobs : i # k => d3.led[i] = d2.led[i]
  <2> HIDE DEF c
  <2> QED BY <1>7, <1>11, <1>15, PutRecordIs
<1>18. Fits(p, d3)
  <2>1. d2.jr[k] = disk.jr[k] /\ \A i \in Jobs : i # k => d2.led[i].by # k
    BY <1>9, <1>14, <1>15
  <2> QED BY <1>4, <1>5, <1>7, <1>16, <2>1, FitsNew
<1> HIDE DEF d3
<1>19. Stamped(p, c).by = NoJob /\ Stamped(p, c).from = j /\ Stamped(p, c).st = st
  BY <1>11, StampedIs
<1> HIDE DEF r
<1>20. /\ d4 \in DiskType /\ d4.led[j] = s /\ d4.args = d3.args /\ d4.jr = d3.jr
       /\ \A i \in Jobs : i # j => d4.led[i] = d3.led[i]
  BY <1>12, <1>17, PutRecordIs
<1> HIDE DEF s, d4, c
<1>21. Written(p, j, d4)
  <2>1. HasHeir(d4, j)
    <3>1. d4.led[k].st # "none" /\ d4.led[k].from = j
      BY <1>4, <1>7, <1>8, <1>17, <1>19, <1>20 DEF Shown
    <3> QED BY <1>13, <1>20, <3>1 DEF HasHeir
  <2> QED BY <1>5, <1>13, <1>20, <2>1 DEF Written, Shown, Over
<1>22. Quiet => DiskRounds(s, jr)
  <2> SUFFICES ASSUME Quiet PROVE DiskRounds(s, jr)
    OBVIOUS
  <2>1. s.turns = l.turns /\ s.att = l.att /\ s.st = l.st
    BY <1>5, <1>13 DEF Quiet
  <2> QED BY <1>6, <2>1 DEF DiskRounds
<1>23. Fits(p, d4)
  <2>1. \A i \in Jobs : i # j /\ d3.led[i].by = j => r.from = i /\ r.st # "none"
    <3> SUFFICES ASSUME NEW i \in Jobs, d3.led[i].by = j PROVE r.from = i /\ r.st # "none"
      OBVIOUS
    <3>1. i # k /\ j # NoJob
      BY <1>17, <1>19, LedgerAssumption
    <3>2. disk.led[i].by = j
      BY <1>14, <1>15, <1>17, <3>1
    <3>3. l.from = i
      BY <1>6, <3>1, <3>2 DEF HasHeir
    <3> QED BY <1>12, <3>3
  <2>2. Quiet => DiskRounds(Stamped(p, r), d3.jr[j])
    BY <1>14, <1>15, <1>17, <1>22 DEF s
  <2>3. disk.args[j] => d3.args[j]
    BY <1>8, <1>14, <1>15, <1>17
  <2>4. Fits(p, PutRecord(d3, p, j, r))
    BY <1>12, <1>18, <1>21, <2>1, <2>2, <2>3, FitsRecord DEF d4
  <2> QED BY <2>4 DEF d4
<1>24. Quiet => DiskRounds(d4.led[j], NoJournal)
  BY <1>6, <1>13, <1>20, <1>22, RoundsGone
<1>25. MayGo(p, j, d4)
  BY <1>8, <1>13, <1>20 DEF MayGo
<1>26. Fits(p, d5) /\ Fits(p, e)
  BY <1>23, <1>24, <1>25, FitsDropped
<1>27. /\ ~e.args[j] /\ e.jr[j] = NoJournal /\ e.led = d4.led
       /\ \A i \in Jobs : i # j => e.args[i] = d4.args[i] /\ e.jr[i] = d4.jr[i]
  BY <1>20, DroppedIs
<1> HIDE DEF d5, e
<1>28. /\ m \in Memories /\ m.up = proc[p].up /\ m.jobs = proc[p].jobs /\ m.in = proc[p].in
       /\ m.fd = proc[p].fd /\ (~asks => m.calls = <<>>)
  BY DEF Base
<1>29. /\ n \in Memories /\ n.up = m.up /\ n.in = m.in /\ n.fd = m.fd /\ n.calls = m.calls
       /\ n.jobs[k] = c /\ \A i \in Jobs : i # k => n.jobs[i] = m.jobs[i]
  <2>1. c \in Records /\ m \in Memories /\ k \in Jobs
    BY <1>7, <1>11, <1>28
  <2> QED BY <2>1, MemoryIs
<1> HIDE DEF n
<1>30. OwnAt(p, n, e, k)
  <2>1. Bodies(proc[p])
    BY <1>6 DEF Own
  <2>2. k \notin n.in /\ k \notin n.fd
    BY <1>7, <1>28, <1>29, <2>1 DEF Bodies
  <2>3. e.led[k] = Stamped(p, c) /\ e.jr[k] = disk.jr[k]
    BY <1>7, <1>8, <1>14, <1>15, <1>17, <1>20, <1>27
  <2> QED BY <1>4, <1>7, <1>29, <2>2, <2>3, OwnNew DEF c
<1>31. OwnAt(p, n, e, j)
  <2> DEFINE b == proc[p].jobs[j]
  <2>1. OwnAt(p, proc[p], disk, j)
    BY <1>6, OwnIs
  <2>2. n.jobs[j] = b /\ n.up = proc[p].up /\ n.in = proc[p].in /\ n.fd = proc[p].fd
    BY <1>8, <1>28, <1>29
  <2>3. e.led[j] = s /\ e.jr[j] = NoJournal /\ ~e.args[j] /\ ~NoJournal.has
    BY <1>20, <1>27 DEF NoJournal
  <2>4. ~asks => b.st \notin Shown
    <3>1. ~asks => proc[p].up = "up" /\ l.st = "interrupted"
      BY <1>5 DEF Closes
    <3> QED BY <2>1, <3>1 DEF OwnAt, OwnRec, Shown
  <2>5. /\ b.st # "interrupted" /\ b.by = NoJob
        /\ j \in n.in => b.st = "running"
        /\ j \in n.fd => j \in n.in
        /\ b.st # "none" => b.from = l.from
    BY <2>1, <2>2 DEF OwnAt, OwnRec
  <2>6. Quiet => InOrder(b.turns)
    BY <2>1 DEF OwnAt, OwnRec, MemoryRounds
  <2>7. Quiet => b.st \notin Shown /\ j \notin n.in /\ j \notin n.fd
    BY <2>4, <2>5 DEF Quiet, Shown
  <2>8. Quiet => MemoryRounds(b, j \in n.in, j \in n.fd, s, NoJournal)
    BY <2>6, <2>7 DEF MemoryRounds
  <2>9. s.st # "none" /\ s.st \notin Shown
    BY <1>13 DEF Shown
  <2> HIDE DEF b
  <2>10. OwnRec(p, n.up, b, j \in n.in, j \in n.fd, s, e.args[j], NoJournal)
    BY <1>13, <2>3, <2>4, <2>5, <2>7, <2>8, <2>9 DEF OwnRec
  <2> QED BY <2>2, <2>3, <2>10 DEF OwnAt
<1>32. Own(p, n, e)
  <2> DEFINE J == {j, k}
  <2>1. \A i \in DOMAIN n.calls : IsCopy(n.calls[i], e)
    BY <1>26, <1>29, BaseCalls
  <2>2. \A i \in Jobs : i \in J => OwnAt(p, n, e, i)
    BY <1>30, <1>31
  <2>3. \A i \in Jobs \ J : i # j /\ i # k
    OBVIOUS
  <2> HIDE DEF J
  <2>4. \A i \in Jobs \ J : /\ n.jobs[i] = proc[p].jobs[i]
                            /\ i \in n.in <=> i \in proc[p].in
                            /\ i \in n.fd <=> i \in proc[p].fd
                            /\ e.led[i] = disk.led[i] /\ e.args[i] = disk.args[i] /\ e.jr[i] = disk.jr[i]
    BY <1>14, <1>15, <1>17, <1>20, <1>27, <1>28, <1>29, <2>3
  <2>5. n.up = proc[p].up
    BY <1>28, <1>29
  <2> QED BY <2>1, <2>2, <2>4, <2>5, OwnChanged
<1>33. Follows(p, n)
  BY <1>5, <1>28, <1>29, FollowsIs
<1>34. Acts(p)
  BY <1>5 DEF Acts
<1>35. \A x \in {d1, d2, d3, d4, d5} : Fits(p, x)
  BY <1>14, <1>16, <1>18, <1>23, <1>26
<1> QED BY <1>3, <1>26, <1>32, <1>33, <1>34, <1>35, Committed

LEMMA ForeignStep ==
    ASSUME IInv, NEW p \in Procs, NEW j \in Jobs, NEW prev, NEW m, Base(p, m),
           MayResume(p, j, prev), Foreign(p, j, prev, m), UNCHANGED world
    PROVE  StepBy(p)
<1>1. PICK k \in {i \in Jobs : Fresh(i)} :
          \E st \in StartStatus(p), durable \in BOOLEAN :
            LET d1 == SaveArgs(k, durable)
                d2 == PutRecord(d1, p, k, New(st, NoJob))
            IN  Commit(p, [m EXCEPT !.jobs[k] = New(st, NoJob)],
                       <<d1, d2, PutRecord(d2, p, j, prev)>>)
  BY DEF Foreign
<1>2. PICK st \in StartStatus(p), durable \in BOOLEAN :
            LET d1 == SaveArgs(k, durable)
                d2 == PutRecord(d1, p, k, New(st, NoJob))
            IN  Commit(p, [m EXCEPT !.jobs[k] = New(st, NoJob)],
                       <<d1, d2, PutRecord(d2, p, j, prev)>>)
  BY <1>1
<1> DEFINE c == New(st, NoJob)
           d1 == SaveArgs(k, durable)
           d2 == PutRecord(d1, p, k, c)
           e == PutRecord(d2, p, j, prev)
           n == [m EXCEPT !.jobs[k] = c]
           l == disk.led[j]
           jr == disk.jr[j]
           s == Stamped(p, prev)
<1>3. CommitAny(p, n, e, {d1, d2})
  BY <1>2, CommittedThree
<1>4. st \in Shown /\ st \in Statuses /\ NoJob \in Jobs \cup {NoJob}
  BY DEF StartStatus, Shown, Statuses
<1>5. /\ proc[p].up \in {"up", "closing"} /\ (Closes(p) => asks)
      /\ prev \in Records /\ prev.st = "interrupted" /\ prev.by = NoJob
      /\ l.st # "none" /\ prev.from = l.from /\ (~asks => prev = l)
  BY DEF MayResume
<1>6. /\ disk \in DiskType /\ l \in Records /\ jr \in Journals /\ proc[p] \in Memories
      /\ Quiet => DiskRounds(l, jr)
      /\ \A i \in Jobs : HasHeir(disk, i)
      /\ Own(p, proc[p], disk)
  BY Before DEF DiskTalk
<1>7. /\ k \in Jobs /\ Fresh(k)
      /\ disk.led[k].st = "none" /\ ~disk.jr[k].has /\ proc[p].jobs[k].st = "none"
      /\ Quiet => disk.jr[k].turns = <<>>
  BY <1>1, FreshIs
<1>8. k # j /\ k # NoJob
  BY <1>5, <1>7, LedgerAssumption
<1>9. \A i \in Jobs : i # k => disk.led[i].by # k
  BY <1>6, <1>7, <1>8 DEF HasHeir
<1>10. c \in Records /\ c.by = NoJob
  BY <1>4, NewIs
<1>11. s \in Records /\ s.st = "interrupted" /\ s.by = NoJob /\ s.from = l.from
       /\ s.turns = prev.turns /\ s.att = prev.att /\ s.w = p
  BY <1>5, StampedIs
<1>12. /\ Fits(p, d1) /\ d1 \in DiskType /\ d1.led = disk.led /\ d1.jr = disk.jr
       /\ \A i \in Jobs : i # k => d1.args[i] = disk.args[i]
  BY <1>7, FitsSaved
<1> HIDE DEF d1
<1>13. /\ d2 \in DiskType /\ d2.led[k] = Stamped(p, c) /\ d2.args = d1.args /\ d2.jr = d1.jr
       /\ \A i \in Jobs : i # k => d2.led[i] = d1.led[i]
  <2> HIDE DEF c
  <2> QED BY <1>7, <1>10, <1>12, PutRecordIs
<1>14. Fits(p, d2)
  BY <1>4, <1>5, <1>7, <1>9, <1>12, FitsNew
<1>15. Stamped(p, c).by = NoJob
  BY <1>10, StampedIs
<1> HIDE DEF s, d2, c
<1>16. /\ e \in DiskType /\ e.led[j] = s /\ e.args = d2.args /\ e.jr = d2.jr
       /\ \A i \in Jobs : i # j => e.led[i] = d2.led[i]
  BY <1>5, <1>13, PutRecordIs DEF s
<1> HIDE DEF e
<1>17. Written(p, j, e)
  <2>1. HasHeir(e, j)
    BY <1>11, <1>16 DEF HasHeir
  <2> QED BY <1>5, <1>11, <1>16, <2>1 DEF Written, Shown, Over
<1>18. Quiet => DiskRounds(s, jr)
  <2> SUFFICES ASSUME Quiet PROVE DiskRounds(s, jr)
    OBVIOUS
  <2>1. s.turns = l.turns /\ s.att = l.att /\ s.st = l.st
    BY <1>5, <1>11 DEF Quiet
  <2> QED BY <1>6, <2>1 DEF DiskRounds
<1>19. Fits(p, e)
  <2>1. \A i \in Jobs : i # j /\ d2.led[i].by = j => prev.from = i /\ prev.st # "none"
    <3> SUFFICES ASSUME NEW i \in Jobs, d2.led[i].by = j PROVE prev.from = i /\ prev.st # "none"
      OBVIOUS
    <3>1. i # k /\ j # NoJob
      BY <1>13, <1>15, LedgerAssumption
    <3>2. disk.led[i].by = j
      BY <1>12, <1>13, <3>1
    <3>3. l.from = i
      BY <1>6, <3>1, <3>2 DEF HasHeir
    <3> QED BY <1>5, <3>3
  <2>2. Quiet => DiskRounds(Stamped(p, prev), d2.jr[j])
    BY <1>12, <1>13, <1>18 DEF s
  <2>3. disk.args[j] => d2.args[j]
    BY <1>8, <1>12, <1>13
  <2>4. Fits(p, PutRecord(d2, p, j, prev))
    BY <1>5, <1>14, <1>17, <2>1, <2>2, <2>3, FitsRecord DEF e
  <2> QED BY <2>4 DEF e
<1>20. /\ m \in Memories /\ m.up = proc[p].up /\ m.jobs = proc[p].jobs /\ m.in = proc[p].in
       /\ m.fd = proc[p].fd /\ (~asks => m.calls = <<>>)
  BY DEF Base
<1>21. /\ n \in Memories /\ n.up = m.up /\ n.in = m.in /\ n.fd = m.fd /\ n.calls = m.calls
       /\ n.jobs[k] = c /\ \A i \in Jobs : i # k => n.jobs[i] = m.jobs[i]
  <2>1. c \in Records /\ m \in Memories /\ k \in Jobs
    BY <1>7, <1>10, <1>20
  <2> QED BY <2>1, MemoryIs
<1> HIDE DEF n
<1>22. OwnAt(p, n, e, k)
  <2>1. Bodies(proc[p])
    BY <1>6 DEF Own
  <2>2. k \notin n.in /\ k \notin n.fd
    BY <1>7, <1>20, <1>21, <2>1 DEF Bodies
  <2>3. e.led[k] = Stamped(p, c) /\ e.jr[k] = disk.jr[k]
    BY <1>7, <1>8, <1>12, <1>13, <1>16
  <2> QED BY <1>4, <1>7, <1>21, <2>2, <2>3, OwnNew DEF c
<1>23. OwnAt(p, n, e, j)
  <2> DEFINE b == proc[p].jobs[j]
  <2>1. OwnAt(p, proc[p], disk, j)
    BY <1>6, OwnIs
  <2>2. n.jobs[j] = b /\ n.up = proc[p].up /\ n.in = proc[p].in /\ n.fd = proc[p].fd
    BY <1>8, <1>20, <1>21
  <2>3. e.led[j] = s /\ e.jr[j] = jr
    BY <1>12, <1>13, <1>16
  <2>4. ~asks => b.st \notin Shown
    <3>1. ~asks => proc[p].up = "up" /\ l.st = "interrupted"
      BY <1>5 DEF Closes
    <3> QED BY <2>1, <3>1 DEF OwnAt, OwnRec, Shown
  <2>5. /\ b.st # "interrupted" /\ b.by = NoJob
        /\ j \in n.in => b.st = "running"
        /\ j \in n.fd => j \in n.in
        /\ b.st # "none" => b.from = l.from
    BY <2>1, <2>2 DEF OwnAt, OwnRec
  <2>6. Quiet => InOrder(b.turns)
    BY <2>1 DEF OwnAt, OwnRec, MemoryRounds
  <2>7. Quiet => b.st \notin Shown /\ j \notin n.in /\ j \notin n.fd
    BY <2>4, <2>5 DEF Quiet, Shown
  <2>8. Quiet => MemoryRounds(b, j \in n.in, j \in n.fd, s, jr)
    BY <2>6, <2>7 DEF MemoryRounds
  <2>9. s.st # "none" /\ s.st \notin Shown /\ s.st \notin Over \cup {"none"}
    BY <1>11 DEF Shown, Over
  <2> HIDE DEF b, jr
  <2>10. OwnRec(p, n.up, b, j \in n.in, j \in n.fd, s, e.args[j], jr)
    BY <1>11, <2>4, <2>5, <2>7, <2>8, <2>9 DEF OwnRec
  <2> QED BY <2>2, <2>3, <2>10 DEF OwnAt
<1>24. Own(p, n, e)
  <2> DEFINE J == {j, k}
  <2>1. \A i \in DOMAIN n.calls : IsCopy(n.calls[i], e)
    BY <1>19, <1>21, BaseCalls
  <2>2. \A i \in Jobs : i \in J => OwnAt(p, n, e, i)
    BY <1>22, <1>23
  <2>3. \A i \in Jobs \ J : i # j /\ i # k
    OBVIOUS
  <2> HIDE DEF J
  <2>4. \A i \in Jobs \ J : /\ n.jobs[i] = proc[p].jobs[i]
                            /\ i \in n.in <=> i \in proc[p].in
                            /\ i \in n.fd <=> i \in proc[p].fd
                            /\ e.led[i] = disk.led[i] /\ e.args[i] = disk.args[i] /\ e.jr[i] = disk.jr[i]
    BY <1>12, <1>13, <1>16, <1>20, <1>21, <2>3
  <2>5. n.up = proc[p].up
    BY <1>20, <1>21
  <2> QED BY <2>1, <2>2, <2>4, <2>5, OwnChanged
<1>25. Follows(p, n)
  BY <1>5, <1>20, <1>21, FollowsIs
<1>26. Acts(p)
  BY <1>5 DEF Acts
<1>27. \A x \in {d1, d2} : Fits(p, x)
  BY <1>12, <1>14
<1> QED BY <1>3, <1>19, <1>24, <1>25, <1>26, <1>27, Committed

LEMMA ResumeStep ==
    ASSUME IInv, NEW p \in Procs, NEW j \in Jobs, NEW prev, NEW m, Base(p, m),
           MayResume(p, j, prev), Resume(p, j, prev, m)
    PROVE  StepBy(p)
<1>1. \/ \E changed \in BOOLEAN :
            IF ~changed /\ disk.args[j] /\ disk.jr[j].has /\ disk.jr[j].pre
            THEN InPlace(p, j, m) ELSE Summary(p, j, prev, m)
      \/ Foreign(p, j, prev, m)
  BY DEF Resume
<1>2. UNCHANGED world
  BY DEF Resume
<1>3. CASE InPlace(p, j, m) /\ disk.jr[j].has
  BY <1>2, <1>3, InPlaceStep DEF MayResume
<1>4. CASE Summary(p, j, prev, m)
  BY <1>2, <1>4, SummaryStep
<1>5. CASE Foreign(p, j, prev, m)
  BY <1>2, <1>5, ForeignStep
<1> QED BY <1>1, <1>3, <1>4, <1>5

LEMMA ContinueStep ==
    ASSUME IInv, NEW p \in Procs, NEW j \in Jobs, Continue(p, j)
    PROVE  StepBy(p)
<1> DEFINE prev == Known(p, j)
<1>1. proc[p].up = "up" /\ Resume(p, j, prev, proc[p]) /\ Continuable(prev)
  BY DEF Continue, Resume
<1>2. prev = disk.led[j]
  BY <1>1, KnownIs
<1>3. proc[p] \in Memories /\ (~asks => proc[p].calls = <<>>) /\ disk.led \in [Jobs -> Records]
  BY Before
<1>4. Base(p, proc[p])
  BY <1>3 DEF Base
<1>5. MayResume(p, j, prev)
  BY <1>1, <1>2, <1>3 DEF MayResume, Closes, Continuable
<1> HIDE DEF prev
<1> QED BY <1>1, <1>4, <1>5, ResumeStep

\* What is left of the calls is of the calls.
LEMMA RemovedIs ==
    ASSUME NEW S, NEW s \in Seq(S), NEW i \in DOMAIN s
    PROVE  /\ RemoveAt(s, i) \in Seq(S)
           /\ \A n \in DOMAIN RemoveAt(s, i) : \E k \in DOMAIN s : RemoveAt(s, i)[n] = s[k]
<1> DEFINE a == SubSeq(s, 1, i - 1)
           b == SubSeq(s, i + 1, Len(s))
           t == a \o b
<1>1. Len(s) \in Nat /\ i \in 1..Len(s)
  OBVIOUS
<1>2. a \in Seq(S) /\ Len(a) = i - 1 /\ \A n \in 1..(i - 1) : a[n] = s[n]
  BY <1>1
<1>3. b \in Seq(S) /\ Len(b) = Len(s) - i /\ \A n \in 1..(Len(s) - i) : b[n] = s[n + i]
  BY <1>1
<1> HIDE DEF a, b
<1>4. t \in Seq(S) /\ Len(t) = Len(a) + Len(b)
      /\ \A n \in 1..(Len(a) + Len(b)) : t[n] = IF n <= Len(a) THEN a[n] ELSE b[n - Len(a)]
  BY <1>2, <1>3
<1> HIDE DEF t
<1>5. ASSUME NEW n \in DOMAIN t PROVE \E k \in DOMAIN s : t[n] = s[k]
  <2>1. n \in 1..(Len(s) - 1) /\ n \in 1..(Len(a) + Len(b))
    BY <1>1, <1>2, <1>3, <1>4
  <2>2. CASE n <= i - 1
    <3>1. n \in 1..(i - 1) /\ n \in DOMAIN s /\ n <= Len(a)
      BY <1>1, <1>2, <2>1, <2>2
    <3> QED BY <1>2, <1>4, <2>1, <3>1
  <2>3. CASE ~(n <= i - 1)
    <3>1. n - (i - 1) \in 1..(Len(s) - i) /\ n - (i - 1) + i = n + 1 /\ n + 1 \in DOMAIN s
      BY <1>1, <2>1, <2>3
    <3>2. t[n] = b[n - (i - 1)]
      BY <1>2, <1>4, <2>1, <2>3
    <3> QED BY <1>3, <3>1, <3>2
  <2> QED BY <2>2, <2>3
<1>6. RemoveAt(s, i) = t
  BY DEF RemoveAt, t, a, b
<1> QED BY <1>4, <1>5, <1>6

LEMMA ContinueGoStep ==
    ASSUME IInv, NEW p \in Procs, NEW i \in DOMAIN proc[p].calls, ContinueGo(p, i)
    PROVE  StepBy(p)
<1> DEFINE s == proc[p].calls
           t == RemoveAt(s, i)
           c == s[i]
           m == [proc[p] EXCEPT !.calls = t]
<1>1. /\ proc[p].up \in {"up", "closing"} /\ Resume(p, c.j, c.prev, m) /\ Continuable(c.prev)
  <2>1. m = [proc[p] EXCEPT !.calls = RemoveAt(@, i)]
    OBVIOUS
  <2> QED BY <2>1 DEF ContinueGo, Resume
<1>2. /\ proc[p] \in Memories /\ (~asks => s = <<>>) /\ Own(p, proc[p], disk)
      /\ disk.led \in [Jobs -> Records]
  BY Before
<1>3. s \in Seq(CallType)
  BY <1>2 DEF Memories, CallType
<1>4. i \in DOMAIN s /\ asks
  BY <1>2
<1>5. IsCopy(c, disk)
  BY <1>2, <1>4 DEF Own, Copies
<1> HIDE DEF s
<1>6. c \in CallType
  BY <1>3, <1>4
<1>7. c.j \in Jobs /\ c.prev \in Records
  BY <1>6 DEF CallType
<1>8. t \in Seq(CallType) /\ \A n \in DOMAIN t : \E k \in DOMAIN s : t[n] = s[k]
  BY <1>3, <1>4, RemovedIs
<1> HIDE DEF t, c
<1>9. /\ m \in Memories /\ m.up = proc[p].up /\ m.jobs = proc[p].jobs /\ m.in = proc[p].in
      /\ m.fd = proc[p].fd /\ m.calls = t
  BY <1>2, <1>8 DEF Memories, CallType
<1> HIDE DEF m
<1>10. Base(p, m)
  BY <1>4, <1>8, <1>9 DEF Base, s
<1>11. MayResume(p, c.j, c.prev)
  BY <1>1, <1>4, <1>5, <1>7 DEF MayResume, IsCopy, Continuable
<1> QED BY <1>1, <1>7, <1>10, <1>11, ResumeStep

-----------------------------------------------------------------------------
(* The boot of a process.                                                  *)

\* The jobs a boot closes, those it takes over, those it closes without their
\* journal, and those whose files it sweeps.
Waiting == Again(Left("queued"))

Orphans == (Left("running") \cup Left("queued")) \ Waiting

SweptAt(old) ==
    {j \in Jobs \ (Orphans \cup Waiting) :
        \/ disk.led[j].st \in Over \cup {"none"}
        \/ disk.led[j].by # NoJob \/ j \in old}

\* Any stage of a boot.
IsStage(old, O, A, X, Y) ==
    /\ O \subseteq Orphans /\ A \subseteq Waiting
    /\ X \subseteq SweptAt(old) /\ Y \subseteq Lost(Orphans) \cup SweptAt(old)

LEMMA CloseIs ==
    ASSUME IInv, NEW j \in Orphans
    PROVE  LET r == Close(j)
               l == disk.led[j]
           IN
           /\ j \in Jobs /\ j \notin Waiting
           /\ r \in Records /\ r.st = "interrupted" /\ r.by = NoJob /\ r.from = l.from
           /\ r.turns = IF l.st = "running" THEN l.turns \o disk.jr[j].turns ELSE l.turns
           /\ l.st \in Shown /\ l.by = NoJob
           /\ l.st = "queued" => ~Restorable(j)
<1> DEFINE l == disk.led[j]
           s == l.turns \o disk.jr[j].turns
           f == [l EXCEPT !.turns = s]
           i == [l EXCEPT !.st = "interrupted"]
           g == [f EXCEPT !.st = "interrupted"]
<1>1. /\ j \in Jobs /\ j \notin Waiting /\ l.st \in Shown
      /\ l.st = "queued" => ~Restorable(j)
  BY DEF Orphans, Waiting, Left, Again, Shown
<1>2. l \in Records /\ disk.jr[j] \in Journals /\ HasHeir(disk, j)
  BY <1>1, Before, LedgerAssumption DEF IInv, TypeOK
<1>3. l.by = NoJob
  BY <1>1, <1>2 DEF HasHeir, Shown
<1>4. s \in Seq(1..Rounds)
  <2>1. l.turns \in Seq(1..Rounds) /\ disk.jr[j].turns \in Seq(1..Rounds)
    BY <1>2 DEF Records, Journals
  <2> HIDE DEF l
  <2> QED BY <2>1
<1> HIDE DEF l, s
<1>5. f \in Records /\ f.turns = s /\ f.by = l.by /\ f.from = l.from /\ f.st = l.st
  BY <1>2, <1>4 DEF Records
<1> HIDE DEF f
<1>6. /\ i \in Records /\ i.st = "interrupted" /\ i.by = l.by /\ i.from = l.from /\ i.turns = l.turns
      /\ g \in Records /\ g.st = "interrupted" /\ g.by = l.by /\ g.from = l.from /\ g.turns = s
  BY <1>2, <1>5, RestatusIs DEF Statuses
<1>7. Close(j) = IF l.st = "running" THEN g ELSE i
  BY DEF Close, Folded, l, f, s
<1> HIDE DEF i, g
<1> QED BY <1>1, <1>3, <1>6, <1>7 DEF l, s

LEMMA BackIs ==
    ASSUME IInv, NEW j \in Waiting
    PROVE  LET r == Back(j)
               l == disk.led[j]
           IN
           /\ j \in Jobs /\ j \notin Orphans
           /\ r \in Records /\ r.st = "queued" /\ r.by = NoJob /\ r.from = l.from
           /\ r.turns = l.turns /\ r.att = l.att
           /\ r.done = IF l.att THEN disk.jr[j].ends ELSE 0
           /\ l.st = "queued" /\ l.by = NoJob /\ Restorable(j)
<1> DEFINE l == disk.led[j]
           n == IF l.att THEN disk.jr[j].ends ELSE 0
<1>1. j \in Jobs /\ j \notin Orphans /\ l.st = "queued" /\ Restorable(j)
  BY DEF Orphans, Waiting, Left, Again
<1>2. l \in Records /\ disk.jr[j] \in Journals /\ HasHeir(disk, j)
  BY <1>1 DEF IInv, TypeOK
<1>3. l.by = NoJob
  BY <1>1, <1>2 DEF HasHeir
<1>4. n \in 0..Rounds /\ 0 \in 0..MaxProc
  BY <1>2, LedgerAssumption DEF Journals
<1> HIDE DEF n
<1>5. Back(j) = [l EXCEPT !.w = 0, !.done = n]
  BY DEF Back, n
<1> HIDE DEF l
<1> QED BY <1>1, <1>2, <1>3, <1>4, <1>5 DEF Records, l, n

\* What a stage of a boot leaves of each job.
LEMMA StageIs ==
    ASSUME IInv, NEW p \in Procs, NEW old, NEW O, NEW A, NEW X, NEW Y, IsStage(old, O, A, X, Y)
    PROVE  LET d == BootDisk(p, O, A, X, Y) IN
           /\ d \in DiskType
           /\ \A j \in Jobs :
                /\ d.led[j] = IF j \in O THEN Stamped(p, Close(j))
                              ELSE IF j \in A THEN Stamped(p, Back(j)) ELSE disk.led[j]
                /\ d.args[j] = (disk.args[j] /\ j \notin X)
                /\ d.jr[j] = IF j \in Y THEN NoJournal ELSE disk.jr[j]
<1> DEFINE led == [j \in Jobs |-> CASE j \in O -> Stamped(p, Close(j))
                                    [] j \in A \ O -> Stamped(p, Back(j))
                                    [] OTHER -> disk.led[j]]
           ar == [j \in Jobs |-> disk.args[j] /\ j \notin X]
           jr == [j \in Jobs |-> IF j \in Y THEN NoJournal ELSE disk.jr[j]]
           d == [led |-> led, args |-> ar, jr |-> jr]
<1>1. d = BootDisk(p, O, A, X, Y)
  BY DEF BootDisk
<1>2. /\ disk.led \in [Jobs -> Records] /\ disk.jr \in [Jobs -> Journals]
      /\ disk.args \in [Jobs -> BOOLEAN]
  BY Before
<1>3. \A j \in O : Stamped(p, Close(j)) \in Records
  BY CloseIs, StampedIs DEF IsStage
<1>4. \A j \in A : Stamped(p, Back(j)) \in Records
  BY BackIs, StampedIs DEF IsStage
<1>5. \A j \in Jobs : led[j] = IF j \in O THEN Stamped(p, Close(j))
                               ELSE IF j \in A THEN Stamped(p, Back(j)) ELSE disk.led[j]
  <2> HIDE DEF Stamped, Close, Back
  <2> TAKE j \in Jobs
  <2>1. CASE j \in O
    BY <2>1
  <2>2. CASE j \notin O /\ j \in A
    BY <2>2
  <2>3. CASE j \notin O /\ j \notin A
    BY <2>3
  <2> QED BY <2>1, <2>2, <2>3
<1>6. led \in [Jobs -> Records]
  <2>1. \A j \in Jobs : led[j] \in Records
    <3> HIDE DEF led
    <3> QED BY <1>2, <1>3, <1>4, <1>5
  <2>2. led = [j \in Jobs |-> led[j]]
    OBVIOUS
  <2> HIDE DEF led
  <2> QED BY <2>1, <2>2
<1>7. ar \in [Jobs -> BOOLEAN] /\ \A j \in Jobs : ar[j] = (disk.args[j] /\ j \notin X)
  BY <1>2
<1>8. jr \in [Jobs -> Journals] /\ \A j \in Jobs : jr[j] = IF j \in Y THEN NoJournal ELSE disk.jr[j]
  BY <1>2, NoJournalType
<1> HIDE DEF led, ar, jr
<1>9. d \in DiskType
  BY <1>6, <1>7, <1>8 DEF DiskType
<1> QED BY <1>1, <1>5, <1>7, <1>8, <1>9

\* The rounds of a job that a boot closes.
LEMMA ClosedRounds ==
    ASSUME NEW l \in Records, NEW jr \in Journals, l.st \in Shown, DiskRounds(l, jr),
           NEW s \in Records, s.st = "interrupted",
           s.turns = IF l.st = "running" THEN l.turns \o jr.turns ELSE l.turns,
           NEW g, g = jr \/ (g = NoJournal /\ l.st = "queued")
    PROVE  DiskRounds(s, g)
<1>1. Tally(l, l, jr)
  BY TallyIs
<1>2. CASE l.st = "running"
  <2>1. InOrder(s.turns) /\ g = jr
    BY <1>2 DEF DiskRounds
  <2>2. Len(s.turns) = Len(l.turns) + Len(jr.turns)
    <3> DEFINE x == l.turns
               y == jr.turns
    <3>1. x \in Seq(1..Rounds) /\ y \in Seq(1..Rounds)
      BY <1>1 DEF Tally
    <3> HIDE DEF x, y
    <3>2. Len(x \o y) = Len(x) + Len(y)
      BY <3>1
    <3> QED BY <1>2, <3>2 DEF x, y
  <2>3. jr.has => jr.ends <= Len(s.turns) /\ jr.ends <= Len(s.turns) + Len(jr.turns)
    <3> DEFINE x == Len(s.turns)
               y == Len(jr.turns)
               n == jr.ends
    <3>1. y \in Nat /\ n \in Nat /\ x \in Nat /\ (jr.has => n <= x)
      <4>1. x \in Nat
        <5> DEFINE z == s.turns
        <5>1. z \in Seq(1..Rounds)
          BY DEF Records
        <5> HIDE DEF z
        <5>2. Len(z) \in Nat
          BY <5>1
        <5> QED BY <5>2 DEF z
      <4> QED BY <1>1, <2>2, <4>1 DEF Tally, DiskRounds
    <3> HIDE DEF x, y, n
    <3>2. jr.has => n <= x /\ n <= x + y
      BY <3>1
    <3> QED BY <3>2 DEF x, y, n
  <2>4. ~jr.has => jr.turns = <<>>
    BY DEF DiskRounds
  <2> QED BY <2>1, <2>3, <2>4 DEF DiskRounds
<1>3. CASE l.st = "queued"
  <2>1. s.turns = l.turns /\ InOrder(l.turns) /\ jr.turns = <<>> /\ (jr.has => jr.ends = Len(l.turns))
    BY <1>3 DEF DiskRounds
  <2>2. jr.has => jr.ends <= Len(l.turns) /\ jr.ends <= Len(l.turns) + Len(jr.turns)
    BY <1>1, <2>1 DEF Tally, DiskRounds
  <2>3. DiskRounds(s, jr)
    BY <2>1, <2>2 DEF DiskRounds
  <2>4. DiskRounds(s, NoJournal)
    BY <2>3, RoundsGone
  <2> QED BY <2>3, <2>4
<1> QED BY <1>2, <1>3 DEF Shown

\* A stage of a boot fits.
LEMMA StageFits ==
    ASSUME IInv, NEW p \in Procs, proc[p].up = "off",
           NEW old, old \subseteq Left("interrupted"),
           NEW O, NEW A, NEW X, NEW Y, IsStage(old, O, A, X, Y)
    PROVE  Fits(p, BootDisk(p, O, A, X, Y))
<1> DEFINE d == BootDisk(p, O, A, X, Y)
<1>1. /\ d \in DiskType
      /\ \A j \in Jobs :
            /\ d.led[j] = IF j \in O THEN Stamped(p, Close(j))
                          ELSE IF j \in A THEN Stamped(p, Back(j)) ELSE disk.led[j]
            /\ d.args[j] = (disk.args[j] /\ j \notin X)
            /\ d.jr[j] = IF j \in Y THEN NoJournal ELSE disk.jr[j]
  BY StageIs
<1> HIDE DEF d
<1>2. /\ O \subseteq Orphans /\ A \subseteq Waiting
      /\ X \subseteq SweptAt(old) /\ Y \subseteq Lost(Orphans) \cup SweptAt(old)
  BY DEF IsStage
<1>3. /\ disk.led \in [Jobs -> Records] /\ disk.jr \in [Jobs -> Journals] /\ DiskTalk(disk)
  BY Before
<1>4. ~Closes(p)
  BY DEF Closes
<1>5. ASSUME NEW j \in O
      PROVE  LET s == d.led[j]
                 l == disk.led[j]
             IN
             /\ j \in Jobs /\ j \in Orphans /\ j \notin Waiting
             /\ s \in Records /\ s.st = "interrupted" /\ s.by = NoJob /\ s.from = l.from /\ s.w = p
             /\ s.turns = IF l.st = "running" THEN l.turns \o disk.jr[j].turns ELSE l.turns
             /\ l.st \in Shown /\ l.by = NoJob
             /\ l.st = "queued" => ~Restorable(j)
  <2> DEFINE r == Close(j)
             l == disk.led[j]
  <2>1. /\ j \in Jobs /\ j \in Orphans /\ j \notin Waiting
        /\ r \in Records /\ r.st = "interrupted" /\ r.by = NoJob /\ r.from = l.from
        /\ r.turns = IF l.st = "running" THEN l.turns \o disk.jr[j].turns ELSE l.turns
        /\ l.st \in Shown /\ l.by = NoJob
        /\ l.st = "queued" => ~Restorable(j)
    BY <1>2, CloseIs
  <2> HIDE DEF r
  <2>2. LET s == Stamped(p, r) IN
        s \in Records /\ s.st = r.st /\ s.turns = r.turns /\ s.by = r.by /\ s.from = r.from /\ s.w = p
    BY <2>1, StampedIs
  <2>3. d.led[j] = Stamped(p, r)
    BY <1>1, <2>1 DEF r
  <2> QED BY <2>1, <2>2, <2>3
<1>6. ASSUME NEW j \in A, j \notin O
      PROVE  LET s == d.led[j]
                 l == disk.led[j]
             IN
             /\ j \in Jobs /\ j \in Waiting /\ j \notin Orphans
             /\ s.st = l.st /\ s.by = NoJob /\ s.from = l.from /\ s.turns = l.turns /\ s.att = l.att /\ s.w = p
             /\ l.st = "queued" /\ l.by = NoJob
  <2> DEFINE r == Back(j)
             l == disk.led[j]
  <2>1. /\ j \in Jobs /\ j \in Waiting /\ j \notin Orphans
        /\ r \in Records /\ r.st = "queued" /\ r.by = NoJob /\ r.from = l.from
        /\ r.turns = l.turns /\ r.att = l.att
        /\ l.st = "queued" /\ l.by = NoJob
    BY <1>2, BackIs
  <2> HIDE DEF r
  <2>2. LET s == Stamped(p, r) IN
        s.st = r.st /\ s.turns = r.turns /\ s.att = r.att /\ s.by = r.by /\ s.from = r.from /\ s.w = p
    BY <2>1, StampedIs
  <2>3. d.led[j] = Stamped(p, r)
    BY <1>1, <1>6, <2>1 DEF r
  <2> QED BY <2>1, <2>2, <2>3
<1>7. ASSUME NEW j \in Jobs PROVE d.led[j] = disk.led[j] \/ Written(p, j, d)
  <2>1. CASE j \in O
    <3>1. d.led[j].st # "none" /\ HasHeir(d, j)
      BY <1>5, <2>1 DEF HasHeir
    <3> QED BY <1>4, <1>5, <2>1, <3>1 DEF Written, Shown, Over
  <2>2. CASE j \in A /\ j \notin O
    <3>1. d.led[j].st = "queued" /\ HasHeir(d, j)
      BY <1>6, <2>2 DEF HasHeir
    <3> QED BY <1>4, <1>6, <2>2, <3>1 DEF Written, Over
  <2>3. CASE j \notin A /\ j \notin O
    BY <1>1, <2>3
  <2> QED BY <2>1, <2>2, <2>3
<1>8. ASSUME NEW j \in Jobs, disk.args[j], ~d.args[j] PROVE MayGo(p, j, d)
  <2>1. j \in X /\ j \in SweptAt(old)
    BY <1>1, <1>2, <1>8
  <2>2. j \notin Orphans /\ j \notin Waiting
        /\ (disk.led[j].st \in Over \cup {"none"} \/ disk.led[j].by # NoJob \/ j \in old)
    BY <2>1 DEF SweptAt
  <2>3. d.led[j] = disk.led[j]
    BY <1>1, <1>2, <2>2
  <2> QED BY <2>2, <2>3 DEF MayGo, Left
<1>9. ASSUME NEW j \in Jobs PROVE d.jr[j].ino \in {0, p, disk.jr[j].ino}
  <2>1. NoJournal.ino = 0
    BY DEF NoJournal
  <2> QED BY <1>1, <2>1
<1>10. DiskTalk(d)
  <2> SUFFICES ASSUME Quiet, NEW j \in Jobs PROVE DiskRounds(d.led[j], d.jr[j])
    BY DEF DiskTalk
  <2>1. /\ disk.led[j] \in Records /\ disk.jr[j] \in Journals
        /\ DiskRounds(disk.led[j], disk.jr[j])
    BY <1>3 DEF DiskTalk
  <2>2. d.jr[j] = disk.jr[j] \/ (j \in Y /\ d.jr[j] = NoJournal)
    BY <1>1
  <2>3. CASE j \in O
    <3>1. j \in Y => disk.led[j].st = "queued"
      BY <1>2, <1>5, <2>3 DEF Lost, SweptAt
    <3>2. d.jr[j] = disk.jr[j] \/ (d.jr[j] = NoJournal /\ disk.led[j].st = "queued")
      BY <2>2, <3>1
    <3> QED BY <1>5, <2>1, <2>3, <3>2, ClosedRounds
  <2>4. CASE j \in A /\ j \notin O
    <3>1. j \notin Y
      BY <1>2, <1>6, <2>4 DEF Lost, SweptAt
    <3>2. d.jr[j] = disk.jr[j]
      BY <2>2, <3>1
    <3> QED BY <1>6, <2>1, <2>4, <3>2 DEF DiskRounds
  <2>5. CASE j \notin A /\ j \notin O
    <3>1. d.led[j] = disk.led[j]
      BY <1>1, <2>5
    <3>2. DiskRounds(disk.led[j], NoJournal)
      <4>1. InOrder(disk.led[j].turns)
        BY <2>1 DEF DiskRounds
      <4> QED BY <2>1, <4>1, RoundsGone
    <3> QED BY <2>1, <2>2, <3>1, <3>2
  <2> QED BY <2>3, <2>4, <2>5
<1>11. Fits(p, d)
  BY <1>1, <1>7, <1>8, <1>9, <1>10 DEF Fits
<1> QED BY <1>11 DEF d

\* The disks of a boot that is cut: the journal of j went before its record, or
\* the records of U are written; the queued jobs of U are; the files of U and
\* the arguments of j are swept.
CutLost(p, U, j) == BootDisk(p, U, {}, {}, (U \cap Lost(Orphans)) \cup {j})
CutClosed(p, U) == BootDisk(p, U, {}, {}, U \cap Lost(Orphans))
CutQueued(p, U) == BootDisk(p, Orphans, U, {}, Lost(Orphans))
CutSwept(p, U, j) == BootDisk(p, Orphans, Waiting, U \cup {j}, Lost(Orphans) \cup U)

BootCuts(p, old) ==
    {CutLost(p, U, j) : U \in SUBSET Orphans, j \in Lost(Orphans)}
      \cup {CutClosed(p, U) : U \in SUBSET Orphans}
      \cup {CutQueued(p, U) : U \in SUBSET Waiting}
      \cup {CutSwept(p, U, j) : U \in SUBSET SweptAt(old), j \in SweptAt(old)}

\* Each of them fits.
LEMMA CutsFit ==
    ASSUME IInv, NEW p \in Procs, proc[p].up = "off",
           NEW old, old \subseteq Left("interrupted"),
           NEW c \in BootCuts(p, old)
    PROVE  Fits(p, c)
<1>1. ASSUME NEW U \in SUBSET Orphans, NEW j \in Lost(Orphans) PROVE Fits(p, CutLost(p, U, j))
  <2> DEFINE Y == (U \cap Lost(Orphans)) \cup {j}
  <2>1. IsStage(old, U, {}, {}, Y)
    BY DEF IsStage
  <2> HIDE DEF Y
  <2>2. Fits(p, BootDisk(p, U, {}, {}, Y))
    BY <2>1, StageFits
  <2> QED BY <2>2 DEF Y, CutLost
<1>2. ASSUME NEW U \in SUBSET Orphans PROVE Fits(p, CutClosed(p, U))
  <2> DEFINE Y == U \cap Lost(Orphans)
  <2>1. IsStage(old, U, {}, {}, Y)
    BY DEF IsStage
  <2> HIDE DEF Y
  <2>2. Fits(p, BootDisk(p, U, {}, {}, Y))
    BY <2>1, StageFits
  <2> QED BY <2>2 DEF Y, CutClosed
<1>3. ASSUME NEW U \in SUBSET Waiting PROVE Fits(p, CutQueued(p, U))
  <2>1. IsStage(old, Orphans, U, {}, Lost(Orphans))
    BY DEF IsStage
  <2> QED BY <2>1, StageFits DEF CutQueued
<1>4. ASSUME NEW U \in SUBSET SweptAt(old), NEW j \in SweptAt(old) PROVE Fits(p, CutSwept(p, U, j))
  <2> DEFINE X == U \cup {j}
             Y == Lost(Orphans) \cup U
  <2>1. IsStage(old, Orphans, Waiting, X, Y)
    BY DEF IsStage
  <2> HIDE DEF X, Y
  <2>2. Fits(p, BootDisk(p, Orphans, Waiting, X, Y))
    BY <2>1, StageFits
  <2> QED BY <2>2 DEF X, Y, CutSwept
<1>5. CASE c \in {CutLost(p, U, j) : U \in SUBSET Orphans, j \in Lost(Orphans)}
  BY <1>1, <1>5
<1>6. CASE c \in {CutClosed(p, U) : U \in SUBSET Orphans}
  BY <1>2, <1>6
<1>7. CASE c \in {CutQueued(p, U) : U \in SUBSET Waiting}
  BY <1>3, <1>7
<1>8. CASE c \in {CutSwept(p, U, j) : U \in SUBSET SweptAt(old), j \in SweptAt(old)}
  BY <1>4, <1>8
<1> QED BY <1>5, <1>6, <1>7, <1>8 DEF BootCuts

\* The rounds of a job that waits on.
LEMMA BackRounds ==
    ASSUME NEW l \in Records, NEW jr \in Journals, DiskRounds(l, jr), l.st = "queued",
           l.att => jr.has,
           NEW r \in Records, r.st = "queued", r.turns = l.turns, r.att = l.att,
           r.done = IF l.att THEN jr.ends ELSE 0,
           NEW s, s.turns = r.turns, s.att = r.att
    PROVE  MemoryRounds(r, FALSE, FALSE, s, jr)
<1>1. Tally(l, l, jr)
  BY TallyIs
<1>2. /\ InOrder(r.turns) /\ jr.turns = <<>> /\ (jr.has => l.att /\ jr.ends = Len(l.turns))
      /\ ~l.att => l.turns = <<>>
  BY DEF DiskRounds
<1>3. Len(r.turns) = r.done
  <2>1. CASE l.att
    BY <1>2, <2>1
  <2>2. CASE ~l.att
    BY <1>2, <2>2
  <2> QED BY <2>1, <2>2
<1>4. jr.has => jr.ends <= r.done
  <2>1. jr.has => jr.ends = r.done
    BY <1>2
  <2>2. jr.ends \in Nat
    BY <1>1 DEF Tally
  <2> DEFINE x == jr.ends
             y == r.done
  <2> HIDE DEF x, y
  <2>3. jr.has => x <= y
    BY <2>1, <2>2 DEF x, y
  <2> QED BY <2>3 DEF x, y
<1> QED BY <1>2, <1>3, <1>4 DEF MemoryRounds

\* A boot of the next process.
LEMMA RestartStep ==
    ASSUME IInv, NEW p \in Procs, Restart(p)
    PROVE  StepBy(p)
<1>0. PICK old \in SUBSET Left("interrupted") : Boot(p, old)
  BY DEF Restart
<1>1. /\ proc[p].up = "off" /\ UNCHANGED world /\ Acts(p) /\ ~Closes(p)
  BY DEF Restart, Acts, Gives, Closes
<1> DEFINE O == Orphans
           W == Waiting
           S == SweptAt(old)
           L == Lost(Orphans)
           d == BootDisk(p, O, W, S, L \cup S)
           jobs == [j \in Jobs |-> IF j \in W THEN Back(j) ELSE NoRec]
           m == [Off("up") EXCEPT !.jobs = jobs]
<1>2. CommitAny(p, m, d, BootCuts(p, old))
  BY <1>0 DEF Boot, Orphans, Waiting, SweptAt, BootCuts, CutLost, CutClosed, CutQueued, CutSwept
<1>3. IsStage(old, O, W, S, L \cup S)
  <2> HIDE DEF Orphans, Waiting, SweptAt, Lost
  <2> QED BY DEF IsStage
<1>4. \A c \in BootCuts(p, old) : Fits(p, c)
  BY <1>0, <1>1, CutsFit
<1>5. Fits(p, d)
  BY <1>0, <1>1, <1>3, StageFits
<1>6. /\ \A j \in Jobs :
            /\ d.led[j] = IF j \in O THEN Stamped(p, Close(j))
                          ELSE IF j \in W THEN Stamped(p, Back(j)) ELSE disk.led[j]
            /\ d.args[j] = (disk.args[j] /\ j \notin S)
            /\ d.jr[j] = IF j \in L \cup S THEN NoJournal ELSE disk.jr[j]
  BY <1>3, StageIs
<1>7. /\ disk.led \in [Jobs -> Records] /\ disk.jr \in [Jobs -> Journals]
      /\ disk.args \in [Jobs -> BOOLEAN] /\ DiskTalk(disk)
  BY Before
<1>8. jobs \in [Jobs -> Records] /\ \A j \in Jobs : jobs[j] = IF j \in W THEN Back(j) ELSE NoRec
  <2>1. \A j \in W : Back(j) \in Records
    BY BackIs
  <2>2. NoRec \in Records
    <3>1. <<>> \in Seq(1..Rounds) /\ 0 \in 0..Rounds /\ 0 \in 0..MaxProc
      BY LedgerAssumption
    <3> QED BY <3>1 DEF NoRec, Records, Statuses
  <2> HIDE DEF Back, W, NoRec
  <2> QED BY <2>1, <2>2
<1> HIDE DEF jobs, d
<1>9. /\ m \in Memories /\ m.up = "up" /\ m.jobs = jobs /\ m.in = {} /\ m.fd = {} /\ m.calls = <<>>
  <2> DEFINE o == Off("up")
  <2>1. o \in Memories /\ o.up = "up" /\ o.in = {} /\ o.fd = {} /\ o.calls = <<>>
    BY OffType DEF Off
  <2>2. m = [o EXCEPT !.jobs = jobs]
    OBVIOUS
  <2> HIDE DEF o, m
  <2> QED BY <1>8, <2>1, <2>2 DEF Memories
<1> HIDE DEF m
<1>10. Follows(p, m)
  BY <1>1, <1>9 DEF Follows
<1>11. ASSUME NEW j \in Jobs PROVE OwnAt(p, m, d, j)
  <2>0. /\ j \notin m.in /\ j \notin m.fd /\ m.jobs[j] = IF j \in W THEN Back(j) ELSE NoRec
    BY <1>8, <1>9
  <2>1. CASE j \in W
    <3> DEFINE r == Back(j)
               l == disk.led[j]
               s == d.led[j]
    <3>1. /\ j \notin O
          /\ r \in Records /\ r.st = "queued" /\ r.by = NoJob /\ r.from = l.from
          /\ r.turns = l.turns /\ r.att = l.att
          /\ r.done = IF l.att THEN disk.jr[j].ends ELSE 0
          /\ l.st = "queued" /\ l.by = NoJob /\ Restorable(j)
      BY <2>1, BackIs
    <3>2. m.jobs[j] = r
      BY <2>0, <2>1
    <3>3. s = Stamped(p, r)
      BY <1>6, <2>1, <3>1
    <3> HIDE DEF r, s
    <3>4. s.st = "queued" /\ s.by = NoJob /\ s.from = r.from /\ s.turns = r.turns /\ s.att = r.att /\ s.w = p
      BY <3>1, <3>3, StampedIs
    <3>5. d.jr[j] = disk.jr[j]
      <4>1. j \notin L /\ j \notin S
        BY <2>1, <3>1 DEF Lost, SweptAt
      <4> QED BY <1>6, <4>1
    <3>6. Quiet => MemoryRounds(r, FALSE, FALSE, s, d.jr[j])
      <4> SUFFICES ASSUME Quiet PROVE MemoryRounds(r, FALSE, FALSE, s, disk.jr[j])
        BY <3>5
      <4>1. DiskRounds(l, disk.jr[j]) /\ l \in Records /\ disk.jr[j] \in Journals
        BY <1>7 DEF DiskTalk
      <4>2. l.att => disk.jr[j].has
        BY <3>1 DEF Restorable
      <4> HIDE DEF l
      <4> QED BY <3>1, <3>4, <4>1, <4>2, BackRounds
    <3>7. (j \in m.in) = FALSE /\ (j \in m.fd) = FALSE
      BY <2>0
    <3> QED BY <2>0, <3>1, <3>2, <3>4, <3>6, <3>7 DEF OwnAt, OwnRec, Over, s
  <2>2. CASE j \in O
    <3>1. d.led[j].st = "interrupted" /\ d.led[j].by = NoJob /\ j \notin W
      BY <1>6, <2>2, CloseIs, StampedIs
    <3>2. m.jobs[j] = NoRec
      BY <2>0, <3>1
    <3> QED BY <2>0, <3>1, <3>2 DEF OwnAt, OwnRec, Over, Shown, NoRec, MemoryRounds, InOrder
  <2>3. CASE j \notin W /\ j \notin O
    <3>1. m.jobs[j] = NoRec /\ d.led[j] = disk.led[j]
      BY <1>6, <2>0, <2>3
    <3>2. disk.led[j].st \notin Shown
      BY <2>3 DEF Orphans, Waiting, Left, Shown
    <3>3. d.args[j] \/ d.jr[j].has => disk.led[j].st \notin Over \cup {"none"} /\ disk.led[j].by = NoJob
      <4>1. d.args[j] \/ d.jr[j].has => j \notin S
        <5>1. j \in S => d.args[j] = FALSE
          BY <1>6
        <5>2. j \in S => d.jr[j] = NoJournal
          BY <1>6
        <5>3. NoJournal.has = FALSE
          BY DEF NoJournal
        <5> QED BY <5>1, <5>2, <5>3
      <4> QED BY <2>3, <4>1 DEF SweptAt
    <3>4. (j \in m.in) = FALSE /\ (j \in m.fd) = FALSE
      BY <2>0
    <3> DEFINE l == disk.led[j]
               a == d.args[j]
               b == d.jr[j]
    <3>5. OwnRec(p, m.up, NoRec, FALSE, FALSE, l, a, b)
      <4> HIDE DEF l, a, b
      <4>1. l.st \notin Shown /\ (a \/ b.has => l.st \notin Over \cup {"none"} /\ l.by = NoJob)
        BY <3>2, <3>3 DEF l, a, b
      <4> QED BY <4>1 DEF OwnRec, NoRec, MemoryRounds, InOrder, Shown
    <3> QED BY <3>1, <3>4, <3>5 DEF OwnAt
  <2> QED BY <2>1, <2>2, <2>3
<1>12. Own(p, m, d)
  <2>1. \A i \in DOMAIN m.calls : IsCopy(m.calls[i], d)
    BY <1>9
  <2> QED BY <1>11, <2>1, OwnIs
<1> HIDE DEF m
<1> QED BY <1>1, <1>2, <1>4, <1>5, <1>10, <1>12, Committed

-----------------------------------------------------------------------------
(* The invariant.                                                          *)

LEMMA InitKept == Init => IInv
<1> SUFFICES ASSUME Init PROVE IInv
  OBVIOUS
<1>1. /\ \A p \in Procs : proc[p] = Off("off")
      /\ \A j \in Jobs : disk.led[j] = NoRec /\ disk.jr[j] = NoJournal
  BY DEF Init
<1>2. NoRec \in Records
  <2>1. <<>> \in Seq(1..Rounds) /\ 0 \in 0..Rounds /\ 0 \in 0..MaxProc
    BY LedgerAssumption
  <2> QED BY <2>1 DEF NoRec, Records, Statuses
<1>3. TypeOK
  <2>1. Off("off") \in Memories
    BY OffType
  <2> QED BY <1>2, <2>1, NoJournalType DEF Init, TypeOK
<1>4. Order
  <2>1. \A p \in Procs : proc[p].up = "off" /\ proc[p].calls = <<>>
    BY <1>1 DEF Off
  <2>2. \A p \in Procs, j \in Jobs : disk.led[j].w # p /\ disk.jr[j].ino # p
    BY <1>1, LedgerAssumption DEF NoRec, NoJournal
  <2> QED BY <1>1, <2>1, <2>2 DEF Order
<1>5. \A j \in Jobs : HasHeir(disk, j)
  BY <1>1 DEF HasHeir, NoRec
<1>6. DiskTalk(disk)
  <2>1. DiskRounds(NoRec, NoJournal)
    BY DEF DiskRounds, InOrder, NoRec, NoJournal
  <2> QED BY <1>1, <2>1 DEF DiskTalk
<1>7. \A p \in Procs : Own(p, proc[p], disk)
  BY <1>1, DeadOwn
<1> QED BY <1>3, <1>4, <1>5, <1>6, <1>7 DEF IInv

\* Every step is a step of a process.
LEMMA NextStep ==
    ASSUME IInv, Next
    PROVE  \E p \in Procs : StepBy(p)
<1>1. PICK p \in Procs :
         \/ \E j \in Jobs : Request(p, j) \/ Task(p, j)
         \/ \E i \in DOMAIN proc[p].calls : ContinueGo(p, i)
         \/ Process(p)
  BY DEF Next
<1>2. ASSUME NEW j \in Jobs, Request(p, j) PROVE StepBy(p)
  BY <1>2, StartStep, CancelQueuedStep, CancelRunningStep, ContinueStep, ContinueAskStep DEF Request
<1>3. ASSUME NEW j \in Jobs, Task(p, j) PROVE StepBy(p)
  BY <1>3, LaunchStep, EnterStep, SeatedStep, TurnStep, RoundEndStep, FinishStep, JournalFailsStep DEF Task
<1>4. ASSUME NEW i \in DOMAIN proc[p].calls, ContinueGo(p, i) PROVE StepBy(p)
  BY <1>4, ContinueGoStep
<1>5. CASE Process(p)
  BY <1>5, RestartStep, ExitSignalStep, ShutdownStep, DieStep DEF Process
<1> QED BY <1>1, <1>2, <1>3, <1>4, <1>5

LEMMA NextKept == IInv /\ [Next]_vars => IInv'
<1> SUFFICES ASSUME IInv, [Next]_vars PROVE IInv'
  OBVIOUS
<1>1. CASE Next
  BY <1>1, NextStep, StepKept
<1>2. CASE UNCHANGED vars
  <2>1. disk' = disk /\ proc' = proc /\ overlaps' = overlaps /\ asks' = asks
    BY <1>2 DEF vars
  <2> QED BY <2>1 DEF IInv, TypeOK, Order, Gives, Closes, HasHeir, DiskTalk, Own, Bodies, Copies, IsCopy,
             Owns, Agrees, Talks, Swept, Quiet
<1> QED BY <1>1, <1>2

LEMMA SpecKeeps == Spec => []IInv
BY InitKept, NextKept, PTL DEF Spec

LEMMA RoundsKept == IInv => RoundsAreKept
<1> SUFFICES ASSUME IInv PROVE RoundsAreKept
  OBVIOUS
<1>1. TypeOK /\ DiskTalk(disk) /\ \A p \in Procs : Own(p, proc[p], disk)
  BY DEF IInv
<1> SUFFICES ASSUME Quiet PROVE TranscriptIsWhole /\ RestoredRoundsSpoken
  BY <1>1 DEF RoundsAreKept, Quiet
<1>2. \A j \in Jobs : DiskRounds(disk.led[j], disk.jr[j])
  BY <1>1 DEF DiskTalk
<1>3. \A p \in Procs, j \in Jobs : InOrder(proc[p].jobs[j].turns)
  BY <1>1 DEF Own, Talks, MemoryRounds
<1>4. TranscriptIsWhole
  BY <1>2, <1>3 DEF TranscriptIsWhole, DiskRounds, InOrder
<1>5. RestoredRoundsSpoken
  BY <1>2 DEF RestoredRoundsSpoken, DiskRounds
<1> QED BY <1>4, <1>5

LEMMA OwnersKept == IInv => JobsAreOwned
<1> SUFFICES ASSUME IInv PROVE JobsAreOwned
  OBVIOUS
<1>1. \A p \in Procs : Own(p, proc[p], disk)
  BY DEF IInv
<1>2. MarkHasHeir
  BY DEF IInv, MarkHasHeir, HasHeir
<1>3. ~(overlaps /\ asks) => NobodyWaitsForever
  BY <1>1 DEF Own, Owns, NobodyWaitsForever, Shown
<1>4. ~overlaps /\ ~asks => FilesAreSwept
  BY <1>1 DEF Own, Swept, Quiet, FilesAreSwept
<1> QED BY <1>2, <1>3, <1>4 DEF JobsAreOwned

\* What a step does not do to a mark, an end, the line and the arguments.
LEMMA EndsStay ==
    ASSUME IInv, [Next]_vars, ~asks
    PROVE  MarkStays /\ OverStays
<1>1. CASE Next
  <2>1. PICK p \in Procs : StepBy(p)
    BY <1>1, NextStep
  <2>2. ASSUME NEW j \in Jobs PROVE disk'.led[j] = disk.led[j] \/ (disk.led[j].by = NoJob /\ disk.led[j].st \notin Over)
    BY <2>1 DEF StepBy, Fits, Written
  <2>3. \A j \in Jobs : HasHeir(disk, j)
    BY DEF IInv
  <2> QED BY <2>2, <2>3 DEF MarkStays, OverStays, HasHeir
<1>2. CASE UNCHANGED vars
  <2>1. \A j \in Jobs : HasHeir(disk, j)
    BY DEF IInv
  <2> QED BY <1>2, <2>1 DEF vars, MarkStays, OverStays, HasHeir
<1> QED BY <1>1, <1>2

LEMMA LineStaysThere ==
    ASSUME IInv, [Next]_vars, ~asks
    PROVE  LineStays /\ ArgsStay
<1>1. CASE Next
  <2>1. PICK p \in Procs : StepBy(p)
    BY <1>1, NextStep
  <2>2. Fits(p, disk') /\ Follows(p, proc'[p])
    BY <2>1 DEF StepBy
  <2>3. LineStays
    BY <2>2 DEF LineStays, Left, Fits, Written
  <2>4. ASSUME NEW j \in Jobs, disk.args[j], ~disk.args'[j]
        PROVE  \/ disk.led'[j].st \in Over \/ disk.led'[j].by # NoJob
               \/ /\ disk.led[j].st \in {"none", "interrupted"}
                  /\ \E q \in Procs : proc[q].up = "off" /\ proc'[q].up # "off"
               \/ \E q \in Procs : proc[q].jobs[j].st = "running" /\ j \notin proc[q].in
    <3>1. MayGo(p, j, disk')
      BY <2>2, <2>4 DEF Fits
    <3>2. proc'[p].up # "off"
      BY <2>2 DEF Follows
    <3> QED BY <3>1, <3>2 DEF MayGo
  <2> QED BY <2>3, <2>4 DEF ArgsStay
<1>2. CASE UNCHANGED vars
  <2>1. \A j \in Jobs : (disk'.led[j] = disk.led[j]) /\ (disk'.args[j] <=> disk.args[j])
    BY <1>2 DEF vars
  <2> QED BY <2>1 DEF LineStays, ArgsStay, Left
<1> QED BY <1>1, <1>2

-----------------------------------------------------------------------------
(* The theorems.                                                           *)

\* Whatever is cut, folded and restored, by however many processes one after
\* the other (_reopen, _fold_journal, _rewrite_journal): a transcript has the
\* rounds 1, 2, ... once each and in order, in memory and in the ledger, and
\* the rounds a journal gives back have their turns.
THEOREM RoundsStayWhole == Spec => []RoundsAreKept
BY SpecKeeps, RoundsKept, PTL

\* A continued job has an heir; a server that is up has every job the ledger
\* shows as waiting or running (reap_orphans, _requeue), unless a closing
\* process answers a call that had waited, and keeps no files of a job that is
\* over (_drop_args, _sweep_args).
THEOREM JobsHaveOwners == Spec => []JobsAreOwned
BY SpecKeeps, OwnersKept, PTL

\* Nobody takes back the mark of a continued job or the end of a job
\* (_closed_elsewhere): not a process that goes down late, not the next one.
THEOREM EndsStayFinal == Spec => EndsAreFinal
<1>1. IInv /\ [Next]_vars => [~asks => MarkStays /\ OverStays]_vars
  BY EndsStay
<1> QED BY <1>1, SpecKeeps, PTL DEF Spec, EndsAreFinal

\* A restart does not cut a job that waits with all it needs (_requeue), and
\* the arguments of a job go only where nobody may need them again.
THEOREM NothingGetsDropped == Spec => NothingIsDropped
<1>1. IInv /\ [Next]_vars => [~asks => LineStays /\ ArgsStay]_vars
  BY LineStaysThere
<1> QED BY <1>1, SpecKeeps, PTL DEF Spec, NothingIsDropped
=============================================================================

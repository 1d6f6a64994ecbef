-------------------------- MODULE DelibEngineProofs --------------------------
(***************************************************************************)
(* Proofs about DelibEngine, for any seats, rounds, jobs and bounds: a     *)
(* round that the journal calls ended is whole and is what the ledger      *)
(* shows, the chair reads the transcript, notices are told once over all   *)
(* processes, and the engine, killed and resumed anywhere, implements      *)
(* DelibProgress, which is never killed.  In the second part, about the    *)
(* board its external seats wait on: an answer is one claim's, nobody      *)
(* waits beyond the limits, and who is busy is not judged absent.          *)
(***************************************************************************)
EXTENDS DelibEngine, ExternalBoard, FiniteSetTheorems, SequenceTheorems, WellFoundedInduction, TLAPS

-----------------------------------------------------------------------------
(* Types.                                                                  *)

InRound == {"look", "gather", "speak", "close"}
Deciding == {"chair", "decide", "plain", "intent", "save", "saved", "wiki", "result"}
Outside == {"stagein", "enter"}
Inside == {"head", "stopped", "chairin", "checkpoint"} \cup InRound \cup Deciding
Final == {"decision", "plain", "intent", "saved"}

MemType ==
    [at : Outside \cup Inside \cup {"down"}, st : Nat \ {0}, r : Place, cur : SUBSET Answers,
     pend : SUBSET Seats, tell : SUBSET Answers, data : [Round -> SUBSET Answers],
     look : 0..MaxAttempts, due : Seq(Notice), left : SUBSET Notice, seen : BOOLEAN,
     cut : 0..Rounds + 1, post : SUBSET Post, failed : BOOLEAN, tries : Nat,
     fd : BOOLEAN, eoff : BOOLEAN]

FileType ==
    [st : Nat, entered : BOOLEAN, pre : BOOLEAN, off : BOOLEAN, here : 0..Rounds + 1,
     look : [Round -> 0..MaxAttempts], raws : [Round -> SUBSET Answers],
     ended : [Round -> BOOLEAN], lost : [Round -> SUBSET Seats], post : SUBSET Post,
     failed : BOOLEAN, notes : [Place -> SUBSET Notice]]

LedgerType(tu, no, sa, ck) ==
    /\ tu \in [Round -> Seq(Answers)]
    /\ no \in [DOMAIN no -> Nat] /\ DOMAIN no \subseteq Notice
    /\ ck \in Nat /\ sa \in Nat

-----------------------------------------------------------------------------
(* The journal f of the job j beside the ledger: tu, no, ck, and the       *)
(* number sa of reports made.                                              *)

ShownIn(tu, r) == {tu[r][i] : i \in 1..Len(tu[r])}
InStage(f) == f.pre /\ ~f.entered
Whole(j, f, r) ==
    /\ f.ended[r] /\ Of(f.raws[r]) \union f.lost[r] = Seats
    /\ ~(r = 1 /\ j.stop)
IsRestorable(j, f, k) ==
    /\ \A r \in 1..k : Whole(j, f, r)
    /\ k < Rounds => ~Whole(j, f, k + 1)
RestorableOf(j, f) == CHOOSE k \in 0..Rounds : IsRestorable(j, f, k)

\* Who is heard in a round is heard once, on the round's lookup; an ended round
\* is whole, one behind the cut round is empty, and only a stage whose rounds
\* are restored has steps after the decision.
RoundsOK(j, f) ==
    /\ \A r \in Round :
        /\ \A a, b \in f.raws[r] : a.g = f.look[r] /\ (a.s = b.s => a = b)
        /\ f.ended[r] => /\ r <= RestorableOf(j, f) \/ (j.stop /\ r = 1)
                         /\ Of(f.raws[r]) = Seats \ f.lost[r]
        /\ r > RestorableOf(j, f) + 1 => f.raws[r] = {} /\ f.look[r] = 0
    /\ RestorableOf(j, f) # Rounds => f.post = {}

\* What the ledger has of an ended round.
LedgerOK(f, tu, no) ==
    \A r \in Round : f.ended[r] =>
        /\ ShownIn(tu, r) = f.raws[r] /\ Len(tu[r]) = Cardinality(f.raws[r])
        /\ f.lost[r] # {} => Note(r, "lost", f.lost[r]) \in DOMAIN no

\* What a next process must know: the notices of the cut round, and that a
\* report may have been made.
NotesOK(f, k, no, sa) ==
    /\ \A n \in DOMAIN no : n.r <= k /\ (n.r = k => n \in f.notes[k])
    /\ f.notes[k] \subseteq DOMAIN no
    /\ \A p \in Place : p > k => f.notes[p] = {}
    /\ sa > 0 => "intent" \in f.post

JournalOK(j, f, tu, no, sa, ck) ==
    /\ ~f.off => f.st >= ck
    /\ InStage(f) /\ f.st > ck =>
        /\ f.st = ck + 1
        /\ RoundsOK(j, f) /\ LedgerOK(f, tu, no)
        /\ ~f.off => NotesOK(f, RestorableOf(j, f) + 1, no, sa)

-----------------------------------------------------------------------------
(* The engine's memory x, while its process lives.                         *)

\* Where it is, and who is to be heard.
PlaceOK(x) ==
    /\ x.at \in Outside => /\ x.r = 1 /\ x.cur = {} /\ x.tell = {}
                           /\ x.look = 0 /\ x.post = {}
    /\ x.at \in InRound \cup {"head"} =>
         x.r \in Round /\ x.post = {} /\ x.cur \cap x.tell = {}
    /\ x.at \in InRound => x.pend \cap Of(x.cur \cup x.tell) = {}
    /\ x.at = "head" => x.cur = {}
    /\ x.at \in Deciding \cup {"chairin", "checkpoint"} => x.r = Rounds + 1
    /\ x.at \in InRound \cup Deciding => (x.seen <=> x.r = x.cut)
    /\ x.at \in Inside /\ x.left # {} => x.r = x.cut
    /\ IsFiniteSet(x.cur)

\* What it is about to tell.
Gone(x) == Seats \ Of(x.cur)
Due(x, what, who) == Note(x.r, what, who)
DueOK(x) ==
    x.due # <<>> =>
        \/ x.at = "gather" /\ x.due = <<Due(x, "look", {})>>
        \/ x.at = "close" /\ \/ x.due = <<Due(x, "lost", Gone(x)), Due(x, "card", Gone(x))>>
                             \/ x.due = <<Due(x, "card", Gone(x))>>
        \/ x.at = "decide" /\ x.due = <<Due(x, "short", {})>>
        \/ x.at = "intent" /\ x.due = <<Due(x, "maybe", {})>>

\* The ledger shows what the engine has heard.
TurnsOK(x, tu) ==
    /\ \A r \in Round :
        /\ r < x.r => x.data[r] = ShownIn(tu, r)
        /\ r = x.r => x.cur = ShownIn(tu, r) /\ Len(tu[r]) = Cardinality(x.cur)
        /\ r > x.r => tu[r] = <<>>
    /\ x.at = "close" => x.data[x.r] = x.cur

\* A notice of the place is one of the cut process or has been told by this one.
ToldAt(what, at) ==
    \/ what = "look" /\ at \in {"gather", "speak", "close"}
    \/ what \in {"lost", "card"} /\ at = "close"
    \/ what = "short" /\ at \in Deciding \ {"chair"}
    \/ what = "maybe" /\ at \in {"intent", "save", "saved", "wiki", "result"}
Told(n, x) == ToldAt(n.what, x.at) /\ \A i \in DOMAIN x.due : x.due[i] # n
ToldOK(x, no) ==
    x.at \in Inside \ {"stopped", "checkpoint"} =>
        /\ \A n \in DOMAIN no : n.r <= x.r /\ (n.r = x.r => n \in x.left \/ Told(n, x))
        /\ x.left \subseteq DOMAIN no
        /\ x.at = "close" /\ Len(x.due) < 2 /\ Gone(x) # {} => Due(x, "lost", Gone(x)) \in DOMAIN no

\* A report that may be the second one was announced.
Maybe == Note(Rounds + 1, "maybe", {})
SavesOK(j, x, no, sa) ==
    x.at \in Inside =>
        /\ sa > 0 => "intent" \in x.post \/ x.at \in {"saved", "wiki", "result", "checkpoint"}
        /\ /\ x.at \in {"intent", "save"} /\ x.due = <<>>
           /\ j.save /\ "intent" \in x.post /\ "saved" \notin x.post
           => Maybe \in DOMAIN no

BeginsOK(tu, no, sa) == DOMAIN no = {} /\ sa = 0 /\ \A r \in Round : tu[r] = <<>>
MemOK(j, x, tu, no, sa, ck) ==
    /\ PlaceOK(x) /\ DueOK(x)
    /\ x.fd => /\ ck + 1 = x.st
               /\ x.at \in Outside => BeginsOK(tu, no, sa)
               /\ x.at \in Inside => TurnsOK(x, tu)
               /\ ToldOK(x, no) /\ SavesOK(j, x, no, sa)

\* The journal is not ahead of the engine.
BehindOK(x, f, ck) ==
    x.fd /\ InStage(f) /\ f.st > ck =>
        f.st = x.st /\ x.at \in Inside /\ \A r \in Round : f.ended[r] => r < x.r

\* The steps of the decision the journal has when the engine is at a place.
Behind(at) ==
    CASE at = "plain" -> {"decision"}
      [] at = "intent" -> {"decision", "plain"}
      [] at \in {"save", "saved"} -> {"decision", "plain", "intent"}
      [] at = "wiki" -> Final
      [] OTHER -> {}
PostOK(x, f) ==
    /\ IF x.at \in {"result", "checkpoint"} THEN Final \subseteq f.post
       ELSE f.post = x.post \cup Behind(x.at)
    /\ x.at \in {"chair", "decide"} => "decision" \notin f.post

\* The engine's rows are written: the journal is where the engine is.
HasInOf(j, st) == j.plan[st] \in {"sim-2", "sim-3", "tp"}
NextStage(x, f) == f.st + 1 = x.st /\ (f.st > 0 => InStage(f) /\ Final \subseteq f.post)
SpeakOK(j, x, f) ==
    /\ RestorableOf(j, f) + 1 = x.r /\ ~f.ended[x.r] /\ x.look = f.look[x.r]
    /\ f.raws[x.r] = x.cur \cup x.tell
    /\ x.at \in InRound => f.here = x.r
    /\ x.at \in {"look", "gather"} => x.look = 0 /\ x.cur \cup x.tell = {}
    /\ x.at = "close" => x.tell = {}
DecidingOK(j, x, f) ==
    /\ RestorableOf(j, f) = Rounds /\ PostOK(x, f)
    /\ x.at \in Deciding => f.here = Rounds + 1
WritesOK(j, x, f) ==
    /\ x.eoff => f.off
    /\ x.fd /\ ~x.eoff =>
        /\ ~f.off
        /\ x.at = "stagein" => HasInOf(j, x.st) /\ NextStage(x, f)
        /\ x.at = "enter" =>
             IF HasInOf(j, x.st) THEN f.st = x.st /\ f.entered ELSE NextStage(x, f)
        /\ x.at \in Inside => f.st = x.st /\ InStage(f)
        /\ x.at \in InRound \cup {"head"} => SpeakOK(j, x, f)
        /\ x.at \in Deciding \cup {"chairin", "checkpoint"} => DecidingOK(j, x, f)

EngineOK(j, x, f, tu, no, sa, ck) ==
    x.at # "down" => /\ MemOK(j, x, tu, no, sa, ck)
                     /\ BehindOK(x, f, ck) /\ WritesOK(j, x, f)

LifeOK(j, at, x, ov) ==
    /\ j \in Jobs /\ at \in 1..j.lives
    /\ x.at = "down" /\ ov = "" => at < j.lives
    /\ ov # "" => x.at = "down"

OnceOK(no, sa) ==
    /\ \A n \in DOMAIN no : no[n] = 1
    /\ sa > 1 => Maybe \in DOMAIN no

InvOf(j, at, x, f, tu, no, ck, sa, ov) ==
    /\ x \in MemType /\ f \in FileType /\ LedgerType(tu, no, sa, ck)
    /\ LifeOK(j, at, x, ov) /\ OnceOK(no, sa)
    /\ JournalOK(j, f, tu, no, sa, ck)
    /\ EngineOK(j, x, f, tu, no, sa, ck)
IInv == InvOf(job, attempt, mem, file, turns, notices, ckpt, saves, over)

-----------------------------------------------------------------------------
(* The rounds that can be restored.                                        *)

\* A set of naturals that is not empty has a least element.
LEMMA LeastOf ==
    ASSUME NEW S, S \subseteq Nat, S # {}
    PROVE  \E n \in S : \A m \in S : n <= m
<1>1. PICK n \in S : \A m \in S : ~(<<m, n>> \in OpToRel(<, Nat))
  BY NatLessThanWellFounded, WFMin
<1>2. ASSUME NEW m \in S PROVE n <= m
  <2>1. ~(m < n)
    BY <1>1 DEF OpToRel
  <2> QED BY <2>1
<1> QED BY <1>2

\* Journal and job: what the rounds that can be restored depend on.
LEMMA RestorableExists ==
    ASSUME NEW j, NEW f
    PROVE  \E k \in 0..Rounds : IsRestorable(j, f, k)
<1>0. Rounds \in Nat \ {0} BY EngineAssumption
<1>1. CASE \A r \in 1..Rounds : Whole(j, f, r)
  <2>1. IsRestorable(j, f, Rounds) /\ Rounds \in 0..Rounds
    BY <1>0, <1>1 DEF IsRestorable
  <2> QED BY <2>1
<1>2. CASE \E r \in 1..Rounds : ~Whole(j, f, r)
  <2> DEFINE S == {r \in 1..Rounds : ~Whole(j, f, r)}
  <2>1. S \subseteq Nat /\ S # {} BY <1>0, <1>2
  <2>2. PICK n \in S : \A m \in S : n <= m BY <2>1, LeastOf
  <2>3. n \in 1..Rounds /\ n - 1 \in 0..Rounds /\ (n - 1) + 1 = n /\ ~Whole(j, f, n)
    BY <1>0, <2>2
  <2>4. \A r \in 1..n - 1 : Whole(j, f, r)
    <3> SUFFICES ASSUME NEW r \in 1..n - 1 PROVE Whole(j, f, r) OBVIOUS
    <3>1. r \in 1..Rounds /\ ~(n <= r) BY <1>0, <2>3
    <3> QED BY <2>2, <3>1
  <2>5. IsRestorable(j, f, n - 1) BY <2>3, <2>4 DEF IsRestorable
  <2> QED BY <2>3, <2>5
<1> QED BY <1>1, <1>2

LEMMA RestorableIs ==
    ASSUME NEW j, NEW f
    PROVE  RestorableOf(j, f) \in 0..Rounds /\ IsRestorable(j, f, RestorableOf(j, f))
<1>1. \E k \in 0..Rounds : IsRestorable(j, f, k) BY RestorableExists
<1> QED BY <1>1 DEF RestorableOf

LEMMA RestorableUnique ==
    ASSUME NEW j, NEW f, NEW k \in 0..Rounds, IsRestorable(j, f, k)
    PROVE  RestorableOf(j, f) = k
<1>0. Rounds \in Nat BY EngineAssumption
<1> DEFINE c == RestorableOf(j, f)
<1>1. c \in 0..Rounds /\ IsRestorable(j, f, c) BY RestorableIs
<1> HIDE DEF c
<1>2. ~(c < k)
  <2> SUFFICES ASSUME c < k PROVE FALSE OBVIOUS
  <2>1. c < Rounds /\ c + 1 \in 1..k BY <1>0, <1>1
  <2>2. Whole(j, f, c + 1) BY <2>1 DEF IsRestorable
  <2> QED BY <1>1, <2>1, <2>2 DEF IsRestorable
<1>3. ~(k < c)
  <2> SUFFICES ASSUME k < c PROVE FALSE OBVIOUS
  <2>1. k < Rounds /\ k + 1 \in 1..c BY <1>0, <1>1
  <2>2. Whole(j, f, k + 1) BY <1>1, <2>1 DEF IsRestorable
  <2> QED BY <2>1, <2>2 DEF IsRestorable
<1>4. c = k BY <1>0, <1>1, <1>2, <1>3
<1> QED BY <1>4 DEF c

\* A journal whose rounds ended alike restores the same rounds.
LEMMA RestorableSame ==
    ASSUME NEW j, NEW f, NEW g,
           \A r \in Round : Whole(j, g, r) <=> Whole(j, f, r)
    PROVE  RestorableOf(j, g) = RestorableOf(j, f)
<1>0. Rounds \in Nat BY EngineAssumption
<1> DEFINE k == RestorableOf(j, f)
<1>1. k \in 0..Rounds /\ IsRestorable(j, f, k) BY RestorableIs
<1> HIDE DEF k
<1>2. \A r \in 1..k : r \in Round BY <1>0, <1>1 DEF Round
<1>3. k < Rounds => k + 1 \in Round BY <1>0, <1>1 DEF Round
<1>4. IsRestorable(j, g, k) BY <1>1, <1>2, <1>3 DEF IsRestorable
<1>5. RestorableOf(j, g) = k BY <1>1, <1>4, RestorableUnique
<1> QED BY <1>5 DEF k

-----------------------------------------------------------------------------
(* A step of the engine that writes a row, or none.                        *)

Written(j, x, f, tu, no, sa, ck) ==
    /\ f \in FileType /\ JournalOK(j, f, tu, no, sa, ck)
    /\ BehindOK(x, f, ck) /\ WritesOK(j, x, f)

\* Row, third outcome: the row that reaches three quarters of the cap stops
\* the rows; the journal is then refused by a next process.
LEMMA StoppedRows ==
    ASSUME NEW j, NEW f \in FileType, NEW tu, NEW no, NEW sa, NEW ck, NEW x,
           JournalOK(j, f, tu, no, sa, ck), BehindOK(x, f, ck), x \in MemType,
           NEW g, g = [f EXCEPT !.off = TRUE], NEW y, y = [x EXCEPT !.eoff = TRUE],
           NEW tv, MemOK(j, x, tv, no, sa, ck)
    PROVE  /\ g \in FileType /\ y \in MemType
           /\ JournalOK(j, g, tu, no, sa, ck)
           /\ BehindOK(y, g, ck) /\ WritesOK(j, y, g) /\ MemOK(j, y, tv, no, sa, ck)
<1>1. g \in FileType BY DEF FileType
<1>2. y \in MemType BY DEF MemType
<1>3. /\ g.off = TRUE /\ g.st = f.st /\ g.pre = f.pre /\ g.entered = f.entered
      /\ g.raws = f.raws /\ g.look = f.look /\ g.ended = f.ended /\ g.lost = f.lost
      /\ g.post = f.post
  BY DEF FileType
<1>4. \A r \in Round : Whole(j, g, r) <=> Whole(j, f, r)
  BY <1>3 DEF Whole
<1>5. RestorableOf(j, g) = RestorableOf(j, f)
  BY <1>4, RestorableSame
<1>6. RoundsOK(j, f) => RoundsOK(j, g)
  BY <1>3, <1>5 DEF RoundsOK
<1>7. LedgerOK(f, tu, no) => LedgerOK(g, tu, no)
  BY <1>3 DEF LedgerOK
<1>8. JournalOK(j, g, tu, no, sa, ck)
  BY <1>3, <1>6, <1>7 DEF JournalOK, InStage
<1>9. /\ y.at = x.at /\ y.st = x.st /\ y.r = x.r /\ y.cur = x.cur /\ y.tell = x.tell
      /\ y.pend = x.pend /\ y.data = x.data /\ y.due = x.due /\ y.left = x.left
      /\ y.look = x.look /\ y.seen = x.seen /\ y.cut = x.cut /\ y.post = x.post /\ y.fd = x.fd /\ y.eoff = TRUE
  BY DEF MemType
<1>10. BehindOK(y, g, ck)
  BY <1>3, <1>9 DEF BehindOK, InStage
<1>11. WritesOK(j, y, g)
  BY <1>3, <1>9 DEF WritesOK
<1>12. PlaceOK(x) /\ DueOK(x)
  BY DEF MemOK
<1>14. PlaceOK(y)
  BY <1>9, <1>12 DEF PlaceOK
<1>15. DueOK(y)
  BY <1>9, <1>12 DEF DueOK, Due, Gone
<1>16. TurnsOK(x, tv) => TurnsOK(y, tv)
  BY <1>9 DEF TurnsOK
<1>17. ToldOK(x, no) => ToldOK(y, no)
  BY <1>9 DEF ToldOK, Told, Gone, Due
<1>18. SavesOK(j, x, no, sa) => SavesOK(j, y, no, sa)
  BY <1>9 DEF SavesOK
<1>19. MemOK(j, y, tv, no, sa, ck)
  BY <1>9, <1>14, <1>15, <1>16, <1>17, <1>18 DEF MemOK
<1> QED BY <1>1, <1>2, <1>8, <1>10, <1>11, <1>19

\* A step of the engine at a place keeps the invariant if it does so whether
\* or not its row is written.
LEMMA Moves ==
    ASSUME IInv, mem.at # "down",
           UNCHANGED <<job, attempt, turns, notices, ckpt, saves, over>>,
           NEW f, NEW m, Row(f, m) \/ (mem' = m /\ file' = file /\ f = file),
           m \in MemType, m.at # "down", m.fd = mem.fd, m.eoff = mem.eoff,
           MemOK(job, m, turns, notices, saves, ckpt), BehindOK(m, file, ckpt),
           mem.fd /\ ~mem.eoff => Written(job, m, f, turns, notices, saves, ckpt)
    PROVE  IInv'
<1>1. /\ file \in FileType /\ JournalOK(job, file, turns, notices, saves, ckpt)
      /\ WritesOK(job, mem, file) /\ LifeOK(job, attempt, mem, over)
      /\ LedgerType(turns, notices, saves, ckpt) /\ OnceOK(notices, saves)
      /\ mem \in MemType
  BY DEF IInv, InvOf, EngineOK
<1>2. LifeOK(job, attempt, mem', over) /\ mem'.at # "down"
  <2>1. over = "" BY <1>1 DEF LifeOK
  <2>2. mem'.at # "down" BY DEF Row, MemType
  <2> QED BY <1>1, <2>1, <2>2 DEF LifeOK
<1>3. /\ mem' \in MemType /\ file' \in FileType
      /\ JournalOK(job, file', turns, notices, saves, ckpt)
      /\ MemOK(job, mem', turns, notices, saves, ckpt)
      /\ BehindOK(mem', file', ckpt) /\ WritesOK(job, mem', file')
  <2>1. CASE (~mem.fd \/ mem.eoff) /\ mem' = m /\ file' = file
    <3>1. WritesOK(job, m, file)
      BY <1>1, <2>1 DEF WritesOK
    <3> QED BY <1>1, <2>1, <3>1
  <2>2. CASE mem.fd /\ ~mem.eoff /\ mem' = m /\ file' = f
    BY <2>2 DEF Written
  <2>3. CASE /\ mem.fd /\ ~mem.eoff
             /\ mem' = [m EXCEPT !.eoff = TRUE] /\ file' = [file EXCEPT !.off = TRUE]
    BY <1>1, <2>3, StoppedRows
  <2> QED BY <2>1, <2>2, <2>3, <1>1 DEF Row, MemType
<1>4. InvOf(job, attempt, mem', file', turns, notices, ckpt, saves, over)
  BY <1>1, <1>2, <1>3 DEF InvOf, EngineOK
<1> QED BY <1>4 DEF IInv

\* The parts of the invariant while a process lives.
LEMMA Living ==
    ASSUME IInv, mem.at # "down"
    PROVE  /\ mem \in MemType /\ file \in FileType /\ LedgerType(turns, notices, saves, ckpt)
           /\ LifeOK(job, attempt, mem, over) /\ over = "" /\ attempt \in Attempt
           /\ OnceOK(notices, saves) /\ JournalOK(job, file, turns, notices, saves, ckpt)
           /\ MemOK(job, mem, turns, notices, saves, ckpt)
           /\ BehindOK(mem, file, ckpt) /\ WritesOK(job, mem, file)
<1>1. attempt \in Attempt
  <2>1. job \in Jobs /\ attempt \in 1..job.lives BY DEF IInv, InvOf, LifeOK
  <2>2. job.lives \in 1..MaxAttempts /\ MaxAttempts \in Nat BY <2>1, EngineAssumption
  <2> QED BY <2>1, <2>2 DEF Attempt
<1> QED BY <1>1 DEF IInv, InvOf, EngineOK, LifeOK

LEMMA HasInIs == ASSUME NEW st PROVE HasIn(st) <=> HasInOf(job, st)
BY DEF HasIn, HasInOf

-----------------------------------------------------------------------------
(* Before the rounds.                                                      *)

\* StageIn: the row says that the stage has begun.
LEMMA StageInStep == ASSUME IInv, StageIn PROVE IInv'
<1> DEFINE m == [mem EXCEPT !.at = "enter", !.seen = FALSE, !.left = {}]
           f == StageInRow(mem.st)
<1>0. mem.at = "stagein" /\ mem.due = <<>> /\ Row(f, m)
      /\ UNCHANGED <<job, attempt, turns, notices, ckpt, saves, over>>
  BY DEF StageIn, At
<1>1. /\ mem \in MemType /\ file \in FileType
      /\ JournalOK(job, file, turns, notices, saves, ckpt)
      /\ MemOK(job, mem, turns, notices, saves, ckpt)
      /\ BehindOK(mem, file, ckpt) /\ WritesOK(job, mem, file)
      /\ LedgerType(turns, notices, saves, ckpt)
  BY <1>0, Living
<1>2. PlaceOK(mem) /\ (mem.fd => ckpt + 1 = mem.st /\ BeginsOK(turns, notices, saves))
  BY <1>0, <1>1 DEF MemOK, Outside
<1>3. m \in MemType
  BY <1>1 DEF MemType, Outside
<1>4. /\ m.at = "enter" /\ m.st = mem.st /\ m.fd = mem.fd /\ m.eoff = mem.eoff
      /\ m.due = <<>> /\ m.cur = mem.cur
  BY <1>0, <1>1 DEF MemType
<1>5. m.r = mem.r /\ m.tell = mem.tell /\ m.look = mem.look /\ m.post = mem.post
  BY <1>1 DEF MemType
<1>6. f \in FileType /\ f.st = mem.st /\ f.entered /\ f.off = file.off
  <2>1. 0 \in 0..Rounds + 1 BY EngineAssumption
  <2>2. mem.st \in Nat BY <1>1 DEF MemType
  <2> QED BY <1>1, <2>1, <2>2 DEF StageInRow, FileType
<1> HIDE DEF m, f
<1>7. MemOK(job, m, turns, notices, saves, ckpt)
  <2>1. PlaceOK(m)
    BY <1>0, <1>2, <1>4, <1>5 DEF PlaceOK, Outside, InRound, Deciding, Inside
  <2>2. DueOK(m) BY <1>4 DEF DueOK
  <2> QED BY <1>2, <1>4, <2>1, <2>2 DEF MemOK, ToldOK, SavesOK, Inside, InRound, Deciding
<1>8. BehindOK(m, file, ckpt)
  BY <1>0, <1>1, <1>4 DEF BehindOK, Inside, InRound, Deciding
<1>9. ASSUME mem.fd, ~mem.eoff PROVE Written(job, m, f, turns, notices, saves, ckpt)
  <2>1. ~file.off /\ HasInOf(job, mem.st)
    BY <1>0, <1>1, <1>9 DEF WritesOK
  <2>2. JournalOK(job, f, turns, notices, saves, ckpt)
    BY <1>2, <1>6, <1>9, <1>1 DEF JournalOK, InStage, LedgerType
  <2>3. BehindOK(m, f, ckpt) BY <1>6 DEF BehindOK, InStage
  <2>4. WritesOK(job, m, f)
    BY <1>4, <1>6, <1>9, <2>1 DEF WritesOK, Inside, InRound, Deciding
  <2> QED BY <1>6, <2>2, <2>3, <2>4 DEF Written
<1>10. m.at # "down" BY <1>4
<1> QED BY <1>0, <1>3, <1>4, <1>7, <1>8, <1>9, <1>10, Moves

\* Enter: the row with the seats opens the stage.
LEMMA EnterStep == ASSUME IInv, Enter PROVE IInv'
<1> DEFINE m == [mem EXCEPT !.at = "head", !.seen = FALSE, !.left = {}]
           f == PreRow(mem.st)
<1>0. mem.at = "enter" /\ mem.due = <<>> /\ Row(f, m)
      /\ UNCHANGED <<job, attempt, turns, notices, ckpt, saves, over>>
  BY DEF Enter, At
<1>1. /\ mem \in MemType /\ file \in FileType
      /\ MemOK(job, mem, turns, notices, saves, ckpt)
      /\ BehindOK(mem, file, ckpt) /\ WritesOK(job, mem, file)
      /\ LedgerType(turns, notices, saves, ckpt)
  BY <1>0, Living
<1>2. PlaceOK(mem) /\ (mem.fd => ckpt + 1 = mem.st /\ BeginsOK(turns, notices, saves))
  BY <1>0, <1>1 DEF MemOK, Outside
<1>3. m \in MemType
  BY <1>1 DEF MemType, Inside
<1>4. /\ mem.r = 1 /\ mem.cur = {} /\ mem.tell = {} /\ mem.look = 0 /\ mem.post = {}
  BY <1>0, <1>2 DEF PlaceOK, Outside
<1>5. /\ m.at = "head" /\ m.st = mem.st /\ m.fd = mem.fd /\ m.eoff = mem.eoff
      /\ m.due = <<>> /\ m.cur = {} /\ m.tell = {} /\ m.r = 1 /\ m.look = 0
      /\ m.left = {} /\ m.post = {}
  BY <1>0, <1>1, <1>4 DEF MemType
<1>6. Rounds \in Nat \ {0} /\ 1 \in Round /\ \A r \in Round : r \in Nat /\ r >= 1
  BY EngineAssumption DEF Round
<1>7. f \in FileType
  <2>1. /\ Nothing(0) \in [Round -> 0..MaxAttempts]
        /\ Nothing({}) \in [Round -> SUBSET Answers]
        /\ Nothing(FALSE) \in [Round -> BOOLEAN]
        /\ Nothing({}) \in [Round -> SUBSET Seats]
        /\ [p \in Place |-> {}] \in [Place -> SUBSET Notice]
    BY EngineAssumption DEF Nothing
  <2>2. 0 \in 0..Rounds + 1 /\ mem.st \in Nat /\ {} \in SUBSET Post
    BY <1>1, <1>6 DEF MemType
  <2> HIDE DEF f
  <2>3. f = [Fresh EXCEPT !.st = mem.st, !.pre = TRUE] BY DEF f, PreRow
  <2>4. Fresh \in FileType BY <2>1, <2>2 DEF Fresh, FileType
  <2> QED BY <2>2, <2>3, <2>4 DEF FileType
<1>8. /\ f.st = mem.st /\ ~f.entered /\ f.pre /\ ~f.off /\ f.post = {}
      /\ \A r \in Round : f.raws[r] = {} /\ f.ended[r] = FALSE /\ f.look[r] = 0
      /\ \A p \in Place : f.notes[p] = {}
  BY DEF PreRow, Fresh, Nothing
<1> HIDE DEF m, f
<1>9. MemOK(job, m, turns, notices, saves, ckpt)
  <2>1. PlaceOK(m)
    BY <1>5, <1>6, FS_EmptySet DEF PlaceOK, Outside, InRound, Deciding, Inside
  <2>2. DueOK(m) BY <1>5 DEF DueOK
  <2>3. ASSUME mem.fd PROVE TurnsOK(m, turns)
    BY <1>2, <1>5, <1>6, <2>3, FS_EmptySet DEF TurnsOK, BeginsOK, ShownIn
  <2>4. ASSUME mem.fd PROVE ToldOK(m, notices)
    BY <1>2, <1>5, <2>4 DEF ToldOK, BeginsOK
  <2>5. ASSUME mem.fd PROVE SavesOK(job, m, notices, saves)
    BY <1>2, <1>5, <2>5 DEF SavesOK, BeginsOK
  <2> QED BY <1>2, <1>5, <2>1, <2>2, <2>3, <2>4, <2>5 DEF MemOK, Outside
<1>10. BehindOK(m, file, ckpt)
  BY <1>0, <1>1, <1>5 DEF BehindOK, Inside, InRound, Deciding
<1>11. ASSUME mem.fd, ~mem.eoff PROVE Written(job, m, f, turns, notices, saves, ckpt)
  <2>1. IsRestorable(job, f, 0)
    BY <1>6, <1>8 DEF IsRestorable, Whole
  <2>2. RestorableOf(job, f) = 0
    BY <1>6, <2>1, RestorableUnique
  <2>3. RoundsOK(job, f) /\ LedgerOK(f, turns, notices)
    BY <1>8, <2>2 DEF RoundsOK, LedgerOK
  <2>4. NotesOK(f, 1, notices, saves)
    <3>1. 1 \in Place BY <1>6 DEF Place
    <3> QED BY <1>2, <1>8, <1>11, <3>1 DEF NotesOK, BeginsOK
  <2>5. JournalOK(job, f, turns, notices, saves, ckpt)
    BY <1>1, <1>2, <1>8, <1>11, <2>2, <2>3, <2>4 DEF JournalOK, LedgerType
  <2>6. BehindOK(m, f, ckpt)
    BY <1>5, <1>8 DEF BehindOK, Inside
  <2>7. SpeakOK(job, m, f)
    BY <1>5, <1>6, <1>8, <2>2 DEF SpeakOK, InRound
  <2>8. WritesOK(job, m, f)
    BY <1>5, <1>8, <1>11, <2>7 DEF WritesOK, Inside, InStage, Deciding
  <2> QED BY <1>7, <2>5, <2>6, <2>8 DEF Written
<1>12. m.at # "down" BY <1>5
<1> QED BY <1>0, <1>3, <1>5, <1>9, <1>10, <1>11, <1>12, Moves

-----------------------------------------------------------------------------
(* A round.                                                                *)

\* What is known in a round while the rows are written.
LEMMA InARound ==
    ASSUME IInv, mem.at \in InRound \cup {"head"}, mem.fd, ~mem.eoff
    PROVE  /\ ~file.off /\ InStage(file) /\ file.st = mem.st /\ file.st > ckpt /\ file.st = ckpt + 1
           /\ mem.r \in Round /\ RestorableOf(job, file) + 1 = mem.r
           /\ SpeakOK(job, mem, file) /\ RoundsOK(job, file)
           /\ LedgerOK(file, turns, notices) /\ NotesOK(file, mem.r, notices, saves)
           /\ RestorableOf(job, file) # Rounds /\ file.post = {}
<1>1. mem.at # "down" /\ mem.at \in Inside
  BY DEF InRound, Inside
<1>2. /\ JournalOK(job, file, turns, notices, saves, ckpt) /\ mem \in MemType
      /\ MemOK(job, mem, turns, notices, saves, ckpt) /\ WritesOK(job, mem, file)
      /\ LedgerType(turns, notices, saves, ckpt)
  BY <1>1, Living
<1>3. /\ ~file.off /\ InStage(file) /\ file.st = mem.st /\ SpeakOK(job, mem, file)
  BY <1>1, <1>2 DEF WritesOK
<1>4. ckpt + 1 = mem.st /\ PlaceOK(mem) /\ ckpt \in Nat
  BY <1>2 DEF MemOK, LedgerType
<1>5. mem.r \in Round /\ RestorableOf(job, file) + 1 = mem.r
  BY <1>3, <1>4 DEF PlaceOK, SpeakOK
<1>6. file.st > ckpt
  BY <1>3, <1>4
<1>7. RestorableOf(job, file) \in 0..Rounds /\ Rounds \in Nat
  BY RestorableIs, EngineAssumption
<1>8. RestorableOf(job, file) # Rounds
  BY <1>5, <1>7 DEF Round
<1>9. /\ RoundsOK(job, file) /\ LedgerOK(file, turns, notices)
      /\ NotesOK(file, mem.r, notices, saves)
  BY <1>2, <1>3, <1>5, <1>6 DEF JournalOK
<1> QED BY <1>3, <1>4, <1>5, <1>6, <1>8, <1>9 DEF RoundsOK

\* RoundInRow: only the place where notices are put changes.
LEMMA JournalHere ==
    ASSUME NEW j, NEW f \in FileType, NEW tu, NEW no, NEW sa, NEW ck,
           JournalOK(j, f, tu, no, sa, ck), NEW h \in Place, NEW g, g = [f EXCEPT !.here = h]
    PROVE  /\ g \in FileType /\ JournalOK(j, g, tu, no, sa, ck) /\ g.here = h
           /\ RestorableOf(j, g) = RestorableOf(j, f)
           /\ g.off = f.off /\ g.st = f.st /\ g.pre = f.pre /\ g.entered = f.entered
           /\ g.raws = f.raws /\ g.look = f.look /\ g.ended = f.ended /\ g.lost = f.lost
           /\ g.post = f.post /\ g.notes = f.notes
<1>0. Place \subseteq 0..Rounds + 1
  BY EngineAssumption DEF Place
<1>1. g \in FileType /\ g.here = h
  BY <1>0 DEF FileType
<1>2. /\ g.off = f.off /\ g.st = f.st /\ g.pre = f.pre /\ g.entered = f.entered
      /\ g.raws = f.raws /\ g.look = f.look /\ g.ended = f.ended /\ g.lost = f.lost
      /\ g.post = f.post /\ g.notes = f.notes
  BY DEF FileType
<1>3. RestorableOf(j, g) = RestorableOf(j, f)
  <2>1. \A r \in Round : Whole(j, g, r) <=> Whole(j, f, r)
    BY <1>2 DEF Whole
  <2> QED BY <2>1, RestorableSame
<1>4. JournalOK(j, g, tu, no, sa, ck)
  BY <1>2, <1>3 DEF JournalOK, InStage, RoundsOK, LedgerOK, NotesOK
<1> QED BY <1>1, <1>2, <1>3, <1>4

\* RoundIn: the seats that were not heard before the cut are asked.
LEMMA RoundInStep == ASSUME IInv, RoundIn PROVE IInv'
<1> DEFINE m == [mem EXCEPT !.at = IF Looks THEN "look" ELSE "speak",
                            !.pend = Seats \ Of(mem.tell),
                            !.seen = mem.cut = mem.r]
           f == RoundInRow(mem.r)
<1>0. mem.at = "head" /\ mem.due = <<>> /\ Row(f, m)
      /\ UNCHANGED <<job, attempt, turns, notices, ckpt, saves, over>>
  BY DEF RoundIn, At
<1>1. /\ mem \in MemType /\ file \in FileType
      /\ JournalOK(job, file, turns, notices, saves, ckpt)
      /\ MemOK(job, mem, turns, notices, saves, ckpt)
      /\ BehindOK(mem, file, ckpt)
  BY <1>0, Living
<1>2. /\ PlaceOK(mem) /\ (mem.fd => /\ ckpt + 1 = mem.st /\ TurnsOK(mem, turns)
                                    /\ ToldOK(mem, notices) /\ SavesOK(job, mem, notices, saves))
  BY <1>0, <1>1 DEF MemOK, Inside
<1>3. m \in MemType
  <2>1. (IF Looks THEN "look" ELSE "speak") \in Inside BY DEF Inside, InRound
  <2>2. Seats \ Of(mem.tell) \in SUBSET Seats /\ (mem.cut = mem.r) \in BOOLEAN OBVIOUS
  <2> QED BY <1>1, <2>1, <2>2 DEF MemType
<1>4. /\ m.at \in {"look", "speak"} /\ (m.at = "look" => Looks)
      /\ m.pend = Seats \ Of(mem.tell) /\ (m.seen <=> mem.cut = mem.r)
      /\ m.st = mem.st /\ m.fd = mem.fd /\ m.eoff = mem.eoff /\ m.data = mem.data
      /\ m.due = <<>> /\ m.cur = mem.cur /\ m.tell = mem.tell /\ m.r = mem.r
      /\ m.look = mem.look /\ m.left = mem.left /\ m.post = mem.post /\ m.cut = mem.cut
  BY <1>0, <1>1 DEF MemType
<1>5. mem.r \in Round /\ mem.r \in Place /\ mem.cur = {}
  BY <1>0, <1>1, <1>2 DEF PlaceOK, MemType
<1> HIDE DEF m
<1>6. MemOK(job, m, turns, notices, saves, ckpt)
  <2>1. PlaceOK(m)
    <3>1. m.pend \cap Of(m.cur \cup m.tell) = {} BY <1>4, <1>5
    <3> QED BY <1>0, <1>2, <1>4, <1>5, <3>1 DEF PlaceOK, Outside, InRound, Deciding, Inside
  <2>2. DueOK(m) BY <1>4 DEF DueOK
  <2>3. TurnsOK(mem, turns) => TurnsOK(m, turns)
    BY <1>4, <1>5 DEF TurnsOK
  <2>4. ToldOK(mem, notices) => ToldOK(m, notices)
    BY <1>0, <1>4 DEF ToldOK, Told, ToldAt, Inside, Deciding
  <2>5. SavesOK(job, mem, notices, saves) => SavesOK(job, m, notices, saves)
    BY <1>0, <1>4 DEF SavesOK, Inside
  <2> QED BY <1>2, <1>4, <2>1, <2>2, <2>3, <2>4, <2>5 DEF MemOK, Outside
<1>7. BehindOK(m, file, ckpt)
  BY <1>1, <1>4 DEF BehindOK, Inside, InRound
<1>8. ASSUME mem.fd, ~mem.eoff PROVE Written(job, m, f, turns, notices, saves, ckpt)
  <2>0. /\ ~file.off /\ InStage(file) /\ file.st = mem.st
        /\ SpeakOK(job, mem, file)
    BY <1>0, <1>8, InARound
  <2>1. /\ f \in FileType /\ JournalOK(job, f, turns, notices, saves, ckpt) /\ f.here = mem.r
        /\ RestorableOf(job, f) = RestorableOf(job, file)
        /\ f.off = file.off /\ f.st = file.st /\ f.pre = file.pre /\ f.entered = file.entered
        /\ f.raws = file.raws /\ f.look = file.look /\ f.ended = file.ended /\ f.post = file.post
    BY <1>1, <1>5, JournalHere DEF RoundInRow
  <2> HIDE DEF f
  <2>2. BehindOK(m, f, ckpt)
    BY <1>7, <2>1 DEF BehindOK, InStage
  <2>3. SpeakOK(job, m, f)
    BY <1>4, <1>5, <2>0, <2>1 DEF SpeakOK, Looks
  <2>4. WritesOK(job, m, f)
    BY <1>4, <1>8, <2>0, <2>1, <2>3 DEF WritesOK, InStage, Deciding
  <2> QED BY <2>1, <2>2, <2>4 DEF Written
<1>9. m.at # "down" BY <1>4
<1> HIDE DEF f
<1> QED BY <1>0, <1>3, <1>4, <1>6, <1>7, <1>8, <1>9, Moves

\* A step of the engine that only changes its memory.
LEMMA Thinks ==
    ASSUME IInv, mem.at # "down",
           UNCHANGED <<job, attempt, file, turns, notices, ckpt, saves, over>>,
           NEW m, mem' = m, m \in MemType, m.at # "down", m.fd = mem.fd, m.eoff = mem.eoff,
           MemOK(job, m, turns, notices, saves, ckpt), BehindOK(m, file, ckpt),
           mem.fd /\ ~mem.eoff => WritesOK(job, m, file)
    PROVE  IInv'
<1>1. file \in FileType /\ JournalOK(job, file, turns, notices, saves, ckpt)
  BY Living
<1>2. mem.fd /\ ~mem.eoff => Written(job, m, file, turns, notices, saves, ckpt)
  BY <1>1 DEF Written
<1> QED BY <1>2, Moves

\* What a notice is.
LEMMA NoteIs ==
    ASSUME NEW r \in Place, NEW who \in SUBSET Seats,
           NEW what \in {"look", "lost", "card", "short", "maybe"}
    PROVE  /\ Note(r, what, who) \in Notice /\ <<Note(r, what, who)>> \in Seq(Notice)
           /\ Note(r, what, who).what = what /\ Note(r, what, who).r = r
BY DEF Note, Notice

\* Look: trouble is told before the round goes on.
LEMMA LookStep == ASSUME IInv, Look PROVE IInv'
<1>0. mem.at = "look" /\ mem.due = <<>>
      /\ UNCHANGED <<job, attempt, file, turns, notices, ckpt, saves, over>>
  BY DEF Look, At
<1>1. /\ mem \in MemType
      /\ MemOK(job, mem, turns, notices, saves, ckpt)
      /\ BehindOK(mem, file, ckpt) /\ WritesOK(job, mem, file)
  BY <1>0, Living
<1>2. PICK trouble \in BOOLEAN :
         mem' = [mem EXCEPT !.at = "gather",
                   !.due = IF trouble THEN <<Note(mem.r, "look", {})>> ELSE <<>>]
  BY DEF Look
<1> DEFINE d == IF trouble THEN <<Note(mem.r, "look", {})>> ELSE <<>>
           m == [mem EXCEPT !.at = "gather", !.due = d]
<1>3. mem.r \in Place
  BY <1>1 DEF MemType
<1>4. d \in Seq(Notice) /\ (d # <<>> => d = <<Note(mem.r, "look", {})>>)
  BY <1>3, NoteIs
<1> HIDE DEF d
<1>5. m \in MemType
  BY <1>1, <1>4 DEF MemType, Inside, InRound
<1>6. /\ m.at = "gather" /\ m.due = d /\ m.pend = mem.pend /\ m.seen = mem.seen
      /\ m.st = mem.st /\ m.fd = mem.fd /\ m.eoff = mem.eoff /\ m.data = mem.data
      /\ m.cur = mem.cur /\ m.tell = mem.tell /\ m.r = mem.r
      /\ m.look = mem.look /\ m.left = mem.left /\ m.post = mem.post /\ m.cut = mem.cut
  BY <1>0, <1>1 DEF MemType
<1>7. mem' = m BY <1>2 DEF d
<1> HIDE DEF m
<1>8. MemOK(job, m, turns, notices, saves, ckpt)
  <2>1. PlaceOK(m)
    BY <1>0, <1>1, <1>6 DEF MemOK, PlaceOK, Outside, InRound, Deciding, Inside
  <2>2. DueOK(m) BY <1>4, <1>6 DEF DueOK, Due
  <2>3. TurnsOK(mem, turns) => TurnsOK(m, turns)
    BY <1>6 DEF TurnsOK
  <2>4. ToldOK(mem, notices) => ToldOK(m, notices)
    BY <1>0, <1>6 DEF ToldOK, Told, ToldAt, Inside, InRound, Deciding
  <2>5. SavesOK(job, mem, notices, saves) => SavesOK(job, m, notices, saves)
    BY <1>0, <1>6 DEF SavesOK, Inside, InRound
  <2> QED BY <1>0, <1>1, <1>6, <2>1, <2>2, <2>3, <2>4, <2>5 DEF MemOK, Outside, Inside, InRound
<1>9. BehindOK(m, file, ckpt)
  BY <1>1, <1>6 DEF BehindOK, Inside, InRound
<1>10. WritesOK(job, m, file)
  <2>1. SpeakOK(job, mem, file) => SpeakOK(job, m, file)
    BY <1>0, <1>6 DEF SpeakOK, InRound
  <2> QED BY <1>0, <1>1, <1>6, <2>1 DEF WritesOK, Inside, InRound, Deciding
<1> QED BY <1>0, <1>5, <1>6, <1>7, <1>8, <1>9, <1>10, Thinks

\* Gather: the round's lookup is that of this process.
LEMMA GatherStep == ASSUME IInv, Gather PROVE IInv'
<1> DEFINE m == [mem EXCEPT !.at = "speak", !.look = attempt]
           f == GatherRow(mem.r)
<1>0. mem.at = "gather" /\ mem.due = <<>> /\ Row(f, m)
      /\ UNCHANGED <<job, attempt, turns, notices, ckpt, saves, over>>
  BY DEF Gather, At
<1>1. /\ mem \in MemType /\ file \in FileType /\ attempt \in Attempt
      /\ JournalOK(job, file, turns, notices, saves, ckpt)
      /\ MemOK(job, mem, turns, notices, saves, ckpt)
      /\ BehindOK(mem, file, ckpt)
  BY <1>0, Living
<1>2. attempt \in 0..MaxAttempts
  BY <1>1, EngineAssumption DEF Attempt
<1>3. m \in MemType
  BY <1>1, <1>2 DEF MemType, Inside, InRound
<1>4. /\ m.at = "speak" /\ m.due = <<>> /\ m.pend = mem.pend /\ m.seen = mem.seen
      /\ m.st = mem.st /\ m.fd = mem.fd /\ m.eoff = mem.eoff /\ m.data = mem.data
      /\ m.cur = mem.cur /\ m.tell = mem.tell /\ m.r = mem.r
      /\ m.look = attempt /\ m.left = mem.left /\ m.post = mem.post /\ m.cut = mem.cut
  BY <1>0, <1>1 DEF MemType
<1>5. mem.r \in Round
  BY <1>0, <1>1 DEF MemOK, PlaceOK, InRound
<1>6. /\ f \in FileType /\ f.look = [file.look EXCEPT ![mem.r] = attempt]
      /\ f.off = file.off /\ f.st = file.st /\ f.pre = file.pre /\ f.entered = file.entered
      /\ f.raws = file.raws /\ f.ended = file.ended /\ f.post = file.post
      /\ f.lost = file.lost /\ f.notes = file.notes /\ f.here = file.here
  BY <1>1, <1>2, <1>5 DEF GatherRow, FileType
<1>7. /\ f.look[mem.r] = attempt /\ file.look \in [Round -> 0..MaxAttempts]
      /\ \A r \in Round : r # mem.r => f.look[r] = file.look[r]
  BY <1>1, <1>5, <1>6 DEF FileType
<1> HIDE DEF m, f
<1>8. MemOK(job, m, turns, notices, saves, ckpt)
  <2>1. PlaceOK(m)
    BY <1>0, <1>1, <1>4 DEF MemOK, PlaceOK, Outside, InRound, Deciding, Inside
  <2>2. DueOK(m) BY <1>4 DEF DueOK
  <2>3. TurnsOK(mem, turns) => TurnsOK(m, turns)
    BY <1>4 DEF TurnsOK
  <2>4. ToldOK(mem, notices) => ToldOK(m, notices)
    BY <1>0, <1>4 DEF ToldOK, Told, ToldAt, Inside, InRound, Deciding
  <2>5. SavesOK(job, mem, notices, saves) => SavesOK(job, m, notices, saves)
    BY <1>0, <1>4 DEF SavesOK, Inside, InRound
  <2> QED BY <1>0, <1>1, <1>4, <2>1, <2>2, <2>3, <2>4, <2>5 DEF MemOK, Outside, Inside, InRound
<1>9. BehindOK(m, file, ckpt)
  BY <1>1, <1>4 DEF BehindOK, Inside, InRound
<1>10. ASSUME mem.fd, ~mem.eoff PROVE Written(job, m, f, turns, notices, saves, ckpt)
  <2>0. /\ ~file.off /\ InStage(file) /\ file.st = mem.st /\ RestorableOf(job, file) + 1 = mem.r
        /\ SpeakOK(job, mem, file)
    BY <1>0, <1>10, InARound DEF InRound
  <2>1. RestorableOf(job, f) = RestorableOf(job, file)
    <3>1. \A r \in Round : Whole(job, f, r) <=> Whole(job, file, r)
      BY <1>6 DEF Whole
    <3> QED BY <3>1, RestorableSame
  <2>2. file.raws[mem.r] = {}
    BY <1>0, <2>0 DEF SpeakOK
  <2>3. RoundsOK(job, file) => RoundsOK(job, f)
    <3> SUFFICES ASSUME RoundsOK(job, file) PROVE RoundsOK(job, f) OBVIOUS
    <3>1. ASSUME NEW r \in Round
          PROVE  r > RestorableOf(job, f) + 1 => f.raws[r] = {} /\ f.look[r] = 0
      <4>1. r > mem.r => r # mem.r BY <1>5 DEF Round
      <4> QED BY <1>6, <1>7, <2>0, <2>1, <4>1 DEF RoundsOK
    <3>2. ASSUME NEW r \in Round, NEW a \in f.raws[r], NEW b \in f.raws[r]
          PROVE  a.g = f.look[r] /\ (a.s = b.s => a = b)
      <4>1. r # mem.r BY <1>6, <2>2, <3>2
      <4> QED BY <1>6, <1>7, <4>1, <3>2 DEF RoundsOK
    <3> QED BY <1>6, <2>1, <3>1, <3>2 DEF RoundsOK
  <2>4. JournalOK(job, f, turns, notices, saves, ckpt)
    BY <1>1, <1>6, <2>1, <2>3 DEF JournalOK, InStage, LedgerOK, NotesOK
  <2>5. BehindOK(m, f, ckpt)
    BY <1>6, <1>9 DEF BehindOK, InStage
  <2>6. SpeakOK(job, m, f)
    BY <1>0, <1>4, <1>5, <1>6, <1>7, <2>0, <2>1 DEF SpeakOK, InRound
  <2>7. WritesOK(job, m, f)
    BY <1>4, <1>6, <1>10, <2>0, <2>6 DEF WritesOK, InStage, Deciding
  <2> QED BY <1>6, <2>4, <2>5, <2>7 DEF Written
<1>11. m.at # "down" BY <1>4
<1> QED BY <1>0, <1>3, <1>4, <1>8, <1>9, <1>10, <1>11, Moves

\* Answer: the raw answer of a seat is written before its turn is shown.
LEMMA AnswerStep == ASSUME IInv, NEW s \in Seats, Answer(s) PROVE IInv'
<1> DEFINE a == [s |-> s, a |-> attempt, g |-> mem.look]
           m == [mem EXCEPT !.pend = @ \ {s}, !.tell = {a}]
           f == RawRow(mem.r, a)
<1>0. mem.at = "speak" /\ mem.due = <<>> /\ mem.tell = {} /\ s \in mem.pend /\ Row(f, m)
      /\ UNCHANGED <<job, attempt, turns, notices, ckpt, saves, over>>
  BY DEF Answer, At
<1>1. /\ mem \in MemType /\ file \in FileType /\ attempt \in Attempt
      /\ JournalOK(job, file, turns, notices, saves, ckpt)
      /\ MemOK(job, mem, turns, notices, saves, ckpt)
      /\ BehindOK(mem, file, ckpt)
  BY <1>0, Living
<1>2. a \in Answers /\ a.s = s /\ a.g = mem.look
  BY <1>1 DEF Answers, MemType
<1> HIDE DEF a
<1>3. m \in MemType
  BY <1>1, <1>2 DEF MemType
<1>4. /\ m.at = "speak" /\ m.due = <<>> /\ m.pend = mem.pend \ {s} /\ m.seen = mem.seen
      /\ m.st = mem.st /\ m.fd = mem.fd /\ m.eoff = mem.eoff /\ m.data = mem.data
      /\ m.cur = mem.cur /\ m.tell = {a} /\ m.r = mem.r
      /\ m.look = mem.look /\ m.left = mem.left /\ m.post = mem.post /\ m.cut = mem.cut
  BY <1>0, <1>1 DEF MemType
<1>5. mem.r \in Round /\ mem.pend \cap Of(mem.cur) = {} /\ mem.post = {}
  BY <1>0, <1>1 DEF MemOK, PlaceOK, InRound
<1>6. s \notin Of(mem.cur) /\ a \notin mem.cur
  BY <1>0, <1>2, <1>5 DEF Of
<1>7. /\ f \in FileType
      /\ f.raws = [file.raws EXCEPT ![mem.r] = IF a.s \in Of(@) THEN @ ELSE @ \union {a}]
      /\ f.off = file.off /\ f.st = file.st /\ f.pre = file.pre /\ f.entered = file.entered
      /\ f.look = file.look /\ f.ended = file.ended /\ f.post = file.post
      /\ f.lost = file.lost /\ f.notes = file.notes /\ f.here = file.here
  <2> DEFINE R == [file.raws EXCEPT ![mem.r] = IF a.s \in Of(@) THEN @ ELSE @ \union {a}]
  <2>1. file.raws \in [Round -> SUBSET Answers]
    BY <1>1 DEF FileType
  <2>2. R \in [Round -> SUBSET Answers]
    BY <1>2, <1>5, <2>1
  <2>3. f = [file EXCEPT !.raws = R] BY DEF RawRow
  <2> HIDE DEF R, f
  <2>4. f \in FileType /\ f.raws = R /\ f.off = file.off /\ f.st = file.st
        /\ f.pre = file.pre /\ f.entered = file.entered
        /\ f.look = file.look /\ f.ended = file.ended /\ f.post = file.post
        /\ f.lost = file.lost /\ f.notes = file.notes /\ f.here = file.here
    BY <1>1, <2>2, <2>3 DEF FileType
  <2> QED BY <2>4 DEF R
<1> HIDE DEF m, f
<1>8. MemOK(job, m, turns, notices, saves, ckpt)
  <2>1. PlaceOK(m)
    <3>1. m.pend \cap Of(m.cur \cup m.tell) = {}
      BY <1>2, <1>4, <1>5 DEF Of
    <3>2. m.cur \cap m.tell = {} BY <1>4, <1>6
    <3> QED BY <1>0, <1>1, <1>4, <3>1, <3>2 DEF MemOK, PlaceOK, Outside, InRound, Deciding, Inside
  <2>2. DueOK(m) BY <1>4 DEF DueOK
  <2>3. TurnsOK(mem, turns) => TurnsOK(m, turns)
    BY <1>4 DEF TurnsOK
  <2>4. ToldOK(mem, notices) => ToldOK(m, notices)
    BY <1>0, <1>4 DEF ToldOK, Told, ToldAt, Inside, InRound, Deciding
  <2>5. SavesOK(job, mem, notices, saves) => SavesOK(job, m, notices, saves)
    BY <1>0, <1>4 DEF SavesOK, Inside, InRound
  <2> QED BY <1>0, <1>1, <1>4, <2>1, <2>2, <2>3, <2>4, <2>5 DEF MemOK, Outside, Inside, InRound
<1>9. BehindOK(m, file, ckpt)
  BY <1>0, <1>1, <1>4 DEF BehindOK, Inside, InRound
<1>10. ASSUME mem.fd, ~mem.eoff PROVE Written(job, m, f, turns, notices, saves, ckpt)
  <2>0. /\ ~file.off /\ InStage(file) /\ file.st = mem.st /\ RestorableOf(job, file) + 1 = mem.r
        /\ SpeakOK(job, mem, file) /\ RoundsOK(job, file) /\ LedgerOK(file, turns, notices)
    BY <1>0, <1>10, InARound DEF InRound
  <2>1. ~file.ended[mem.r] /\ file.raws[mem.r] = mem.cur /\ mem.look = file.look[mem.r]
        /\ file.here = mem.r
    BY <1>0, <2>0 DEF SpeakOK, InRound
  <2>2. /\ f.raws[mem.r] = mem.cur \cup {a}
        /\ \A r \in Round : r # mem.r => f.raws[r] = file.raws[r]
    <3>1. file.raws \in [Round -> SUBSET Answers]
      BY <1>1 DEF FileType
    <3>2. a.s \notin Of(file.raws[mem.r]) BY <1>2, <1>6, <2>1
    <3> QED BY <1>5, <1>7, <2>1, <3>1, <3>2
  <2>3. RestorableOf(job, f) = RestorableOf(job, file)
    <3>1. \A r \in Round : Whole(job, f, r) <=> Whole(job, file, r)
      BY <1>7, <2>1, <2>2 DEF Whole
    <3> QED BY <3>1, RestorableSame
  <2>4. RoundsOK(job, f)
    <3>1. ASSUME NEW r \in Round
          PROVE  r > RestorableOf(job, f) + 1 => f.raws[r] = {} /\ f.look[r] = 0
      <4>1. r > mem.r => r # mem.r BY <1>5 DEF Round
      <4> QED BY <1>7, <2>0, <2>2, <2>3, <4>1 DEF RoundsOK
    <3>2. ASSUME NEW r \in Round, NEW b \in f.raws[r], NEW c \in f.raws[r]
          PROVE  b.g = f.look[r] /\ (b.s = c.s => b = c)
      <4>1. CASE r # mem.r BY <1>7, <2>0, <2>2, <3>2, <4>1 DEF RoundsOK
      <4>2. CASE r = mem.r
        <5>1. \A x \in mem.cur : x.s # a.s
          BY <1>2, <1>6 DEF Of
        <5>2. \A x, y \in mem.cur : x.g = mem.look /\ (x.s = y.s => x = y)
          BY <1>5, <2>0, <2>1 DEF RoundsOK
        <5>3. b \in mem.cur \cup {a} /\ c \in mem.cur \cup {a} BY <2>2, <3>2, <4>2
        <5>4. f.look[r] = mem.look BY <1>7, <2>1, <4>2
        <5> QED BY <1>2, <5>1, <5>2, <5>3, <5>4
      <4> QED BY <4>1, <4>2
    <3>3. ASSUME NEW r \in Round, f.ended[r]
          PROVE  /\ r <= RestorableOf(job, f) \/ (job.stop /\ r = 1)
                 /\ Of(f.raws[r]) = Seats \ f.lost[r]
      <4>1. r # mem.r BY <1>7, <2>1, <3>3
      <4> QED BY <1>7, <2>0, <2>2, <2>3, <3>3, <4>1 DEF RoundsOK
    <3> QED BY <1>7, <2>0, <2>3, <3>1, <3>2, <3>3 DEF RoundsOK
  <2>5. LedgerOK(f, turns, notices)
    BY <1>7, <2>0, <2>1, <2>2 DEF LedgerOK
  <2>6. JournalOK(job, f, turns, notices, saves, ckpt)
    BY <1>1, <1>7, <2>3, <2>4, <2>5 DEF JournalOK, InStage, NotesOK
  <2>7. BehindOK(m, f, ckpt)
    BY <1>7, <1>9 DEF BehindOK, InStage
  <2>8. SpeakOK(job, m, f)
    BY <1>0, <1>4, <1>5, <1>7, <2>0, <2>1, <2>2, <2>3 DEF SpeakOK, InRound
  <2>9. WritesOK(job, m, f)
    BY <1>4, <1>7, <1>10, <2>0, <2>8 DEF WritesOK, InStage, Deciding
  <2> QED BY <1>7, <2>6, <2>7, <2>9 DEF Written
<1>11. m.at # "down" BY <1>4
<1> QED BY <1>0, <1>3, <1>4, <1>8, <1>9, <1>10, <1>11, Moves

\* Fail: a seat is lost to the round.
LEMMA FailStep == ASSUME IInv, NEW s \in Seats, Fail(s) PROVE IInv'
<1> DEFINE m == [mem EXCEPT !.pend = @ \ {s}]
<1>0. mem.at = "speak" /\ mem.due = <<>> /\ mem' = m
      /\ UNCHANGED <<job, attempt, file, turns, notices, ckpt, saves, over>>
  BY DEF Fail, At
<1>1. /\ mem \in MemType
      /\ MemOK(job, mem, turns, notices, saves, ckpt)
      /\ BehindOK(mem, file, ckpt) /\ WritesOK(job, mem, file)
  BY <1>0, Living
<1>2. m \in MemType
  BY <1>1 DEF MemType
<1>3. /\ m.at = "speak" /\ m.due = <<>> /\ m.pend = mem.pend \ {s} /\ m.seen = mem.seen
      /\ m.st = mem.st /\ m.fd = mem.fd /\ m.eoff = mem.eoff /\ m.data = mem.data
      /\ m.cur = mem.cur /\ m.tell = mem.tell /\ m.r = mem.r
      /\ m.look = mem.look /\ m.left = mem.left /\ m.post = mem.post /\ m.cut = mem.cut
  BY <1>0, <1>1 DEF MemType
<1> HIDE DEF m
<1>4. MemOK(job, m, turns, notices, saves, ckpt)
  <2>1. PlaceOK(m)
    BY <1>0, <1>1, <1>3 DEF MemOK, PlaceOK, Outside, InRound, Deciding, Inside
  <2>2. DueOK(m) BY <1>3 DEF DueOK
  <2>3. TurnsOK(mem, turns) => TurnsOK(m, turns)
    BY <1>3 DEF TurnsOK
  <2>4. ToldOK(mem, notices) => ToldOK(m, notices)
    BY <1>0, <1>3 DEF ToldOK, Told, ToldAt, Inside, InRound, Deciding
  <2>5. SavesOK(job, mem, notices, saves) => SavesOK(job, m, notices, saves)
    BY <1>0, <1>3 DEF SavesOK, Inside, InRound
  <2> QED BY <1>0, <1>1, <1>3, <2>1, <2>2, <2>3, <2>4, <2>5 DEF MemOK, Outside, Inside, InRound
<1>5. BehindOK(m, file, ckpt)
  BY <1>0, <1>1, <1>3 DEF BehindOK, Inside, InRound
<1>6. WritesOK(job, m, file)
  <2>1. SpeakOK(job, mem, file) => SpeakOK(job, m, file)
    BY <1>0, <1>3 DEF SpeakOK, InRound
  <2> QED BY <1>0, <1>1, <1>3, <2>1 DEF WritesOK, Inside, InRound, Deciding
<1> QED BY <1>0, <1>2, <1>3, <1>4, <1>5, <1>6, Thinks

\* Turn: the answer heard is shown, unless the ledger is closed.
LEMMA TurnStep == ASSUME IInv, Turn PROVE IInv'
<1>0. mem.at = "speak" /\ mem.due = <<>>
      /\ UNCHANGED <<job, attempt, file, notices, ckpt, saves, over>>
  BY DEF Turn, At
<1>1. /\ mem \in MemType /\ file \in FileType /\ LedgerType(turns, notices, saves, ckpt)
      /\ LifeOK(job, attempt, mem, over) /\ OnceOK(notices, saves)
      /\ JournalOK(job, file, turns, notices, saves, ckpt)
      /\ MemOK(job, mem, turns, notices, saves, ckpt)
      /\ BehindOK(mem, file, ckpt) /\ WritesOK(job, mem, file)
  BY <1>0, Living
<1>2. PICK a \in mem.tell :
         /\ mem' = [mem EXCEPT !.cur = @ \union {a}, !.tell = @ \ {a}]
         /\ turns' = IF mem.fd THEN [turns EXCEPT ![mem.r] = Append(@, a)] ELSE turns
  BY DEF Turn
<1>3. a \in Answers
  BY <1>1 DEF MemType
<1> DEFINE m == [mem EXCEPT !.cur = @ \union {a}, !.tell = @ \ {a}]
<1>4. m \in MemType
  BY <1>1, <1>3 DEF MemType
<1>5. /\ m.at = "speak" /\ m.due = <<>> /\ m.pend = mem.pend /\ m.seen = mem.seen
      /\ m.st = mem.st /\ m.fd = mem.fd /\ m.eoff = mem.eoff /\ m.data = mem.data
      /\ m.cur = mem.cur \cup {a} /\ m.tell = mem.tell \ {a} /\ m.r = mem.r
      /\ m.look = mem.look /\ m.left = mem.left /\ m.post = mem.post /\ m.cut = mem.cut
  BY <1>0, <1>1 DEF MemType
<1>6. mem' = m BY <1>2
<1> HIDE DEF m
<1>7. PlaceOK(mem) /\ mem.r \in Round /\ a \notin mem.cur /\ IsFiniteSet(mem.cur)
  BY <1>0, <1>1 DEF MemOK, PlaceOK, InRound
<1>8. IsFiniteSet(m.cur) /\ Cardinality(m.cur) = Cardinality(mem.cur) + 1
  BY <1>5, <1>7, FS_AddElement
<1>9. /\ turns \in [Round -> Seq(Answers)] /\ turns' \in [Round -> Seq(Answers)]
      /\ \A r \in Round : r # mem.r => turns'[r] = turns[r]
      /\ mem.fd => turns'[mem.r] = Append(turns[mem.r], a)
      /\ ~mem.fd => turns' = turns
  <2>1. turns \in [Round -> Seq(Answers)] BY <1>1 DEF LedgerType
  <2>2. turns[mem.r] \in Seq(Answers) BY <1>7, <2>1
  <2>3. Append(turns[mem.r], a) \in Seq(Answers) BY <1>3, <2>2
  <2> QED BY <1>2, <1>7, <2>1, <2>3
<1>10. LedgerType(turns', notices, saves, ckpt)
  BY <1>1, <1>9 DEF LedgerType
<1>11. MemOK(job, m, turns', notices, saves, ckpt)
  <2>1. PlaceOK(m)
    <3>1. m.cur \cup m.tell = mem.cur \cup mem.tell BY <1>5
    <3>2. m.cur \cap m.tell = {} BY <1>0, <1>5, <1>7 DEF PlaceOK, InRound
    <3> QED BY <1>0, <1>5, <1>7, <1>8, <3>1, <3>2
         DEF PlaceOK, Outside, InRound, Deciding, Inside
  <2>2. DueOK(m) BY <1>5 DEF DueOK
  <2>3. ASSUME mem.fd, TurnsOK(mem, turns) PROVE TurnsOK(m, turns')
    <3>1. mem.cur = ShownIn(turns, mem.r) /\ Len(turns[mem.r]) = Cardinality(mem.cur)
      BY <1>7, <2>3 DEF TurnsOK, Round
    <3>2. turns[mem.r] \in Seq(Answers) BY <1>7, <1>9
    <3>3. /\ Len(turns'[mem.r]) = Len(turns[mem.r]) + 1
          /\ \A i \in 1..Len(turns[mem.r]) : turns'[mem.r][i] = turns[mem.r][i]
          /\ turns'[mem.r][Len(turns[mem.r]) + 1] = a
      BY <1>9, <2>3, <3>2
    <3>4. Len(turns[mem.r]) \in Nat BY <3>2
    <3>5. ShownIn(turns', mem.r) = ShownIn(turns, mem.r) \cup {a}
      BY <3>3, <3>4 DEF ShownIn
    <3>6. \A r \in Round : r # mem.r => ShownIn(turns', r) = ShownIn(turns, r)
      BY <1>9 DEF ShownIn
    <3>7. \A r \in Round : r < mem.r => m.data[r] = ShownIn(turns', r)
      BY <1>5, <1>7, <2>3, <3>6 DEF TurnsOK, Round
    <3>8. \A r \in Round : r > mem.r => turns'[r] = <<>>
      BY <1>7, <1>9, <2>3 DEF TurnsOK, Round
    <3> QED BY <1>5, <1>8, <3>1, <3>3, <3>5, <3>7, <3>8 DEF TurnsOK
  <2>4. ToldOK(mem, notices) => ToldOK(m, notices)
    BY <1>0, <1>5 DEF ToldOK, Told, ToldAt, Inside, InRound, Deciding
  <2>5. SavesOK(job, mem, notices, saves) => SavesOK(job, m, notices, saves)
    BY <1>0, <1>5 DEF SavesOK, Inside, InRound
  <2> QED BY <1>0, <1>1, <1>5, <2>1, <2>2, <2>3, <2>4, <2>5 DEF MemOK, Outside, Inside, InRound
<1>12. BehindOK(m, file, ckpt)
  BY <1>0, <1>1, <1>5 DEF BehindOK, Inside, InRound
<1>13. WritesOK(job, m, file)
  <2>1. SpeakOK(job, mem, file) => SpeakOK(job, m, file)
    <3>1. m.cur \cup m.tell = mem.cur \cup mem.tell BY <1>5
    <3> QED BY <1>0, <1>5, <3>1 DEF SpeakOK, InRound
  <2> QED BY <1>0, <1>1, <1>5, <2>1 DEF WritesOK, Inside, InRound, Deciding
<1>14. JournalOK(job, file, turns', notices, saves, ckpt)
  <2>1. CASE ~mem.fd BY <1>1, <1>9, <2>1
  <2>2. CASE mem.fd
    <3>1. ASSUME InStage(file), file.st > ckpt, LedgerOK(file, turns, notices)
          PROVE  LedgerOK(file, turns', notices)
      <4>1. \A r \in Round : file.ended[r] => r # mem.r
        BY <1>1, <1>7, <2>2, <3>1 DEF BehindOK, Round
      <4>2. \A r \in Round : file.ended[r] => turns'[r] = turns[r]
        BY <1>9, <4>1
      <4>3. \A r \in Round : file.ended[r] => ShownIn(turns', r) = ShownIn(turns, r)
        BY <4>2 DEF ShownIn
      <4> QED BY ONLY <3>1, <4>2, <4>3 DEF LedgerOK
    <3> QED BY <1>1, <3>1 DEF JournalOK
  <2> QED BY <2>1, <2>2
<1>15. LifeOK(job, attempt, m, over)
  BY <1>0, <1>1, <1>5 DEF LifeOK
<1>16. InvOf(job, attempt, m, file, turns', notices, ckpt, saves, over)
  BY <1>1, <1>4, <1>10, <1>11, <1>12, <1>13, <1>14, <1>15 DEF InvOf, EngineOK
<1> QED BY <1>0, <1>6, <1>16 DEF IInv

\* Close: the round's answers are those of the chair; who was lost is told.
LEMMA CloseStep == ASSUME IInv, Close PROVE IInv'
<1> DEFINE d == IF Lost = {} THEN <<>>
                ELSE <<Note(mem.r, "lost", Lost), Note(mem.r, "card", Lost)>>
           m == [mem EXCEPT !.at = "close", !.data[mem.r] = mem.cur, !.due = d]
<1>0. mem.at = "speak" /\ mem.due = <<>> /\ mem.tell = {} /\ mem' = m
      /\ UNCHANGED <<job, attempt, file, turns, notices, ckpt, saves, over>>
  BY DEF Close, At
<1>1. /\ mem \in MemType
      /\ MemOK(job, mem, turns, notices, saves, ckpt)
      /\ BehindOK(mem, file, ckpt) /\ WritesOK(job, mem, file)
  BY <1>0, Living
<1>2. mem.r \in Round /\ mem.r \in Place
  BY <1>0, <1>1 DEF MemOK, PlaceOK, InRound, MemType
<1>3. /\ d \in Seq(Notice) /\ Lost = Gone(mem)
      /\ d # <<>> => d = <<Note(mem.r, "lost", Lost), Note(mem.r, "card", Lost)>>
      /\ Lost # {} => Len(d) = 2
      /\ \A i \in DOMAIN d : d[i].what \in {"lost", "card"}
  <2>1. Lost = Gone(mem) /\ Lost \in SUBSET Seats BY DEF Lost, Gone
  <2> DEFINE p == Note(mem.r, "lost", Lost)
             q == Note(mem.r, "card", Lost)
  <2>2. p \in Notice /\ q \in Notice /\ p.what = "lost" /\ q.what = "card"
    BY <1>2, <2>1, NoteIs
  <2> HIDE DEF p, q
  <2>3. <<p, q>> \in Seq(Notice) /\ Len(<<p, q>>) = 2 BY <2>2
  <2>4. \A i \in DOMAIN <<p, q>> : <<p, q>>[i].what \in {"lost", "card"} BY <2>2
  <2>5. \A i \in DOMAIN <<>> : FALSE OBVIOUS
  <2>6. CASE Lost = {} BY <2>1, <2>5, <2>6
  <2>7. CASE Lost # {}
    <3>1. d = <<p, q>> BY <2>7 DEF p, q
    <3> HIDE DEF d
    <3> QED BY <2>1, <2>3, <2>4, <2>7, <3>1 DEF p, q
  <2> QED BY <2>6, <2>7
<1> HIDE DEF d
<1>4. m \in MemType
  <2>1. [mem.data EXCEPT ![mem.r] = mem.cur] \in [Round -> SUBSET Answers]
    BY <1>1, <1>2 DEF MemType
  <2> QED BY <1>1, <1>3, <2>1 DEF MemType, Inside, InRound
<1>5. /\ m.at = "close" /\ m.due = d /\ m.pend = mem.pend /\ m.seen = mem.seen
      /\ m.st = mem.st /\ m.fd = mem.fd /\ m.eoff = mem.eoff
      /\ m.data = [mem.data EXCEPT ![mem.r] = mem.cur]
      /\ m.cur = mem.cur /\ m.tell = mem.tell /\ m.r = mem.r
      /\ m.look = mem.look /\ m.left = mem.left /\ m.post = mem.post /\ m.cut = mem.cut
  BY <1>0, <1>1 DEF MemType
<1>6. m.data[mem.r] = mem.cur /\ \A r \in Round : r # mem.r => m.data[r] = mem.data[r]
  BY <1>1, <1>2, <1>5 DEF MemType
<1> HIDE DEF m
<1>7. MemOK(job, m, turns, notices, saves, ckpt)
  <2>1. PlaceOK(m)
    BY <1>0, <1>1, <1>5 DEF MemOK, PlaceOK, Outside, InRound, Deciding, Inside
  <2>2. DueOK(m) BY <1>3, <1>5 DEF DueOK, Due, Gone
  <2>3. TurnsOK(mem, turns) => TurnsOK(m, turns)
    BY <1>2, <1>5, <1>6 DEF TurnsOK, Round
  <2>4. ToldOK(mem, notices) => ToldOK(m, notices)
    <3> SUFFICES ASSUME ToldOK(mem, notices) PROVE ToldOK(m, notices) OBVIOUS
    <3>1. ASSUME NEW n, Told(n, mem) PROVE Told(n, m)
      <4>1. n.what = "look" BY <1>0, <3>1 DEF Told, ToldAt, Deciding
      <4>2. \A i \in DOMAIN m.due : m.due[i] # n BY <1>3, <1>5, <4>1
      <4> QED BY <1>5, <4>1, <4>2 DEF Told, ToldAt
    <3>2. Gone(m) # {} => Len(m.due) = 2 BY <1>3, <1>5 DEF Gone
    <3> QED BY <1>0, <1>5, <3>1, <3>2 DEF ToldOK, Inside, InRound
  <2>5. SavesOK(job, mem, notices, saves) => SavesOK(job, m, notices, saves)
    BY <1>0, <1>5 DEF SavesOK, Inside, InRound
  <2> QED BY <1>0, <1>1, <1>5, <2>1, <2>2, <2>3, <2>4, <2>5 DEF MemOK, Outside, Inside, InRound
<1>8. BehindOK(m, file, ckpt)
  BY <1>0, <1>1, <1>5 DEF BehindOK, Inside, InRound
<1>9. WritesOK(job, m, file)
  <2>1. SpeakOK(job, mem, file) => SpeakOK(job, m, file)
    BY <1>0, <1>5 DEF SpeakOK, InRound
  <2> QED BY <1>0, <1>1, <1>5, <2>1 DEF WritesOK, Inside, InRound, Deciding
<1>10. m.at # "down" BY <1>5
<1> QED BY <1>0, <1>4, <1>5, <1>7, <1>8, <1>9, <1>10, Thinks

\* RoundEnd: the round's row says who was heard and who was lost.
LEMMA RestorableEnd ==
    ASSUME NEW j, NEW f \in FileType, NEW r \in Round, NEW cur, Of(cur) \subseteq Seats,
           RestorableOf(j, f) + 1 = r, RoundsOK(j, f), f.raws[r] = cur, NEW g,
           g.raws = f.raws, g.ended = [f.ended EXCEPT ![r] = TRUE],
           g.lost = [f.lost EXCEPT ![r] = Seats \ Of(cur)]
    PROVE  RestorableOf(j, g) = IF j.stop /\ r = 1 THEN 0 ELSE r
<1>0. /\ Rounds \in Nat \ {0} /\ r \in Nat /\ r >= 1 /\ r <= Rounds
      /\ f.ended \in [Round -> BOOLEAN] /\ f.lost \in [Round -> SUBSET Seats]
  BY EngineAssumption DEF Round, FileType
<1>1. g.ended[r] = TRUE /\ g.lost[r] = Seats \ Of(cur)
  BY <1>0
<1>2. \A q \in Round : q # r => g.ended[q] = f.ended[q] /\ g.lost[q] = f.lost[q]
  BY <1>0
<1>3. Of(g.raws[r]) \cup g.lost[r] = Seats
  BY <1>1
<1>4. \A q \in 1..r - 1 : Whole(j, g, q)
  <2> SUFFICES ASSUME NEW q \in 1..r - 1 PROVE Whole(j, g, q) OBVIOUS
  <2>1. q \in 1..RestorableOf(j, f) /\ q # r /\ q \in Round
    BY <1>0, RestorableIs DEF Round
  <2>2. Whole(j, f, q)
    BY <2>1, RestorableIs DEF IsRestorable
  <2> QED BY <1>2, <2>1, <2>2 DEF Whole
<1>5. CASE j.stop /\ r = 1
  <2>1. ~Whole(j, g, 1) BY <1>5 DEF Whole
  <2>2. IsRestorable(j, g, 0) BY <1>0, <2>1 DEF IsRestorable
  <2> QED BY <1>0, <1>5, <2>2, RestorableUnique
<1>6. CASE ~(j.stop /\ r = 1)
  <2>1. Whole(j, g, r)
    BY <1>1, <1>3, <1>6 DEF Whole
  <2>2. \A q \in 1..r : Whole(j, g, q)
    <3> SUFFICES ASSUME NEW q \in 1..r PROVE Whole(j, g, q) OBVIOUS
    <3>1. q = r \/ q \in 1..r - 1 BY <1>0
    <3> QED BY <1>4, <2>1, <3>1
  <2>3. r < Rounds => ~Whole(j, g, r + 1)
    <3> SUFFICES ASSUME r < Rounds, Whole(j, g, r + 1) PROVE FALSE OBVIOUS
    <3>1. r + 1 \in Round /\ r + 1 # r /\ r + 1 # 1 BY <1>0 DEF Round
    <3>2. f.ended[r + 1] BY <1>2, <3>1 DEF Whole
    <3>3. r + 1 <= RestorableOf(j, f) BY <3>1, <3>2 DEF RoundsOK
    <3> QED BY <1>0, <3>3, RestorableIs
  <2>4. IsRestorable(j, g, r) BY <2>2, <2>3 DEF IsRestorable
  <2> QED BY <1>0, <1>6, <2>4, RestorableUnique
<1> QED BY <1>5, <1>6

LEMMA RoundEndStep == ASSUME IInv, RoundEnd PROVE IInv'
<1> DEFINE to == IF mem.r = 1 /\ job.stop THEN "stopped"
                 ELSE IF mem.r < Rounds THEN "head" ELSE "chairin"
           m0 == [mem EXCEPT !.cur = {}, !.look = 0, !.r = @ + 1,
                             !.seen = @ /\ mem.r # mem.cut,
                             !.left = IF mem.r = mem.cut THEN {} ELSE @]
           m == [m0 EXCEPT !.at = to]
           f == RoundEndRow(mem.r, Lost)
<1>0. mem.at = "close" /\ mem.due = <<>> /\ Row(f, m)
      /\ UNCHANGED <<job, attempt, turns, notices, ckpt, saves, over>>
  BY DEF RoundEnd, At
<1>1. /\ mem \in MemType /\ file \in FileType
      /\ JournalOK(job, file, turns, notices, saves, ckpt)
      /\ MemOK(job, mem, turns, notices, saves, ckpt)
      /\ BehindOK(mem, file, ckpt)
  BY <1>0, Living
<1>2. /\ mem.r \in Round /\ mem.post = {} /\ PlaceOK(mem)
  BY <1>0, <1>1 DEF MemOK, PlaceOK, InRound
<1>3. /\ Rounds \in Nat \ {0} /\ mem.r \in Nat /\ mem.r >= 1 /\ mem.r <= Rounds
      /\ mem.r + 1 \in Place
  BY <1>2, EngineAssumption DEF Round, Place
<1>4. to \in Inside /\ to \in {"stopped", "head", "chairin"} /\ (to = "head" => mem.r < Rounds)
      /\ (to = "chairin" => mem.r = Rounds) /\ (to # "stopped" => ~(job.stop /\ mem.r = 1))
  BY <1>3 DEF Inside
<1> HIDE DEF to
<1>5. m0 \in MemType /\ m0.r = mem.r + 1
  <2>1. (mem.seen /\ mem.r # mem.cut) \in BOOLEAN
        /\ (IF mem.r = mem.cut THEN {} ELSE mem.left) \in SUBSET Notice
        /\ 0 \in 0..MaxAttempts /\ {} \in SUBSET Answers
    BY <1>1, EngineAssumption DEF MemType
  <2> QED BY <1>1, <1>3, <2>1 DEF MemType
<1>6. m \in MemType
  BY <1>4, <1>5 DEF MemType
<1>7. mem.left # {} => mem.r = mem.cut
  BY <1>0, <1>2 DEF PlaceOK, Inside, InRound
<1>8. /\ m.at = to /\ m.due = <<>>
      /\ m.st = mem.st /\ m.fd = mem.fd /\ m.eoff = mem.eoff /\ m.data = mem.data
      /\ m.cur = {} /\ m.tell = mem.tell /\ m.r = mem.r + 1
      /\ m.look = 0 /\ m.left = {} /\ m.post = {} /\ m.cut = mem.cut
  BY <1>0, <1>1, <1>2, <1>7 DEF MemType
<1>9. Lost = Seats \ Of(mem.cur) /\ Lost \in SUBSET Seats /\ Of(mem.cur) \subseteq Seats
  <2>1. mem.cur \subseteq Answers BY <1>1 DEF MemType
  <2> QED BY <2>1 DEF Lost, Of, Answers
<1>10. /\ f \in FileType /\ f.raws = file.raws /\ f.ended = [file.ended EXCEPT ![mem.r] = TRUE]
       /\ f.lost = [file.lost EXCEPT ![mem.r] = Lost]
       /\ f.off = file.off /\ f.st = file.st /\ f.pre = file.pre /\ f.entered = file.entered
       /\ f.look = file.look /\ f.post = file.post
       /\ f.notes = file.notes /\ f.here = file.here
  BY <1>1, <1>2, <1>9 DEF RoundEndRow, FileType
<1>11. /\ f.ended[mem.r] = TRUE /\ f.lost[mem.r] = Lost
       /\ \A r \in Round : r # mem.r => f.ended[r] = file.ended[r] /\ f.lost[r] = file.lost[r]
  BY <1>1, <1>2, <1>10 DEF FileType
<1> HIDE DEF m0, m, f
<1>12. MemOK(job, m, turns, notices, saves, ckpt)
  <2>1. PlaceOK(m)
    <3>1. m.at = "head" => m.r \in Round BY <1>3, <1>4, <1>8 DEF Round
    <3>2. m.at = "chairin" => m.r = Rounds + 1 BY <1>4, <1>8
    <3> QED BY <1>4, <1>8, <3>1, <3>2, FS_EmptySet
         DEF PlaceOK, Outside, InRound, Deciding, Inside
  <2>2. DueOK(m) BY <1>8 DEF DueOK
  <2>3. TurnsOK(mem, turns) => TurnsOK(m, turns)
    <3> SUFFICES ASSUME TurnsOK(mem, turns) PROVE TurnsOK(m, turns) OBVIOUS
    <3>1. \A r \in Round : r < m.r => m.data[r] = ShownIn(turns, r)
      <4> SUFFICES ASSUME NEW r \in Round, r < m.r PROVE m.data[r] = ShownIn(turns, r)
        OBVIOUS
      <4>1. r < mem.r \/ r = mem.r BY <1>3, <1>8 DEF Round
      <4> QED BY <1>0, <1>8, <4>1 DEF TurnsOK
    <3>2. \A r \in Round : r >= m.r => turns[r] = <<>>
      BY <1>3, <1>8 DEF TurnsOK, Round
    <3>3. \A r \in Round : turns[r] = <<>> => ShownIn(turns, r) = {} /\ Len(turns[r]) = 0
      BY DEF ShownIn
    <3>4. Cardinality(m.cur) = 0 BY <1>8, FS_EmptySet
    <3>5. \A r \in Round : r = m.r => m.cur = ShownIn(turns, r) /\ Len(turns[r]) = Cardinality(m.cur)
      BY <1>3, <1>8, <3>2, <3>3, <3>4 DEF Round
    <3>6. \A r \in Round : r > m.r => turns[r] = <<>>
      BY <1>3, <1>8, <3>2 DEF Round
    <3> QED BY <1>4, <1>8, <3>1, <3>5, <3>6 DEF TurnsOK
  <2>4. ToldOK(mem, notices) => ToldOK(m, notices)
    <3> SUFFICES ASSUME ToldOK(mem, notices) PROVE ToldOK(m, notices) OBVIOUS
    <3>1. \A n \in DOMAIN notices : n.r <= mem.r
      BY <1>0 DEF ToldOK, Inside, InRound
    <3>2. ASSUME NEW n \in DOMAIN notices PROVE n.r <= m.r /\ n.r # m.r
      <4>1. n.r \in Nat
        <5>1. n \in Notice BY <1>0, Living DEF LedgerType
        <5> QED BY <5>1 DEF Notice, Place
      <4> QED BY <1>3, <1>8, <3>1, <4>1
    <3> QED BY <1>4, <1>8, <3>2 DEF ToldOK
  <2>5. SavesOK(job, mem, notices, saves) => SavesOK(job, m, notices, saves)
    BY <1>0, <1>2, <1>4, <1>8 DEF SavesOK, Inside, InRound
  <2> QED BY <1>0, <1>1, <1>4, <1>8, <2>1, <2>2, <2>3, <2>4, <2>5 DEF MemOK, Outside, Inside, InRound
<1>13. BehindOK(m, file, ckpt)
  BY <1>0, <1>1, <1>3, <1>4, <1>8 DEF BehindOK, Round
<1>14. ASSUME mem.fd, ~mem.eoff PROVE Written(job, m, f, turns, notices, saves, ckpt)
  <2>0. /\ ~file.off /\ InStage(file) /\ file.st = mem.st /\ file.st = ckpt + 1
        /\ RestorableOf(job, file) + 1 = mem.r
        /\ SpeakOK(job, mem, file) /\ RoundsOK(job, file) /\ LedgerOK(file, turns, notices)
        /\ NotesOK(file, mem.r, notices, saves) /\ file.post = {}
    BY <1>0, <1>14, InARound DEF InRound
  <2>1. file.raws[mem.r] = mem.cur /\ mem.tell = {}
    BY <1>0, <2>0 DEF SpeakOK
  <2> DEFINE k == RestorableOf(job, f)
  <2>2. k = IF job.stop /\ mem.r = 1 THEN 0 ELSE mem.r
    BY <1>1, <1>2, <1>9, <1>10, <2>0, <2>1, RestorableEnd
  <2>3. k \in Nat /\ k >= mem.r - 1
    BY <1>3, <2>2
  <2> HIDE DEF k
  <2>4. RoundsOK(job, f)
    <3>1. ASSUME NEW r \in Round, NEW b \in f.raws[r], NEW c \in f.raws[r]
          PROVE  b.g = f.look[r] /\ (b.s = c.s => b = c)
      BY <1>10, <2>0, <3>1 DEF RoundsOK
    <3>2. ASSUME NEW r \in Round, r > k + 1 PROVE f.raws[r] = {} /\ f.look[r] = 0
      <4>1. r > RestorableOf(job, file) + 1 BY <1>3, <2>0, <2>3, <3>2 DEF Round
      <4> QED BY <1>10, <2>0, <4>1 DEF RoundsOK
    <3>3. ASSUME NEW r \in Round, f.ended[r]
          PROVE  /\ r <= k \/ (job.stop /\ r = 1)
                 /\ Of(f.raws[r]) = Seats \ f.lost[r]
      <4>1. CASE r = mem.r
        <5>1. Of(f.raws[r]) = Seats \ f.lost[r] BY <1>9, <1>10, <1>11, <2>1, <4>1
        <5>2. r <= k \/ (job.stop /\ r = 1) BY <1>3, <2>2, <4>1
        <5> QED BY <5>1, <5>2
      <4>2. CASE r # mem.r
        <5>1. file.ended[r] /\ f.lost[r] = file.lost[r] BY <1>11, <3>3, <4>2
        <5>2. r <= RestorableOf(job, file) \/ (job.stop /\ r = 1)
          BY <2>0, <5>1 DEF RoundsOK
        <5>3. RestorableOf(job, file) = mem.r - 1
          BY <1>3, <2>0, RestorableIs
        <5>4. r <= k \/ (job.stop /\ r = 1)
          BY <1>3, <2>3, <5>2, <5>3 DEF Round
        <5> QED BY <1>10, <2>0, <5>1, <5>4 DEF RoundsOK
      <4> QED BY <4>1, <4>2
    <3>4. f.post = {} BY <1>10, <2>0
    <3> QED BY <3>1, <3>2, <3>3, <3>4 DEF RoundsOK, k
  <2>5. LedgerOK(f, turns, notices)
    <3>1. TurnsOK(mem, turns) /\ ToldOK(mem, notices)
      BY <1>0, <1>1, <1>14 DEF MemOK, Inside, InRound
    <3>2. ShownIn(turns, mem.r) = f.raws[mem.r] /\ Len(turns[mem.r]) = Cardinality(f.raws[mem.r])
      BY <1>2, <1>10, <2>1, <3>1 DEF TurnsOK
    <3>3. f.lost[mem.r] # {} => Note(mem.r, "lost", f.lost[mem.r]) \in DOMAIN notices
      <4>1. Len(mem.due) < 2 BY <1>0
      <4> QED BY <1>0, <1>9, <1>11, <3>1, <4>1 DEF ToldOK, Inside, InRound, Gone, Due
    <3> QED BY <1>10, <1>11, <2>0, <3>2, <3>3 DEF LedgerOK
  <2>6. NotesOK(f, k + 1, notices, saves)
    <3>1. CASE k + 1 = mem.r BY <1>10, <2>0, <3>1 DEF NotesOK
    <3>2. CASE k = mem.r
      <4>1. ASSUME NEW n \in DOMAIN notices PROVE n.r <= k + 1 /\ n.r # k + 1
        <5>1. n.r \in Nat
          <6>1. n \in Notice BY <1>0, Living DEF LedgerType
          <6> QED BY <6>1 DEF Notice, Place
        <5>2. n.r <= mem.r BY <2>0 DEF NotesOK
        <5> QED BY <1>3, <3>2, <5>1, <5>2
      <4>2. ASSUME NEW p \in Place, p >= k + 1 PROVE f.notes[p] = {}
        <5>1. p > mem.r BY <1>3, <3>2, <4>2 DEF Place
        <5> QED BY <1>10, <2>0, <5>1 DEF NotesOK
      <4>3. k + 1 \in Place BY <1>3, <3>2
      <4>4. f.notes[k + 1] = {} /\ \A p \in Place : p > k + 1 => f.notes[p] = {}
        BY <1>3, <3>2, <4>2, <4>3 DEF Place
      <4>5. saves > 0 => "intent" \in f.post BY <1>10, <2>0 DEF NotesOK
      <4> QED BY <4>1, <4>4, <4>5 DEF NotesOK
    <3> QED BY <1>3, <2>2, <3>1, <3>2
  <2>7. JournalOK(job, f, turns, notices, saves, ckpt)
    BY <1>1, <1>10, <2>0, <2>4, <2>5, <2>6 DEF JournalOK, k
  <2>8. BehindOK(m, f, ckpt)
    <3>1. \A r \in Round : f.ended[r] => r < m.r
      <4> SUFFICES ASSUME NEW r \in Round, f.ended[r] PROVE r < m.r OBVIOUS
      <4>1. r <= k \/ r = 1 BY <2>4 DEF RoundsOK, k
      <4> QED BY <1>3, <1>8, <2>2, <4>1 DEF Round
    <3> QED BY <1>4, <1>8, <1>10, <2>0, <3>1 DEF BehindOK
  <2>9. m.at = "head" => SpeakOK(job, m, f)
    <3> SUFFICES ASSUME m.at = "head" PROVE SpeakOK(job, m, f) OBVIOUS
    <3>1. k = mem.r /\ m.r \in Round /\ m.r = k + 1 /\ m.r # mem.r
      BY <1>3, <1>4, <1>8, <2>2 DEF Round
    <3>2. ~f.ended[m.r]
      <4>1. m.r <= k \/ m.r = 1 => FALSE BY <1>3, <3>1
      <4> QED BY <2>4, <3>1, <4>1 DEF RoundsOK, k
    <3>3. file.raws[m.r] = {} /\ file.look[m.r] = 0
      <4>1. m.r > RestorableOf(job, file) + 1 BY <1>3, <2>0, <3>1
      <4> QED BY <2>0, <3>1, <4>1 DEF RoundsOK
    <3> QED BY <1>8, <1>10, <2>1, <3>1, <3>2, <3>3 DEF SpeakOK, InRound, k
  <2>10. m.at = "chairin" => DecidingOK(job, m, f)
    BY <1>4, <1>8, <1>10, <2>0, <2>2 DEF DecidingOK, PostOK, Behind, Deciding, k
  <2>11. WritesOK(job, m, f)
    BY <1>4, <1>8, <1>10, <1>14, <2>0, <2>9, <2>10 DEF WritesOK, InStage, Deciding, InRound
  <2> QED BY <1>10, <2>7, <2>8, <2>11 DEF Written
<1>15. m.at # "down" BY <1>4, <1>8
<1> QED BY <1>0, <1>6, <1>8, <1>12, <1>13, <1>14, <1>15, Moves

-----------------------------------------------------------------------------
(* The notices of a place.                                                 *)

\* Due and shown notices: what the engine is about to tell is not told yet.
DueFacts(x) ==
    LET n == Head(x.due)
        rest == Tail(x.due)
    IN  /\ n \in Notice /\ n = x.due[1] /\ 1 \in DOMAIN x.due /\ n.r = x.r
        /\ x.at \in InRound \cup Deciding /\ ToldAt(n.what, x.at)
        /\ rest \in Seq(Notice) /\ Len(rest) = Len(x.due) - 1 /\ Len(x.due) \in {1, 2}
        /\ \A i \in DOMAIN rest : /\ i + 1 \in DOMAIN x.due /\ rest[i] = x.due[i + 1]
                                 /\ rest[i] # n
        /\ rest # <<>> => /\ x.at = "close" /\ rest = <<Due(x, "card", Gone(x))>>
        /\ x.at = "close" /\ Len(x.due) = 2 => n = Due(x, "lost", Gone(x))
        /\ x.at = "intent" => n = Due(x, "maybe", {})
        /\ x.at # "save"
LEMMA DueIs ==
    ASSUME NEW x \in MemType, DueOK(x), x.due # <<>>
    PROVE  DueFacts(x)
<1>1. x.due \in Seq(Notice) /\ x.r \in Place /\ Gone(x) \in SUBSET Seats
  BY DEF MemType, Gone
<1> DEFINE p == Due(x, "lost", Gone(x))
           q == Due(x, "card", Gone(x))
           l == Due(x, "look", {})
           o == Due(x, "short", {})
           b == Due(x, "maybe", {})
<1>2. /\ p \in Notice /\ p.what = "lost" /\ p.r = x.r
      /\ q \in Notice /\ q.what = "card" /\ q.r = x.r
      /\ l \in Notice /\ l.what = "look" /\ l.r = x.r
      /\ o \in Notice /\ o.what = "short" /\ o.r = x.r
      /\ b \in Notice /\ b.what = "maybe" /\ b.r = x.r
  BY <1>1, NoteIs DEF Due
<1>3. \/ x.at = "gather" /\ x.due = <<l>>
      \/ x.at = "close" /\ (x.due = <<p, q>> \/ x.due = <<q>>)
      \/ x.at = "decide" /\ x.due = <<o>>
      \/ x.at = "intent" /\ x.due = <<b>>
  BY DEF DueOK
<1>0. p = Due(x, "lost", Gone(x)) /\ q = Due(x, "card", Gone(x)) /\ b = Due(x, "maybe", {})
  OBVIOUS
<1> HIDE DEF p, q, l, o, b
<1>4. ASSUME NEW n \in Notice
      PROVE  /\ Head(<<n>>) = n /\ <<n>>[1] = n /\ Tail(<<n>>) = <<>> /\ Len(<<n>>) = 1
             /\ DOMAIN <<n>> = {1}
  OBVIOUS
<1>5. /\ Head(<<p, q>>) = p /\ <<p, q>>[1] = p /\ Tail(<<p, q>>) = <<q>> /\ Len(<<p, q>>) = 2
      /\ DOMAIN <<p, q>> = 1..2 /\ <<p, q>>[2] = q
  BY <1>2
<1>6. <<>> \in Seq(Notice) /\ DOMAIN <<>> = {} /\ Len(<<>>) = 0
  OBVIOUS
<1>7. ASSUME NEW n \in Notice, x.due = <<n>>, n.r = x.r, ToldAt(n.what, x.at),
             x.at \in InRound \cup Deciding, x.at = "intent" => n = b, x.at # "save"
      PROVE  DueFacts(x)
  BY <1>0, <1>4, <1>6, <1>7 DEF DueFacts
<1>8. CASE x.at = "close" /\ x.due = <<p, q>>
  <2>1. ToldAt(p.what, x.at) /\ x.at \in InRound BY <1>2, <1>8 DEF ToldAt, InRound
  <2>2. Head(x.due) = p /\ Tail(x.due) = <<q>> /\ x.due[1] = p /\ DOMAIN x.due = 1..2
        /\ x.due[2] = q /\ Len(x.due) = 2 /\ Len(Tail(x.due)) = 1 /\ DOMAIN Tail(x.due) = {1}
        /\ Tail(x.due)[1] = q
    BY <1>2, <1>4, <1>5, <1>8
  <2>3. p # q BY <1>2
  <2>4. <<q>> \in Seq(Notice) BY <1>2
  <2>5. Tail(x.due) \in Seq(Notice) BY <2>2, <2>4
  <2> QED BY <1>0, <1>2, <1>8, <2>1, <2>2, <2>3, <2>5 DEF DueFacts
<1>9. CASE x.at = "gather" /\ x.due = <<l>>
  BY <1>2, <1>7, <1>9 DEF ToldAt, InRound
<1>10. CASE x.at = "close" /\ x.due = <<q>>
  BY <1>2, <1>7, <1>10 DEF ToldAt, InRound
<1>11. CASE x.at = "decide" /\ x.due = <<o>>
  BY <1>2, <1>7, <1>11 DEF ToldAt, Deciding
<1>12. CASE x.at = "intent" /\ x.due = <<b>>
  BY <1>2, <1>7, <1>12 DEF ToldAt, Deciding
<1> QED BY <1>3, <1>8, <1>9, <1>10, <1>11, <1>12

\* Notify, the engine's memory: what is told leaves what is due.
LEMMA NotifyMem ==
    ASSUME NEW j, NEW x \in MemType, NEW tu, NEW no, NEW no2, NEW sa, NEW ck,
           MemOK(j, x, tu, no, sa, ck), x.due # <<>>, DOMAIN no \subseteq Notice,
           NEW y \in MemType,
           y.left = x.left \/ y.left = x.left \ {Head(x.due)}, y.due = Tail(x.due),
           y.at = x.at, y.st = x.st, y.r = x.r, y.cur = x.cur, y.pend = x.pend,
           y.tell = x.tell, y.data = x.data, y.look = x.look, y.seen = x.seen,
           y.cut = x.cut, y.post = x.post, y.fd = x.fd,
           x.fd => DOMAIN no2 = DOMAIN no \cup {Head(x.due)}
    PROVE  MemOK(j, y, tu, no2, sa, ck)
<1> DEFINE n == Head(x.due)
           rest == Tail(x.due)
<1>0. DueFacts(x)
  BY DueIs DEF MemOK
<1>1. /\ n \in Notice /\ n = x.due[1] /\ 1 \in DOMAIN x.due /\ n.r = x.r
      /\ x.at \in InRound \cup Deciding /\ ToldAt(n.what, x.at)
      /\ rest \in Seq(Notice) /\ Len(rest) = Len(x.due) - 1 /\ Len(x.due) \in {1, 2}
      /\ \A i \in DOMAIN rest : i + 1 \in DOMAIN x.due /\ rest[i] = x.due[i + 1] /\ rest[i] # n
      /\ rest # <<>> => x.at = "close" /\ rest = <<Due(x, "card", Gone(x))>>
      /\ x.at = "close" /\ Len(x.due) = 2 => n = Due(x, "lost", Gone(x))
      /\ x.at = "intent" => n = Due(x, "maybe", {})
      /\ x.at # "save"
  BY <1>0 DEF DueFacts
<1> HIDE DEF n, rest
<1>2. y.due = rest /\ (x.fd => DOMAIN no2 = DOMAIN no \cup {n})
      /\ (y.left = x.left \/ y.left = x.left \ {n})
  BY DEF n, rest
<1>3. PlaceOK(x) BY DEF MemOK
<1>4. PlaceOK(y)
  BY <1>1, <1>2, <1>3 DEF PlaceOK
<1>5. DueOK(y)
  BY <1>1, <1>2 DEF DueOK, Due, Gone
<1>6. TurnsOK(x, tu) => TurnsOK(y, tu)
  BY DEF TurnsOK
<1>7. ASSUME x.fd, ToldOK(x, no) PROVE ToldOK(y, no2)
  <2>1. x.at \in Inside \ {"stopped", "checkpoint"}
    BY <1>1 DEF Inside, InRound, Deciding
  <2>2. ASSUME NEW k, Told(k, x) PROVE Told(k, y)
    BY <1>1, <1>2, <2>2 DEF Told
  <2>3. Told(n, y)
    BY <1>1, <1>2 DEF Told
  <2>4. ASSUME NEW k \in DOMAIN no2
        PROVE  k.r <= y.r /\ (k.r = y.r => k \in y.left \/ Told(k, y))
    <3>1. CASE k = n
      <4>1. x.r \in Nat BY EngineAssumption DEF MemType, Place
      <4> QED BY <1>1, <2>3, <3>1, <4>1
    <3>2. CASE k # n
      <4>1. k \in DOMAIN no BY <1>2, <1>7, <2>4, <3>2
      <4>2. k.r <= x.r /\ (k.r = x.r => k \in x.left \/ Told(k, x))
        BY <1>7, <2>1, <4>1 DEF ToldOK
      <4> QED BY <1>2, <2>2, <3>2, <4>2
    <3> QED BY <3>1, <3>2
  <2>5. y.left \subseteq DOMAIN no2
    BY <1>2, <1>7, <2>1 DEF ToldOK
  <2>6. x.at = "close" /\ Len(rest) < 2 /\ Gone(x) # {} => Due(x, "lost", Gone(x)) \in DOMAIN no2
    BY <1>1, <1>2, <1>7, <2>1 DEF ToldOK
  <2> QED BY <1>2, <2>4, <2>5, <2>6 DEF ToldOK, Due, Gone
<1>8. ASSUME x.fd, SavesOK(j, x, no, sa) PROVE SavesOK(j, y, no2, sa)
  <2>1. x.at = "intent" => Maybe \in DOMAIN no2
    BY <1>1, <1>2, <1>3, <1>8 DEF Maybe, Due, PlaceOK, Deciding
  <2> QED BY <1>1, <1>8, <2>1 DEF SavesOK
<1>9. x.at \in Inside /\ x.at \notin Outside
  BY <1>1 DEF Inside, InRound, Deciding, Outside
<1> QED BY <1>4, <1>5, <1>6, <1>7, <1>8, <1>9 DEF MemOK

\* Notify: a notice that the cut process told is not told again.
LEMMA NotifyStep == ASSUME IInv, Notify PROVE IInv'
<1> DEFINE n == Head(mem.due)
           m == [mem EXCEPT !.due = Tail(@)]
<1>0. mem.at # "down" /\ over = "" /\ mem.due # <<>> /\ Show(n, m)
      /\ UNCHANGED <<job, attempt, turns, ckpt, saves, over>>
  BY DEF Notify, Alive
<1>1. /\ mem \in MemType /\ file \in FileType /\ LedgerType(turns, notices, saves, ckpt)
      /\ LifeOK(job, attempt, mem, over) /\ OnceOK(notices, saves)
      /\ JournalOK(job, file, turns, notices, saves, ckpt)
      /\ MemOK(job, mem, turns, notices, saves, ckpt)
      /\ BehindOK(mem, file, ckpt) /\ WritesOK(job, mem, file)
  BY <1>0, Living
<1>2. DueFacts(mem)
  BY <1>0, <1>1, DueIs DEF MemOK
<1>3. /\ n \in Notice /\ n = mem.due[1] /\ 1 \in DOMAIN mem.due /\ n.r = mem.r
      /\ mem.at \in InRound \cup Deciding /\ Tail(mem.due) \in Seq(Notice)
  BY <1>2 DEF DueFacts
<1>4. m \in MemType
  BY <1>1, <1>3 DEF MemType
<1>5. /\ m.at = mem.at /\ m.due = Tail(mem.due) /\ m.pend = mem.pend /\ m.seen = mem.seen
      /\ m.st = mem.st /\ m.fd = mem.fd /\ m.eoff = mem.eoff /\ m.data = mem.data
      /\ m.cur = mem.cur /\ m.tell = mem.tell /\ m.r = mem.r
      /\ m.look = mem.look /\ m.left = mem.left /\ m.post = mem.post /\ m.cut = mem.cut
  BY <1>1 DEF MemType
<1>6. DOMAIN notices \subseteq Notice /\ notices \in [DOMAIN notices -> Nat]
  BY <1>1 DEF LedgerType
<1> HIDE DEF m, n
<1>7. ASSUME NEW y, y = m \/ y = [m EXCEPT !.left = @ \ {n}]
      PROVE  /\ y \in MemType /\ y.at = mem.at /\ y.due = Tail(mem.due) /\ y.pend = mem.pend
             /\ y.seen = mem.seen /\ y.st = mem.st /\ y.fd = mem.fd /\ y.eoff = mem.eoff
             /\ y.data = mem.data /\ y.cur = mem.cur /\ y.tell = mem.tell /\ y.r = mem.r
             /\ y.look = mem.look /\ (y.left = mem.left \/ y.left = mem.left \ {n})
             /\ y.post = mem.post /\ y.cut = mem.cut
  BY <1>4, <1>5, <1>7 DEF MemType
<1>8. ASSUME NEW y, y = m \/ y = [m EXCEPT !.left = @ \ {n}], NEW no2,
             mem.fd => DOMAIN no2 = DOMAIN notices \cup {n}
      PROVE  MemOK(job, y, turns, no2, saves, ckpt)
  <2>1. /\ y \in MemType /\ y.at = mem.at /\ y.due = Tail(mem.due) /\ y.pend = mem.pend
        /\ y.seen = mem.seen /\ y.st = mem.st /\ y.fd = mem.fd
        /\ y.data = mem.data /\ y.cur = mem.cur /\ y.tell = mem.tell /\ y.r = mem.r
        /\ y.look = mem.look /\ (y.left = mem.left \/ y.left = mem.left \ {n})
        /\ y.post = mem.post /\ y.cut = mem.cut
    BY <1>7, <1>8
  <2> QED BY <1>0, <1>1, <1>6, <1>8, <2>1, NotifyMem DEF n
<1>9. ASSUME NEW y, y = m \/ y = [m EXCEPT !.left = @ \ {n}]
      PROVE  LifeOK(job, attempt, y, over) /\ BehindOK(y, file, ckpt) /\ WritesOK(job, y, file)
  <2>1. /\ y.at = mem.at /\ y.st = mem.st /\ y.fd = mem.fd /\ y.eoff = mem.eoff
        /\ y.cur = mem.cur /\ y.tell = mem.tell /\ y.r = mem.r
        /\ y.look = mem.look /\ y.post = mem.post
    BY <1>7, <1>9
  <2>2. SpeakOK(job, mem, file) => SpeakOK(job, y, file)
    BY <2>1 DEF SpeakOK
  <2>3. DecidingOK(job, mem, file) => DecidingOK(job, y, file)
    BY <2>1 DEF DecidingOK, PostOK
  <2>4. WritesOK(job, y, file)
    BY <1>1, <2>1, <2>2, <2>3, <1>3 DEF WritesOK, NextStage
  <2> QED BY <1>1, <2>1, <2>4 DEF LifeOK, BehindOK
<1>10. CASE Again(n)
  <2>1. mem' = [m EXCEPT !.left = @ \ {n}] /\ file' = file /\ notices' = notices
    BY <1>0, <1>10 DEF Show
  <2> DEFINE y == [m EXCEPT !.left = @ \ {n}]
  <2>2. mem' = y /\ (y = m \/ y = [m EXCEPT !.left = @ \ {n}]) BY <2>1
  <2> HIDE DEF y
  <2>3. mem.fd => n \in DOMAIN notices
    <3> SUFFICES ASSUME mem.fd PROVE n \in DOMAIN notices OBVIOUS
    <3>1. mem.at \in Inside \ {"stopped", "checkpoint"}
      BY <1>3 DEF Inside, InRound, Deciding
    <3> QED BY <1>1, <1>10, <3>1 DEF Again, MemOK, ToldOK
  <2>4. y \in MemType BY <1>7, <2>2
  <2>5. MemOK(job, y, turns, notices, saves, ckpt)
    <3>1. mem.fd => DOMAIN notices = DOMAIN notices \cup {n} BY <2>3
    <3> QED BY <1>8, <2>2, <3>1
  <2>6. InvOf(job, attempt, y, file, turns, notices, ckpt, saves, over)
    BY <1>1, <1>9, <2>2, <2>4, <2>5 DEF InvOf, EngineOK
  <2> QED BY <1>0, <2>1, <2>2, <2>6 DEF IInv
<1>11. CASE ~Again(n) /\ ~mem.fd
  <2>1. mem' = m /\ file' = file /\ notices' = notices
    BY <1>0, <1>11 DEF Show
  <2>2. MemOK(job, m, turns, notices, saves, ckpt)
    BY <1>8, <1>11
  <2>3. InvOf(job, attempt, m, file, turns, notices, ckpt, saves, over)
    BY <1>1, <1>4, <1>9, <2>2 DEF InvOf, EngineOK
  <2> QED BY <1>0, <2>1, <2>3 DEF IInv
<1>12. CASE ~Again(n) /\ mem.fd
  <2> DEFINE g == IF file.here = 0 THEN file ELSE [file EXCEPT !.notes[file.here] = @ \union {n}]
  <2>1. n \notin DOMAIN notices
    <3> SUFFICES ASSUME n \in DOMAIN notices PROVE FALSE OBVIOUS
    <3>1. mem.at \in Inside \ {"stopped", "checkpoint"} /\ mem.at \in Inside
      BY <1>3 DEF Inside, InRound, Deciding
    <3>2. n \in mem.left \/ Told(n, mem)
      BY <1>1, <1>3, <1>12, <3>1 DEF MemOK, ToldOK
    <3>3. ~Told(n, mem) BY <1>3 DEF Told
    <3>4. mem.seen BY <1>1, <1>3, <3>1, <3>2, <3>3 DEF MemOK, PlaceOK
    <3> QED BY <1>12, <3>2, <3>3, <3>4 DEF Again
  <2> DEFINE N2 == [k \in DOMAIN notices \union {n} |-> IF k = n THEN 1 ELSE notices[k]]
  <2>2. mem' = m /\ file' = g /\ notices' = N2
    BY <1>0, <1>12, <2>1 DEF Show
  <2>3. /\ DOMAIN N2 = DOMAIN notices \cup {n} /\ N2 \in [DOMAIN N2 -> Nat]
        /\ N2[n] = 1 /\ \A k \in DOMAIN notices : N2[k] = notices[k]
    BY <1>6, <2>1
  <2> HIDE DEF N2
  <2>4. LedgerType(turns, N2, saves, ckpt) /\ OnceOK(N2, saves)
    BY <1>1, <1>3, <2>3 DEF LedgerType, OnceOK
  <2>5. MemOK(job, m, turns, N2, saves, ckpt)
    BY <1>8, <2>3
  <2>6. /\ g \in FileType
        /\ g.off = file.off /\ g.st = file.st /\ g.pre = file.pre /\ g.entered = file.entered
        /\ g.raws = file.raws /\ g.look = file.look /\ g.ended = file.ended
        /\ g.lost = file.lost /\ g.post = file.post /\ g.here = file.here
    <3>1. CASE file.here = 0 BY <1>1, <3>1
    <3>2. CASE file.here # 0
      <4>1. file.here \in Place BY <1>1, <3>2, EngineAssumption DEF FileType, Place
      <4> QED BY <1>1, <1>3, <3>2, <4>1 DEF FileType
    <3> QED BY <3>1, <3>2
  <2>7. file.here \in Place =>
          /\ g.notes[file.here] = file.notes[file.here] \cup {n}
          /\ \A p \in Place : p # file.here => g.notes[p] = file.notes[p]
    <3>1. 0 \notin Place BY DEF Place
    <3> QED BY <1>1, <3>1 DEF FileType
  <2> HIDE DEF g
  <2>8. RestorableOf(job, g) = RestorableOf(job, file)
    <3>1. \A r \in Round : Whole(job, g, r) <=> Whole(job, file, r)
      BY <2>6 DEF Whole
    <3> QED BY <3>1, RestorableSame
  <2>9. SpeakOK(job, m, file) => SpeakOK(job, m, g)
    BY <2>6, <2>8 DEF SpeakOK
  <2>10. DecidingOK(job, m, file) => DecidingOK(job, m, g)
    BY <2>6, <2>8 DEF DecidingOK, PostOK
  <2>11. WritesOK(job, m, g) /\ BehindOK(m, g, ckpt) /\ LifeOK(job, attempt, m, over)
    <3>1. LifeOK(job, attempt, m, over) /\ BehindOK(m, file, ckpt) /\ WritesOK(job, m, file)
      BY <1>9
    <3>2. BehindOK(m, g, ckpt)
      BY <2>6, <3>1 DEF BehindOK, InStage
    <3>3. WritesOK(job, m, g)
      BY <2>6, <2>9, <2>10, <3>1 DEF WritesOK, InStage, NextStage
    <3> QED BY <3>1, <3>2, <3>3
  <2>12. ~file.off => RestorableOf(job, file) + 1 = mem.r /\ file.here = mem.r /\ mem.r \in Place
    <3> SUFFICES ASSUME ~file.off
                 PROVE  RestorableOf(job, file) + 1 = mem.r /\ file.here = mem.r /\ mem.r \in Place
      OBVIOUS
    <3>1. ~mem.eoff /\ mem.r \in Place BY <1>1 DEF WritesOK, MemType
    <3>2. CASE mem.at \in InRound
      BY <1>1, <1>12, <3>1, <3>2 DEF WritesOK, SpeakOK
    <3>3. CASE mem.at \in Deciding
      <4>1. mem.r = Rounds + 1 BY <1>1, <3>3 DEF MemOK, PlaceOK
      <4> QED BY <1>1, <1>12, <3>1, <3>3, <4>1 DEF WritesOK, DecidingOK
    <3> QED BY <1>3, <3>2, <3>3
  <2>13. JournalOK(job, g, turns, N2, saves, ckpt)
    <3>1. RoundsOK(job, file) => RoundsOK(job, g)
      BY <2>6, <2>8 DEF RoundsOK
    <3>2. LedgerOK(file, turns, notices) => LedgerOK(g, turns, N2)
      BY <2>3, <2>6 DEF LedgerOK
    <3>3. ASSUME ~file.off, NotesOK(file, RestorableOf(job, file) + 1, notices, saves)
          PROVE  NotesOK(g, RestorableOf(job, g) + 1, N2, saves)
      <4> DEFINE k == RestorableOf(job, file) + 1
      <4>1. k = mem.r /\ file.here = k /\ k \in Place BY <2>12, <3>3
      <4> HIDE DEF k
      <4>2. NotesOK(file, k, notices, saves) BY <3>3 DEF k
      <4>3. k \in Nat BY <4>1 DEF Place
      <4>4. g.notes[k] = file.notes[k] \cup {n}
            /\ \A p \in Place : p > k => g.notes[p] = file.notes[p]
        BY <2>7, <4>1, <4>3 DEF Place
      <4>5. NotesOK(g, k, N2, saves)
        BY <1>3, <2>3, <2>6, <4>1, <4>2, <4>3, <4>4 DEF NotesOK
      <4> QED BY <2>8, <4>5 DEF k
    <3> QED BY <1>1, <2>6, <3>1, <3>2, <3>3 DEF JournalOK, InStage
  <2>14. InvOf(job, attempt, m, g, turns, N2, ckpt, saves, over)
    BY <1>4, <2>4, <2>5, <2>6, <2>11, <2>13 DEF InvOf, EngineOK
  <2> QED BY <1>0, <2>2, <2>14 DEF IInv
<1> QED BY <1>10, <1>11, <1>12

-----------------------------------------------------------------------------
(* The decision and what follows it.                                       *)

\* What is known at a place of the decision while the rows are written.
LEMMA AtTheDecision ==
    ASSUME IInv, mem.at \in Deciding \cup {"chairin", "checkpoint"}, mem.fd, ~mem.eoff
    PROVE  /\ ~file.off /\ InStage(file) /\ file.st = mem.st /\ file.st = ckpt + 1 /\ file.st > ckpt
           /\ RestorableOf(job, file) = Rounds /\ PostOK(mem, file)
           /\ mem.at \in Deciding => file.here = Rounds + 1
<1>1. mem.at # "down" /\ mem.at \in Inside
  BY DEF Deciding, Inside
<1>2. /\ MemOK(job, mem, turns, notices, saves, ckpt) /\ WritesOK(job, mem, file)
      /\ LedgerType(turns, notices, saves, ckpt)
  BY <1>1, Living
<1>3. /\ ~file.off /\ InStage(file) /\ file.st = mem.st /\ DecidingOK(job, mem, file)
  BY <1>1, <1>2 DEF WritesOK
<1>4. ckpt + 1 = mem.st /\ ckpt \in Nat
  BY <1>2 DEF MemOK, LedgerType
<1> QED BY <1>3, <1>4 DEF DecidingOK

\* The engine goes on from one place of the decision to another.
Onward(x, y) ==
    /\ y \in MemType /\ x.at \in Deciding /\ y.at \in Deciding /\ x.due = <<>>
    /\ y.pend = x.pend /\ y.seen = x.seen /\ y.st = x.st /\ y.fd = x.fd /\ y.eoff = x.eoff
    /\ y.data = x.data /\ y.cur = x.cur /\ y.tell = x.tell /\ y.r = x.r
    /\ y.look = x.look /\ y.left = x.left /\ y.post = x.post /\ y.cut = x.cut
LEMMA OnwardMem ==
    ASSUME NEW j, NEW x, NEW y, NEW tu, NEW no, NEW sa, NEW sb, NEW ck, NEW f,
           MemOK(j, x, tu, no, sa, ck), BehindOK(x, f, ck), Onward(x, y), DueOK(y),
           \A n : Told(n, x) => Told(n, y), x.fd => SavesOK(j, y, no, sb)
    PROVE  MemOK(j, y, tu, no, sb, ck) /\ BehindOK(y, f, ck) /\ y.at # "down"
<1>0. /\ x.at \in Deciding /\ y.at \in Deciding /\ x.at \in Inside /\ y.at \in Inside
      /\ x.at \notin Outside \cup InRound \cup {"head", "stopped", "checkpoint"}
      /\ y.at \notin Outside \cup InRound \cup {"head", "stopped", "checkpoint", "down"}
  BY DEF Onward, Deciding, Inside, Outside, InRound
<1>1. PlaceOK(x) /\ PlaceOK(x) => PlaceOK(y)
  BY <1>0 DEF PlaceOK, Onward
<1>2. TurnsOK(x, tu) => TurnsOK(y, tu)
  BY <1>0 DEF TurnsOK, Onward, InRound
<1>3. ToldOK(x, no) => ToldOK(y, no)
  BY <1>0 DEF ToldOK, Onward, InRound
<1>4. BehindOK(y, f, ck)
  BY <1>0 DEF BehindOK, Onward
<1> QED BY <1>0, <1>1, <1>2, <1>3, <1>4 DEF MemOK, Onward

\* ChairIn: a decision that is restored is not made again.
LEMMA ChairInStep == ASSUME IInv, ChairIn PROVE IInv'
<1> DEFINE m == [mem EXCEPT !.at = IF "decision" \in mem.post THEN "plain" ELSE "chair",
                            !.seen = mem.cut = Rounds + 1]
           f == RoundInRow(Rounds + 1)
<1>0. mem.at = "chairin" /\ mem.due = <<>> /\ Row(f, m)
      /\ UNCHANGED <<job, attempt, turns, notices, ckpt, saves, over>>
  BY DEF ChairIn, At
<1>1. /\ mem \in MemType /\ file \in FileType
      /\ JournalOK(job, file, turns, notices, saves, ckpt)
      /\ MemOK(job, mem, turns, notices, saves, ckpt)
      /\ BehindOK(mem, file, ckpt)
  BY <1>0, Living
<1>2. Rounds + 1 \in Place /\ mem.r = Rounds + 1
  BY <1>0, <1>1, EngineAssumption DEF MemOK, PlaceOK, Place
<1>3. m \in MemType
  <2>1. (IF "decision" \in mem.post THEN "plain" ELSE "chair") \in Inside BY DEF Inside, Deciding
  <2>2. (mem.cut = Rounds + 1) \in BOOLEAN OBVIOUS
  <2> QED BY <1>1, <2>1, <2>2 DEF MemType
<1>4. /\ m.at = (IF "decision" \in mem.post THEN "plain" ELSE "chair")
      /\ (m.seen <=> mem.cut = Rounds + 1) /\ m.pend = mem.pend
      /\ m.st = mem.st /\ m.fd = mem.fd /\ m.eoff = mem.eoff /\ m.data = mem.data
      /\ m.due = <<>> /\ m.cur = mem.cur /\ m.tell = mem.tell /\ m.r = mem.r
      /\ m.look = mem.look /\ m.left = mem.left /\ m.post = mem.post /\ m.cut = mem.cut
  BY <1>0, <1>1 DEF MemType
<1> HIDE DEF m
<1>5. m.at \in {"plain", "chair"} /\ m.at \in Deciding /\ m.at \in Inside /\ m.at # "down"
  BY <1>4 DEF Deciding, Inside
<1>6. MemOK(job, m, turns, notices, saves, ckpt)
  <2>1. PlaceOK(m)
    BY <1>0, <1>1, <1>2, <1>4, <1>5 DEF MemOK, PlaceOK, Outside, InRound, Inside, Deciding
  <2>2. DueOK(m) BY <1>4 DEF DueOK
  <2>3. TurnsOK(mem, turns) => TurnsOK(m, turns)
    BY <1>4, <1>5 DEF TurnsOK
  <2>4. ToldOK(mem, notices) => ToldOK(m, notices)
    BY <1>0, <1>4, <1>5 DEF ToldOK, Told, ToldAt, Inside, Deciding
  <2>5. SavesOK(job, mem, notices, saves) => SavesOK(job, m, notices, saves)
    BY <1>0, <1>4, <1>5 DEF SavesOK, Inside
  <2> QED BY <1>0, <1>1, <1>4, <1>5, <2>1, <2>2, <2>3, <2>4, <2>5 DEF MemOK, Outside, Inside
<1>7. BehindOK(m, file, ckpt)
  BY <1>1, <1>4, <1>5 DEF BehindOK
<1>8. ASSUME mem.fd, ~mem.eoff PROVE Written(job, m, f, turns, notices, saves, ckpt)
  <2>0. /\ ~file.off /\ InStage(file) /\ file.st = mem.st
        /\ RestorableOf(job, file) = Rounds /\ PostOK(mem, file)
    BY <1>0, <1>8, AtTheDecision
  <2>1. /\ f \in FileType /\ JournalOK(job, f, turns, notices, saves, ckpt) /\ f.here = Rounds + 1
        /\ RestorableOf(job, f) = RestorableOf(job, file)
        /\ f.off = file.off /\ f.st = file.st /\ f.pre = file.pre /\ f.entered = file.entered
        /\ f.raws = file.raws /\ f.look = file.look /\ f.ended = file.ended /\ f.post = file.post
    BY <1>1, <1>2, JournalHere DEF RoundInRow
  <2> HIDE DEF f
  <2>2. BehindOK(m, f, ckpt)
    BY <1>7, <2>1 DEF BehindOK, InStage
  <2>3. file.post = mem.post BY <1>0, <2>0 DEF PostOK, Behind
  <2>4. PostOK(m, f)
    <3>1. CASE "decision" \in mem.post
      BY <1>4, <2>1, <2>3, <3>1 DEF PostOK, Behind
    <3>2. CASE "decision" \notin mem.post
      BY <1>4, <2>1, <2>3, <3>2 DEF PostOK, Behind
    <3> QED BY <3>1, <3>2
  <2>5. WritesOK(job, m, f)
    BY <1>4, <1>5, <1>8, <2>0, <2>1, <2>4 DEF WritesOK, InStage, InRound, DecidingOK
  <2> QED BY <2>1, <2>2, <2>5 DEF Written
<1> HIDE DEF f
<1> QED BY <1>0, <1>3, <1>4, <1>5, <1>6, <1>7, <1>8, Moves

\* ChairAnswers: an answer that the output limit cut off is told.
LEMMA ChairAnswersStep == ASSUME IInv, ChairAnswers PROVE IInv'
<1>0. mem.at = "chair" /\ mem.due = <<>>
      /\ UNCHANGED <<job, attempt, file, turns, notices, ckpt, saves, over>>
  BY DEF ChairAnswers, At
<1>1. /\ mem \in MemType
      /\ MemOK(job, mem, turns, notices, saves, ckpt)
      /\ BehindOK(mem, file, ckpt) /\ WritesOK(job, mem, file)
  BY <1>0, Living
<1>2. PICK short \in BOOLEAN :
        mem' = [mem EXCEPT !.at = "decide", !.failed = FALSE,
                  !.due = IF short THEN <<Note(Rounds + 1, "short", {})>> ELSE <<>>]
  BY DEF ChairAnswers
<1> DEFINE d == IF short THEN <<Note(Rounds + 1, "short", {})>> ELSE <<>>
           m == [mem EXCEPT !.at = "decide", !.failed = FALSE, !.due = d]
<1>3. mem.r = Rounds + 1 /\ mem.r \in Place
  BY <1>0, <1>1 DEF MemOK, PlaceOK, Deciding, MemType
<1>4. d \in Seq(Notice) /\ (d # <<>> => d = <<Note(mem.r, "short", {})>>)
  BY <1>3, NoteIs
<1> HIDE DEF d
<1>5. m \in MemType
  BY <1>1, <1>4 DEF MemType, Inside, Deciding
<1>6. mem' = m BY <1>2 DEF d
<1>7. m.at = "decide" /\ m.due = d /\ Onward(mem, m)
  BY <1>0, <1>1, <1>5 DEF Onward, MemType, Deciding
<1> HIDE DEF m
<1>8. DueOK(m) BY <1>3, <1>4, <1>7 DEF DueOK, Due, Onward
<1>9. \A n : Told(n, mem) => Told(n, m)
  BY <1>0 DEF Told, ToldAt, Deciding
<1>10. mem.fd => SavesOK(job, m, notices, saves)
  BY <1>0, <1>1, <1>7 DEF MemOK, SavesOK, Onward, Inside, Deciding
<1>11. MemOK(job, m, turns, notices, saves, ckpt) /\ BehindOK(m, file, ckpt) /\ m.at # "down"
  BY <1>1, <1>7, <1>8, <1>9, <1>10, OnwardMem
<1>12. WritesOK(job, m, file)
  <2>1. DecidingOK(job, mem, file) => DecidingOK(job, m, file)
    BY <1>0, <1>7 DEF DecidingOK, PostOK, Behind, Onward, Deciding
  <2> QED BY <1>0, <1>1, <1>7, <2>1 DEF WritesOK, Inside, InRound, Deciding, Onward
<1> QED BY <1>0, <1>5, <1>6, <1>7, <1>11, <1>12, Thinks DEF Onward

\* ChairFails: the chair is asked again until its tries are used up.
LEMMA ChairFailsStep == ASSUME IInv, ChairFails PROVE IInv'
<1> DEFINE to == IF mem.tries + 1 < ChairTries THEN "chair" ELSE "decide"
           m == [mem EXCEPT !.tries = @ + 1, !.failed = TRUE, !.at = to]
<1>0. mem.at = "chair" /\ mem.due = <<>> /\ mem' = m
      /\ UNCHANGED <<job, attempt, file, turns, notices, ckpt, saves, over>>
  BY DEF ChairFails, At
<1>1. /\ mem \in MemType
      /\ MemOK(job, mem, turns, notices, saves, ckpt)
      /\ BehindOK(mem, file, ckpt) /\ WritesOK(job, mem, file)
  BY <1>0, Living
<1>2. to \in {"chair", "decide"} /\ to \in Inside
  BY DEF Inside, Deciding
<1> HIDE DEF to
<1>3. m \in MemType
  <2>1. mem.tries + 1 \in Nat BY <1>1 DEF MemType
  <2> QED BY <1>1, <1>2, <2>1 DEF MemType
<1>4. m.at = to /\ m.due = <<>> /\ Onward(mem, m)
  BY <1>0, <1>1, <1>2, <1>3 DEF Onward, MemType, Deciding
<1> HIDE DEF m
<1>5. DueOK(m) BY <1>4 DEF DueOK
<1>6. \A n : Told(n, mem) => Told(n, m)
  BY <1>0 DEF Told, ToldAt, Deciding
<1>7. mem.fd => SavesOK(job, m, notices, saves)
  BY <1>0, <1>1, <1>2, <1>4 DEF MemOK, SavesOK, Onward, Inside, Deciding
<1>8. MemOK(job, m, turns, notices, saves, ckpt) /\ BehindOK(m, file, ckpt) /\ m.at # "down"
  BY <1>1, <1>4, <1>5, <1>6, <1>7, OnwardMem
<1>9. WritesOK(job, m, file)
  <2>1. DecidingOK(job, mem, file) => DecidingOK(job, m, file)
    BY <1>0, <1>2, <1>4 DEF DecidingOK, PostOK, Behind, Onward, Deciding
  <2> QED BY <1>0, <1>1, <1>2, <1>4, <2>1 DEF WritesOK, Inside, InRound, Deciding, Onward
<1> QED BY <1>0, <1>3, <1>4, <1>8, <1>9, Thinks DEF Onward

\* The journal f with the steps of g after the decision.
PostAfter(f, g) ==
    /\ g \in FileType /\ f.post \subseteq g.post
    /\ g.off = f.off /\ g.st = f.st /\ g.pre = f.pre /\ g.entered = f.entered
    /\ g.raws = f.raws /\ g.look = f.look /\ g.ended = f.ended
    /\ g.lost = f.lost /\ g.here = f.here /\ g.notes = f.notes
LEMMA PostIs ==
    ASSUME NEW p \in Post, NEW b \in BOOLEAN, file \in FileType
    PROVE  /\ PostAfter(file, PostRow(p)) /\ PostRow(p).post = file.post \cup {p}
           /\ PostAfter(file, [PostRow(p) EXCEPT !.failed = b])
           /\ [PostRow(p) EXCEPT !.failed = b].post = file.post \cup {p}
           /\ PostAfter(file, file)
<1>1. PostRow(p) \in FileType
  BY DEF PostRow, FileType
<1>2. PostAfter(file, PostRow(p)) /\ PostRow(p).post = file.post \cup {p}
  BY <1>1 DEF PostAfter, PostRow, FileType
<1>3. [PostRow(p) EXCEPT !.failed = b] \in FileType
  BY <1>1 DEF FileType
<1>4. /\ PostAfter(file, [PostRow(p) EXCEPT !.failed = b])
      /\ [PostRow(p) EXCEPT !.failed = b].post = file.post \cup {p}
  BY <1>3 DEF PostAfter, PostRow, FileType
<1>5. PostAfter(file, file) BY DEF PostAfter
<1> QED BY <1>2, <1>4, <1>5

\* A step of the decision is settled, or was settled before the cut.
LEMMA PostMoves ==
    ASSUME IInv, UNCHANGED <<job, attempt, turns, notices, ckpt, saves, over>>,
           NEW f, NEW m, Row(f, m) \/ (mem' = m /\ file' = file /\ f = file),
           PostAfter(file, f), Onward(mem, m), DueOK(m),
           \A n : Told(n, mem) => Told(n, m), mem.fd => SavesOK(job, m, notices, saves),
           mem.fd /\ ~mem.eoff => PostOK(m, f)
    PROVE  IInv'
<1>0. mem.at \in Deciding /\ mem.at # "down" /\ m.at \in Deciding
  BY DEF Onward, Deciding
<1>1. /\ JournalOK(job, file, turns, notices, saves, ckpt)
      /\ MemOK(job, mem, turns, notices, saves, ckpt)
      /\ BehindOK(mem, file, ckpt)
  BY <1>0, Living
<1>2. MemOK(job, m, turns, notices, saves, ckpt) /\ BehindOK(m, file, ckpt) /\ m.at # "down"
  BY <1>1, OnwardMem
<1>3. ASSUME mem.fd, ~mem.eoff PROVE Written(job, m, f, turns, notices, saves, ckpt)
  <2>0. /\ ~file.off /\ InStage(file) /\ file.st = mem.st /\ file.here = Rounds + 1
        /\ RestorableOf(job, file) = Rounds
    BY <1>0, <1>3, AtTheDecision
  <2>1. RestorableOf(job, f) = RestorableOf(job, file)
    <3>1. \A r \in Round : Whole(job, f, r) <=> Whole(job, file, r)
      BY DEF Whole, PostAfter
    <3> QED BY <3>1, RestorableSame
  <2>2. RoundsOK(job, file) => RoundsOK(job, f)
    BY <2>0, <2>1 DEF RoundsOK, PostAfter
  <2>3. JournalOK(job, f, turns, notices, saves, ckpt)
    BY <1>1, <2>1, <2>2 DEF JournalOK, InStage, LedgerOK, NotesOK, PostAfter
  <2>4. BehindOK(m, f, ckpt)
    BY <1>2 DEF BehindOK, InStage, PostAfter
  <2>5. DecidingOK(job, m, f)
    BY <1>3, <2>0, <2>1 DEF DecidingOK, PostAfter
  <2>6. WritesOK(job, m, f)
    BY <1>0, <1>3, <2>0, <2>5
    DEF WritesOK, InStage, PostAfter, Onward, Deciding, InRound, Inside
  <2>7. f \in FileType BY DEF PostAfter
  <2> QED BY <2>3, <2>4, <2>6, <2>7 DEF Written
<1>4. m \in MemType /\ m.fd = mem.fd /\ m.eoff = mem.eoff BY DEF Onward
<1> QED BY <1>0, <1>2, <1>3, <1>4, Moves

LEMMA DecideStep == ASSUME IInv, Decide PROVE IInv'
<1> DEFINE m == [mem EXCEPT !.at = "plain"]
           f == [PostRow("decision") EXCEPT !.failed = mem.failed]
<1>0. mem.at = "decide" /\ mem.due = <<>> /\ Row(f, m)
      /\ UNCHANGED <<job, attempt, turns, notices, ckpt, saves, over>>
  BY DEF Decide, At
<1>1. /\ mem \in MemType /\ file \in FileType
      /\ MemOK(job, mem, turns, notices, saves, ckpt)
  BY <1>0, Living
<1>2. m \in MemType
  BY <1>1 DEF MemType, Inside, Deciding
<1>3. m.at = "plain" /\ m.due = <<>> /\ Onward(mem, m)
  BY <1>0, <1>1, <1>2 DEF Onward, MemType, Deciding
<1>4. PostAfter(file, f) /\ f.post = file.post \cup {"decision"}
  <2>1. mem.failed \in BOOLEAN /\ "decision" \in Post BY <1>1 DEF MemType, Post
  <2> QED BY <1>1, <2>1, PostIs
<1> HIDE DEF m, f
<1>5. DueOK(m) BY <1>3 DEF DueOK
<1>6. \A n : Told(n, mem) => Told(n, m)
  BY <1>0, <1>3 DEF Told, ToldAt, Deciding
<1>7. mem.fd => SavesOK(job, m, notices, saves)
  BY <1>0, <1>1, <1>3 DEF MemOK, SavesOK, Onward, Inside, Deciding
<1>8. ASSUME mem.fd, ~mem.eoff PROVE PostOK(m, f)
  <2>1. PostOK(mem, file) BY <1>0, <1>8, AtTheDecision DEF Deciding
  <2> QED BY <1>0, <1>3, <1>4, <2>1 DEF PostOK, Behind, Onward
<1> QED BY <1>0, <1>3, <1>4, <1>5, <1>6, <1>7, <1>8, PostMoves

\* Plain: the reader is told that a report may have been made.
LEMMA PlainStep == ASSUME IInv, Plain PROVE IInv'
<1> DEFINE maybe == "intent" \in mem.post /\ "saved" \notin mem.post /\ job.save
           d == IF maybe THEN <<Note(Rounds + 1, "maybe", {})>> ELSE <<>>
           m == [mem EXCEPT !.at = "intent", !.due = d]
           f == IF "plain" \in mem.post THEN file ELSE PostRow("plain")
<1>0. mem.at = "plain" /\ mem.due = <<>>
      /\ UNCHANGED <<job, attempt, turns, notices, ckpt, saves, over>>
      /\ (Row(f, m) \/ (mem' = m /\ file' = file /\ f = file))
  BY DEF Plain, At
<1>1. /\ mem \in MemType /\ file \in FileType
      /\ MemOK(job, mem, turns, notices, saves, ckpt)
  BY <1>0, Living
<1>2. mem.r = Rounds + 1 /\ mem.r \in Place
  BY <1>0, <1>1 DEF MemOK, PlaceOK, Deciding, MemType
<1>3. /\ d \in Seq(Notice) /\ (d # <<>> => d = <<Note(mem.r, "maybe", {})>>)
      /\ (maybe => d # <<>>) /\ \A i \in DOMAIN d : d[i].what = "maybe"
  <2> DEFINE b == Note(Rounds + 1, "maybe", {})
  <2>1. b \in Notice /\ <<b>> \in Seq(Notice) /\ b.what = "maybe" BY <1>2, NoteIs
  <2>2. d = (IF maybe THEN <<b>> ELSE <<>>) /\ b = Note(mem.r, "maybe", {}) BY <1>2
  <2> HIDE DEF b, d
  <2> QED BY <2>1, <2>2
<1> HIDE DEF d
<1>4. m \in MemType
  BY <1>1, <1>3 DEF MemType, Inside, Deciding
<1>5. m.at = "intent" /\ m.due = d /\ Onward(mem, m)
  BY <1>0, <1>1, <1>4 DEF Onward, MemType, Deciding
<1>6. PostAfter(file, f) /\ ("plain" \notin mem.post => f.post = file.post \cup {"plain"})
  BY <1>1, PostIs DEF Post
<1>7. "plain" \in mem.post => f = file OBVIOUS
<1> HIDE DEF m, f
<1>8. DueOK(m) BY <1>3, <1>5 DEF DueOK, Due, Onward
<1>9. \A n : Told(n, mem) => Told(n, m)
  BY <1>0, <1>3, <1>5 DEF Told, ToldAt, Deciding
<1>10. mem.fd => SavesOK(job, m, notices, saves)
  BY <1>0, <1>1, <1>3, <1>5 DEF MemOK, SavesOK, Onward, Inside, Deciding
<1>11. ASSUME mem.fd, ~mem.eoff PROVE PostOK(m, f)
  <2>1. PostOK(mem, file) BY <1>0, <1>11, AtTheDecision DEF Deciding
  <2>2. file.post = mem.post \cup {"decision"} BY <1>0, <2>1 DEF PostOK, Behind
  <2>3. f.post = mem.post \cup {"decision", "plain"} BY <1>6, <1>7, <2>2
  <2> QED BY <1>5, <2>3 DEF PostOK, Behind, Onward
<1> QED BY <1>0, <1>5, <1>6, <1>8, <1>9, <1>10, <1>11, PostMoves

LEMMA IntentStep == ASSUME IInv, Intent PROVE IInv'
<1> DEFINE m == [mem EXCEPT !.at = "save"]
           f == IF "intent" \in mem.post THEN file ELSE PostRow("intent")
<1>0. mem.at = "intent" /\ mem.due = <<>>
      /\ UNCHANGED <<job, attempt, turns, notices, ckpt, saves, over>>
      /\ (Row(f, m) \/ (mem' = m /\ file' = file /\ f = file))
  BY DEF Intent, At
<1>1. /\ mem \in MemType /\ file \in FileType
      /\ MemOK(job, mem, turns, notices, saves, ckpt)
  BY <1>0, Living
<1>2. m \in MemType
  BY <1>1 DEF MemType, Inside, Deciding
<1>3. m.at = "save" /\ m.due = <<>> /\ Onward(mem, m)
  BY <1>0, <1>1, <1>2 DEF Onward, MemType, Deciding
<1>4. PostAfter(file, f) /\ ("intent" \in mem.post => f = file)
      /\ ("intent" \notin mem.post => f.post = file.post \cup {"intent"})
  BY <1>1, PostIs DEF Post
<1> HIDE DEF m, f
<1>5. DueOK(m) BY <1>3 DEF DueOK
<1>6. \A n : Told(n, mem) => Told(n, m)
  BY <1>0, <1>3 DEF Told, ToldAt, Deciding
<1>7. mem.fd => SavesOK(job, m, notices, saves)
  BY <1>0, <1>1, <1>3 DEF MemOK, SavesOK, Onward, Inside, Deciding
<1>8. ASSUME mem.fd, ~mem.eoff PROVE PostOK(m, f)
  <2>1. PostOK(mem, file) BY <1>0, <1>8, AtTheDecision DEF Deciding
  <2>2. file.post = mem.post \cup {"decision", "plain"} BY <1>0, <2>1 DEF PostOK, Behind
  <2>3. f.post = mem.post \cup {"decision", "plain", "intent"} BY <1>4, <2>2
  <2> QED BY <1>3, <2>3 DEF PostOK, Behind, Onward
<1> QED BY <1>0, <1>3, <1>4, <1>5, <1>6, <1>7, <1>8, PostMoves

LEMMA SavedStep == ASSUME IInv, Saved PROVE IInv'
<1> DEFINE to == IF job.wiki THEN "wiki" ELSE "result"
           m == [mem EXCEPT !.at = to]
           f == IF "saved" \in mem.post THEN file ELSE PostRow("saved")
<1>0. mem.at = "saved" /\ mem.due = <<>>
      /\ UNCHANGED <<job, attempt, turns, notices, ckpt, saves, over>>
      /\ (Row(f, m) \/ (mem' = m /\ file' = file /\ f = file))
  BY DEF Saved, At
<1>1. /\ mem \in MemType /\ file \in FileType
      /\ MemOK(job, mem, turns, notices, saves, ckpt)
  BY <1>0, Living
<1>2. to \in {"wiki", "result"} OBVIOUS
<1> HIDE DEF to
<1>3. m \in MemType
  BY <1>1, <1>2 DEF MemType, Inside, Deciding
<1>4. m.at = to /\ m.due = <<>> /\ Onward(mem, m)
  BY <1>0, <1>1, <1>2, <1>3 DEF Onward, MemType, Deciding
<1>5. PostAfter(file, f) /\ ("saved" \in mem.post => f = file)
      /\ ("saved" \notin mem.post => f.post = file.post \cup {"saved"})
  BY <1>1, PostIs DEF Post
<1> HIDE DEF m, f
<1>6. DueOK(m) BY <1>4 DEF DueOK
<1>7. \A n : Told(n, mem) => Told(n, m)
  BY <1>0, <1>2, <1>4 DEF Told, ToldAt, Deciding
<1>8. mem.fd => SavesOK(job, m, notices, saves)
  BY <1>2, <1>4 DEF SavesOK, Onward
<1>9. ASSUME mem.fd, ~mem.eoff PROVE PostOK(m, f)
  <2>1. PostOK(mem, file) BY <1>0, <1>9, AtTheDecision DEF Deciding
  <2>2. file.post = mem.post \cup {"decision", "plain", "intent"} BY <1>0, <2>1 DEF PostOK, Behind
  <2>3. f.post = mem.post \cup Final BY <1>5, <2>2 DEF Final
  <2> QED BY <1>2, <1>4, <2>3 DEF PostOK, Behind, Onward
<1> QED BY <1>0, <1>4, <1>5, <1>6, <1>7, <1>8, <1>9, PostMoves

LEMMA WikiStep == ASSUME IInv, Wiki PROVE IInv'
<1> DEFINE m == [mem EXCEPT !.at = "result"]
           f == IF "wiki" \in mem.post THEN file ELSE PostRow("wiki")
<1>0. mem.at = "wiki" /\ mem.due = <<>>
      /\ UNCHANGED <<job, attempt, turns, notices, ckpt, saves, over>>
      /\ (Row(f, m) \/ (mem' = m /\ file' = file /\ f = file))
  BY DEF Wiki, At
<1>1. /\ mem \in MemType /\ file \in FileType
      /\ MemOK(job, mem, turns, notices, saves, ckpt)
  BY <1>0, Living
<1>2. m \in MemType
  BY <1>1 DEF MemType, Inside, Deciding
<1>3. m.at = "result" /\ m.due = <<>> /\ Onward(mem, m)
  BY <1>0, <1>1, <1>2 DEF Onward, MemType, Deciding
<1>4. PostAfter(file, f)
  BY <1>1, PostIs DEF Post
<1> HIDE DEF m, f
<1>5. DueOK(m) BY <1>3 DEF DueOK
<1>6. \A n : Told(n, mem) => Told(n, m)
  BY <1>0, <1>3 DEF Told, ToldAt, Deciding
<1>7. mem.fd => SavesOK(job, m, notices, saves)
  BY <1>3 DEF SavesOK, Onward
<1>8. ASSUME mem.fd, ~mem.eoff PROVE PostOK(m, f)
  <2>1. PostOK(mem, file) BY <1>0, <1>8, AtTheDecision DEF Deciding
  <2>2. Final \subseteq file.post BY <1>0, <2>1 DEF PostOK, Behind
  <2>3. Final \subseteq f.post BY <1>4, <2>2 DEF PostAfter
  <2> QED BY <1>3, <2>3 DEF PostOK, Behind, Onward
<1> QED BY <1>0, <1>3, <1>4, <1>5, <1>6, <1>7, <1>8, PostMoves

\* Save: a report is made after the intent to make it was written.
LEMMA SaveStep == ASSUME IInv, Save PROVE IInv'
<1> DEFINE m == [mem EXCEPT !.at = "saved"]
<1>0. mem.at = "save" /\ mem.due = <<>> /\ mem' = m
      /\ UNCHANGED <<job, attempt, file, turns, notices, ckpt, over>>
      /\ saves' = IF job.save /\ "saved" \notin mem.post /\ mem.fd THEN saves + 1 ELSE saves
  BY DEF Save, At
<1>1. /\ mem \in MemType /\ file \in FileType /\ LedgerType(turns, notices, saves, ckpt)
      /\ LifeOK(job, attempt, mem, over) /\ OnceOK(notices, saves)
      /\ JournalOK(job, file, turns, notices, saves, ckpt)
      /\ MemOK(job, mem, turns, notices, saves, ckpt)
      /\ BehindOK(mem, file, ckpt) /\ WritesOK(job, mem, file) /\ over = ""
  BY <1>0, Living
<1>2. m \in MemType
  BY <1>1 DEF MemType, Inside, Deciding
<1>3. m.at = "saved" /\ m.due = <<>> /\ Onward(mem, m)
  BY <1>0, <1>1, <1>2 DEF Onward, MemType, Deciding
<1> HIDE DEF m
<1>4. DueOK(m) BY <1>3 DEF DueOK
<1>5. \A n : Told(n, mem) => Told(n, m)
  BY <1>0, <1>3 DEF Told, ToldAt, Deciding
<1>6. SavesOK(job, m, notices, saves')
  BY <1>3 DEF SavesOK
<1>7. MemOK(job, m, turns, notices, saves', ckpt) /\ BehindOK(m, file, ckpt) /\ m.at # "down"
  BY <1>1, <1>3, <1>4, <1>5, <1>6, OnwardMem
<1>8. WritesOK(job, m, file)
  <2>1. DecidingOK(job, mem, file) => DecidingOK(job, m, file)
    BY <1>0, <1>3 DEF DecidingOK, PostOK, Behind, Onward, Deciding
  <2> QED BY <1>0, <1>1, <1>3, <2>1 DEF WritesOK, Inside, InRound, Deciding, Onward
<1>9. saves \in Nat /\ saves' \in Nat /\ LedgerType(turns, notices, saves', ckpt)
  <2>1. saves \in Nat BY <1>1 DEF LedgerType
  <2>2. saves + 1 \in Nat BY <2>1
  <2>3. saves' \in Nat BY <1>0, <2>1, <2>2
  <2> QED BY <1>1, <2>1, <2>3 DEF LedgerType
<1>10. OnceOK(notices, saves')
  <2>1. ASSUME mem.fd, job.save, "saved" \notin mem.post, saves > 0
        PROVE  Maybe \in DOMAIN notices
    BY <1>0, <1>1, <2>1 DEF MemOK, SavesOK, Inside, Deciding
  <2>2. saves > 1 => Maybe \in DOMAIN notices BY <1>1 DEF OnceOK
  <2>3. saves' > 1 => saves > 1 \/ (saves > 0 /\ mem.fd /\ job.save /\ "saved" \notin mem.post)
    <3>1. saves' = saves + 1 /\ saves' > 1 => saves > 0 BY <1>9
    <3> QED BY <1>0, <3>1
  <2> QED BY <1>1, <2>1, <2>2, <2>3 DEF OnceOK
<1>11. JournalOK(job, file, turns, notices, saves', ckpt)
  <2>1. ASSUME ~file.off, mem.fd PROVE "intent" \in file.post
    <3>1. ~mem.eoff BY <1>1, <2>1 DEF WritesOK
    <3>2. PostOK(mem, file) BY <1>0, <2>1, <3>1, AtTheDecision DEF Deciding
    <3> QED BY <1>0, <3>2 DEF PostOK, Behind
  <2>2. ~mem.fd => saves' = saves BY <1>0
  <2> QED BY <1>1, <2>1, <2>2 DEF JournalOK, NotesOK
<1>12. LifeOK(job, attempt, m, over)
  BY <1>1, <1>7 DEF LifeOK
<1>13. InvOf(job, attempt, m, file, turns, notices, ckpt, saves', over)
  BY <1>1, <1>2, <1>7, <1>8, <1>9, <1>10, <1>11, <1>12 DEF InvOf, EngineOK
<1> QED BY <1>0, <1>13 DEF IInv

-----------------------------------------------------------------------------
(* The end of a stage, and of a process.                                   *)

LEMMA EngineType ==
    ASSUME NEW st \in Nat \ {0}, NEW at \in Outside \cup {"down"}
    PROVE  /\ Engine(st, at) \in MemType
           /\ Engine(st, at).at = at /\ Engine(st, at).st = st /\ Engine(st, at).due = <<>>
           /\ Engine(st, at).r = 1 /\ Engine(st, at).cur = {} /\ Engine(st, at).tell = {}
           /\ Engine(st, at).look = 0 /\ Engine(st, at).post = {} /\ Engine(st, at).fd = TRUE
           /\ Engine(st, at).eoff = FALSE
<1>1. Nothing({}) \in [Round -> SUBSET Answers]
  BY DEF Nothing
<1>2. 1 \in Place /\ 0 \in 0..MaxAttempts /\ 0 \in 0..Rounds + 1 /\ <<>> \in Seq(Notice)
  BY EngineAssumption DEF Place
<1>3. Engine(st, at) \in MemType
  BY <1>1, <1>2 DEF Engine, MemType, Outside
<1> QED BY <1>3 DEF Engine

\* A process ends: the job is over, or it may be continued.
LEMMA ProcessEnds ==
    ASSUME IInv, mem.at # "down", mem' = Engine(mem.st, "down"),
           UNCHANGED <<job, attempt, file, turns, notices, ckpt, saves>>,
           over' # "" \/ attempt < job.lives
    PROVE  IInv'
<1>1. /\ mem \in MemType /\ file \in FileType /\ LedgerType(turns, notices, saves, ckpt)
      /\ LifeOK(job, attempt, mem, over) /\ OnceOK(notices, saves)
      /\ JournalOK(job, file, turns, notices, saves, ckpt)
  BY Living
<1>2. mem.st \in Nat \ {0} BY <1>1 DEF MemType
<1>3. mem' \in MemType /\ mem'.at = "down" BY <1>2, EngineType
<1>4. LifeOK(job, attempt, mem', over') BY <1>1, <1>3 DEF LifeOK
<1>5. InvOf(job, attempt, mem', file, turns, notices, ckpt, saves, over')
  BY <1>1, <1>3, <1>4 DEF InvOf, EngineOK
<1> QED BY <1>5 DEF IInv

LEMMA EndSteps == ASSUME IInv, Kill \/ EnterFails \/ Stopped PROVE IInv'
<1>1. CASE Kill
  BY <1>1, ProcessEnds DEF Kill, Alive
<1>2. CASE EnterFails
  BY <1>2, ProcessEnds DEF EnterFails, At
<1>3. CASE Stopped
  BY <1>3, ProcessEnds DEF Stopped, At
<1> QED BY <1>1, <1>2, <1>3

\* JournalFails: nothing more is written or shown by this process.
LEMMA JournalFailsStep == ASSUME IInv, JournalFails PROVE IInv'
<1> DEFINE m == [mem EXCEPT !.fd = FALSE]
<1>0. mem.at # "down" /\ mem' = m
      /\ UNCHANGED <<job, attempt, file, turns, notices, ckpt, saves, over>>
  BY DEF JournalFails, Alive
<1>1. /\ mem \in MemType /\ file \in FileType /\ LedgerType(turns, notices, saves, ckpt)
      /\ LifeOK(job, attempt, mem, over) /\ OnceOK(notices, saves)
      /\ JournalOK(job, file, turns, notices, saves, ckpt)
      /\ MemOK(job, mem, turns, notices, saves, ckpt) /\ WritesOK(job, mem, file)
  BY <1>0, Living
<1>2. m \in MemType
  BY <1>1 DEF MemType
<1>3. /\ m.at = mem.at /\ m.due = mem.due /\ m.pend = mem.pend /\ m.seen = mem.seen
      /\ m.fd = FALSE /\ m.eoff = mem.eoff /\ m.cur = mem.cur /\ m.tell = mem.tell /\ m.r = mem.r
      /\ m.look = mem.look /\ m.left = mem.left /\ m.post = mem.post /\ m.cut = mem.cut
  BY <1>1 DEF MemType
<1> HIDE DEF m
<1>4. PlaceOK(mem) /\ DueOK(mem) BY <1>1 DEF MemOK
<1>5. PlaceOK(m) BY <1>3, <1>4 DEF PlaceOK
<1>6. DueOK(m) BY <1>3, <1>4 DEF DueOK, Due, Gone
<1>7. MemOK(job, m, turns, notices, saves, ckpt) BY <1>3, <1>5, <1>6 DEF MemOK
<1>8. BehindOK(m, file, ckpt) /\ WritesOK(job, m, file)
  BY <1>1, <1>3 DEF BehindOK, WritesOK
<1>9. LifeOK(job, attempt, m, over) BY <1>1, <1>3 DEF LifeOK
<1>10. InvOf(job, attempt, m, file, turns, notices, ckpt, saves, over)
  BY <1>1, <1>2, <1>7, <1>8, <1>9 DEF InvOf, EngineOK
<1> QED BY <1>0, <1>10 DEF IInv

LEMMA HandOverStep == ASSUME IInv, HandOver PROVE IInv'
<1>0. mem.at = "down" /\ over' = "handed"
      /\ UNCHANGED <<job, attempt, mem, file, turns, notices, ckpt, saves>>
  BY DEF HandOver, Alive
<1>1. LifeOK(job, attempt, mem, over') BY <1>0 DEF IInv, InvOf, LifeOK
<1>2. InvOf(job, attempt, mem, file, turns, notices, ckpt, saves, over')
  BY <1>0, <1>1 DEF IInv, InvOf, EngineOK
<1> QED BY <1>0, <1>2 DEF IInv

\* Result: the last stage ends the job, another leaves a checkpoint.
LEMMA ResultStep == ASSUME IInv, Result PROVE IInv'
<1>0. mem.at = "result" /\ mem.due = <<>>
      /\ UNCHANGED <<job, attempt, file, turns, notices, ckpt, saves>>
  BY DEF Result, At
<1>1. CASE mem.failed \/ mem.st = Len(job.plan)
  BY <1>0, <1>1, ProcessEnds DEF Result
<1>2. CASE ~(mem.failed \/ mem.st = Len(job.plan))
  <2> DEFINE m == [mem EXCEPT !.at = "checkpoint", !.seen = FALSE, !.left = {}]
  <2>0. mem' = m /\ over' = over BY <1>2 DEF Result
  <2>1. /\ mem \in MemType
        /\ MemOK(job, mem, turns, notices, saves, ckpt)
        /\ BehindOK(mem, file, ckpt) /\ WritesOK(job, mem, file)
    BY <1>0, Living
  <2>2. m \in MemType
    BY <2>1 DEF MemType, Inside
  <2>3. /\ m.at = "checkpoint" /\ m.due = <<>> /\ m.left = {}
        /\ m.st = mem.st /\ m.fd = mem.fd /\ m.eoff = mem.eoff
        /\ m.data = mem.data /\ m.cur = mem.cur /\ m.r = mem.r /\ m.post = mem.post
    BY <1>0, <2>1 DEF MemType
  <2> HIDE DEF m
  <2>4. MemOK(job, m, turns, notices, saves, ckpt)
    <3>1. PlaceOK(mem) BY <2>1 DEF MemOK
    <3>2. PlaceOK(m)
      BY <1>0, <2>3, <3>1 DEF PlaceOK, Outside, InRound, Deciding
    <3>3. DueOK(m) BY <2>3 DEF DueOK
    <3>4. TurnsOK(mem, turns) => TurnsOK(m, turns) BY <2>3 DEF TurnsOK
    <3>5. ToldOK(m, notices) BY <2>3 DEF ToldOK
    <3>6. SavesOK(job, m, notices, saves) BY <2>3 DEF SavesOK
    <3> QED BY <1>0, <2>1, <2>3, <3>2, <3>3, <3>4, <3>5, <3>6
         DEF MemOK, Outside, Inside, Deciding
  <2>5. BehindOK(m, file, ckpt)
    BY <1>0, <2>1, <2>3 DEF BehindOK, Inside, Deciding
  <2>6. WritesOK(job, m, file)
    <3>1. DecidingOK(job, mem, file) => DecidingOK(job, m, file)
      BY <1>0, <2>3 DEF DecidingOK, PostOK, Deciding
    <3> QED BY <1>0, <2>1, <2>3, <3>1 DEF WritesOK, Inside, InRound, Deciding
  <2>7. m.at # "down" BY <2>3
  <2> QED BY <1>0, <2>0, <2>2, <2>3, <2>4, <2>5, <2>6, <2>7, Thinks
<1> QED BY <1>1, <1>2

\* Checkpoint: the ledger begins anew with the next stage.
LEMMA CheckpointStep == ASSUME IInv, Checkpoint PROVE IInv'
<1> DEFINE e == Engine(mem.st + 1, Begin(mem.st + 1))
           m == [e EXCEPT !.fd = mem.fd, !.eoff = mem.eoff]
<1>0. /\ mem.at = "checkpoint" /\ mem' = m /\ UNCHANGED <<job, attempt, file, over>>
      /\ mem.fd => /\ ckpt' = mem.st /\ saves' = 0 /\ turns' = Nothing(<<>>)
                   /\ notices' = [n \in {} |-> 0]
      /\ ~mem.fd => UNCHANGED <<ckpt, turns, notices, saves>>
  BY DEF Checkpoint, At
<1>1. /\ mem \in MemType /\ file \in FileType /\ LedgerType(turns, notices, saves, ckpt)
      /\ LifeOK(job, attempt, mem, over) /\ OnceOK(notices, saves)
      /\ JournalOK(job, file, turns, notices, saves, ckpt)
      /\ MemOK(job, mem, turns, notices, saves, ckpt) /\ BehindOK(mem, file, ckpt)
      /\ WritesOK(job, mem, file) /\ over = ""
  BY <1>0, Living
<1>2. Begin(mem.st + 1) \in Outside
      /\ (Begin(mem.st + 1) = "stagein" <=> HasInOf(job, mem.st + 1))
  BY HasInIs DEF Begin, Outside
<1>3. mem.st + 1 \in Nat \ {0} /\ mem.st \in Nat
  <2>1. mem.st \in Nat BY <1>1 DEF MemType
  <2>2. mem.st + 1 \in Nat /\ mem.st + 1 # 0 BY <2>1
  <2> QED BY <2>1, <2>2
<1>4. /\ e \in MemType /\ e.at = Begin(mem.st + 1) /\ e.st = mem.st + 1 /\ e.due = <<>>
      /\ e.r = 1 /\ e.cur = {} /\ e.tell = {} /\ e.look = 0 /\ e.post = {}
  <2> DEFINE st == mem.st + 1
             at == Begin(st)
  <2>1. at \in Outside \cup {"down"} /\ st \in Nat \ {0} /\ e = Engine(st, at)
    BY <1>2, <1>3
  <2> HIDE DEF st, at, e
  <2>2. /\ e \in MemType /\ e.at = at /\ e.st = st /\ e.due = <<>>
        /\ e.r = 1 /\ e.cur = {} /\ e.tell = {} /\ e.look = 0 /\ e.post = {}
    BY ONLY <2>1, EngineType, Zenon
  <2> QED BY <2>2 DEF st, at
<1> HIDE DEF e
<1>5. m \in MemType BY <1>1, <1>4 DEF MemType
<1>6. /\ m.at = Begin(mem.st + 1) /\ m.st = mem.st + 1 /\ m.due = <<>>
      /\ m.r = 1 /\ m.cur = {} /\ m.tell = {} /\ m.look = 0 /\ m.post = {}
      /\ m.fd = mem.fd /\ m.eoff = mem.eoff
  BY <1>4 DEF MemType
<1> HIDE DEF m
<1>7. /\ m.at \in Outside /\ m.at \notin Inside \cup {"down"}
      /\ m.at \notin InRound \cup Deciding \cup {"head", "chairin", "checkpoint"}
  BY <1>2, <1>6 DEF Outside, Inside, InRound, Deciding
<1>8. mem.fd => BeginsOK(turns', notices', saves')
  BY <1>0 DEF BeginsOK, Nothing
<1>9. LedgerType(turns', notices', saves', ckpt') /\ OnceOK(notices', saves')
  <2>1. CASE ~mem.fd BY <1>0, <1>1, <2>1
  <2>2. CASE mem.fd
    <3>0. <<>> \in Seq(Answers) OBVIOUS
    <3>1. turns' \in [Round -> Seq(Answers)] BY <1>0, <2>2, <3>0 DEF Nothing
    <3>2. DOMAIN notices' = {} /\ notices' \in [DOMAIN notices' -> Nat] BY <1>0, <2>2
    <3>3. ckpt' \in Nat /\ saves' = 0 BY <1>0, <1>3, <2>2
    <3>4. DOMAIN notices' \subseteq Notice BY <3>2
    <3>5. LedgerType(turns', notices', saves', ckpt')
      BY <3>1, <3>2, <3>3, <3>4 DEF LedgerType
    <3> QED BY <3>2, <3>3, <3>5 DEF OnceOK
  <2> QED BY <2>1, <2>2
<1>10. MemOK(job, m, turns', notices', saves', ckpt')
  <2>1. PlaceOK(m) BY <1>6, <1>7, FS_EmptySet DEF PlaceOK
  <2>2. DueOK(m) BY <1>6 DEF DueOK
  <2>3. ToldOK(m, notices') BY <1>7 DEF ToldOK
  <2>4. SavesOK(job, m, notices', saves') BY <1>7 DEF SavesOK
  <2> QED BY <1>0, <1>6, <1>7, <1>8, <2>1, <2>2, <2>3, <2>4 DEF MemOK
<1>11. mem.fd => ckpt + 1 = mem.st /\ ckpt \in Nat /\ file.st \in Nat
  BY <1>1 DEF MemOK, LedgerType, FileType
<1>12. mem.fd => ~(InStage(file) /\ file.st > ckpt')
  <2> SUFFICES ASSUME mem.fd, InStage(file), file.st > mem.st PROVE FALSE BY <1>0
  <2>1. file.st > ckpt BY <1>11
  <2>2. file.st = mem.st BY <1>1, <2>1 DEF BehindOK
  <2> QED BY <1>3, <2>2
<1>13. BehindOK(m, file, ckpt')
  BY <1>6, <1>12 DEF BehindOK
<1>14. WritesOK(job, m, file)
  <2>1. mem.eoff => file.off BY <1>1 DEF WritesOK
  <2>2. ASSUME mem.fd, ~mem.eoff PROVE ~file.off /\ NextStage(m, file)
    <3>1. /\ ~file.off /\ InStage(file) /\ file.st = mem.st /\ PostOK(mem, file)
      BY <1>0, <2>2, AtTheDecision
    <3>2. Final \subseteq file.post BY <1>0, <3>1 DEF PostOK
    <3> QED BY <1>3, <1>6, <3>1, <3>2 DEF NextStage
  <2> QED BY <1>2, <1>6, <1>7, <2>1, <2>2 DEF WritesOK
<1>15. JournalOK(job, file, turns', notices', saves', ckpt')
  <2>1. CASE ~mem.fd BY <1>0, <1>1, <2>1
  <2>2. CASE mem.fd
    <3>1. ASSUME ~file.off PROVE file.st >= ckpt'
      <4>1. ~mem.eoff BY <1>1, <3>1 DEF WritesOK
      <4>2. file.st = mem.st BY <1>0, <2>2, <4>1, AtTheDecision
      <4> QED BY <1>0, <1>3, <2>2, <4>2
    <3> QED BY <1>12, <2>2, <3>1 DEF JournalOK
  <2> QED BY <2>1, <2>2
<1>16. LifeOK(job, attempt, m, over)
  BY <1>1, <1>7 DEF LifeOK
<1>17. InvOf(job, attempt, m, file, turns', notices', ckpt', saves', over)
  BY <1>1, <1>5, <1>9, <1>10, <1>13, <1>14, <1>15, <1>16 DEF InvOf, EngineOK
<1> QED BY <1>0, <1>17 DEF IInv

-----------------------------------------------------------------------------
(* The journal is taken up by the next process.                            *)

LEMMA RestorableHere == RestorableOf(job, file) = Restorable(file)
BY DEF RestorableOf, Restorable, IsRestorable, Whole, RoundIsWhole

\* Carried: the rounds that can be restored, the answers and notices of the
\* one that was cut, and nothing behind it.
LEMMA CarriedIs ==
    ASSUME file \in FileType, NEW k, k = Restorable(file), NEW g, g = Carried(file)
    PROVE  /\ g \in FileType /\ k \in 0..Rounds /\ RestorableOf(job, g) = k
           /\ g.off = file.off /\ g.st = file.st /\ g.pre = file.pre /\ g.entered = file.entered
           /\ g.failed = file.failed /\ g.post = (IF k = Rounds THEN file.post ELSE {})
           /\ \A r \in Round :
                /\ r <= k + 1 => g.raws[r] = file.raws[r] /\ g.look[r] = file.look[r]
                /\ r > k + 1 => g.raws[r] = {} /\ g.look[r] = 0
                /\ g.ended[r] = (r <= k)
                /\ r <= k => g.lost[r] = file.lost[r] /\ Whole(job, file, r)
           /\ g.notes[k + 1] = file.notes[k + 1]
           /\ \A p \in Place : p > k + 1 => g.notes[p] = {}
<1>0. k \in 0..Rounds /\ IsRestorable(job, file, k) /\ Rounds \in Nat \ {0} /\ k \in Nat
      /\ k + 1 \in Place
  <2>1. k \in 0..Rounds /\ IsRestorable(job, file, k) BY RestorableIs, RestorableHere
  <2> QED BY <2>1, EngineAssumption DEF Place
<1> DEFINE raws == [r \in Round |-> IF r <= k + 1 THEN file.raws[r] ELSE {}]
           look == [r \in Round |-> IF r <= k + 1 THEN file.look[r] ELSE 0]
           ended == [r \in Round |-> r <= k]
           lost == [r \in Round |-> IF r <= k THEN file.lost[r] ELSE {}]
           post == IF k = Rounds THEN file.post ELSE {}
           notes == [r \in Place |-> IF r = k + 1 THEN file.notes[r] ELSE {}]
<1>1. /\ raws \in [Round -> SUBSET Answers] /\ look \in [Round -> 0..MaxAttempts]
      /\ ended \in [Round -> BOOLEAN] /\ lost \in [Round -> SUBSET Seats]
      /\ post \in SUBSET Post /\ notes \in [Place -> SUBSET Notice]
      /\ 0 \in 0..Rounds + 1
  <2>1. /\ file.raws \in [Round -> SUBSET Answers] /\ file.look \in [Round -> 0..MaxAttempts]
        /\ file.lost \in [Round -> SUBSET Seats] /\ file.post \in SUBSET Post
        /\ file.notes \in [Place -> SUBSET Notice]
    BY DEF FileType
  <2>2. raws \in [Round -> SUBSET Answers] BY <2>1
  <2>3. look \in [Round -> 0..MaxAttempts]
    <3>1. 0 \in 0..MaxAttempts BY EngineAssumption
    <3> QED BY <2>1, <3>1
  <2>4. lost \in [Round -> SUBSET Seats] BY <2>1
  <2>5. notes \in [Place -> SUBSET Notice] BY <2>1
  <2>6. ended \in [Round -> BOOLEAN] OBVIOUS
  <2>7. 0 \in 0..Rounds + 1 BY <1>0
  <2>8. post \in SUBSET Post BY <2>1
  <2> QED BY <2>2, <2>3, <2>4, <2>5, <2>6, <2>7, <2>8
<1>2. g = [file EXCEPT !.here = 0, !.raws = raws, !.look = look, !.ended = ended,
                       !.lost = lost, !.post = post, !.notes = notes]
  BY DEF Carried
<1> HIDE DEF raws, look, ended, lost, post, notes
<1>3. /\ g \in FileType /\ g.raws = raws /\ g.look = look /\ g.ended = ended /\ g.lost = lost
      /\ g.post = post /\ g.notes = notes
      /\ g.off = file.off /\ g.st = file.st /\ g.pre = file.pre /\ g.entered = file.entered
      /\ g.failed = file.failed
  BY <1>1, <1>2 DEF FileType
<1>4. \A r \in Round : r <= k => Whole(job, file, r)
  BY <1>0 DEF IsRestorable, Round
<1>5. \A r \in Round : /\ r <= k + 1 => g.raws[r] = file.raws[r] /\ g.look[r] = file.look[r]
                       /\ r > k + 1 => g.raws[r] = {} /\ g.look[r] = 0
                       /\ g.ended[r] = (r <= k)
                       /\ r <= k => g.lost[r] = file.lost[r]
  BY <1>0, <1>3 DEF raws, look, ended, lost, Round
<1>6. RestorableOf(job, g) = k
  <2>1. \A r \in 1..k : Whole(job, g, r)
    <3> SUFFICES ASSUME NEW r \in 1..k PROVE Whole(job, g, r) OBVIOUS
    <3>1. r \in Round /\ r <= k /\ r <= k + 1 BY <1>0 DEF Round
    <3> QED BY <1>4, <1>5, <3>1 DEF Whole
  <2>2. k < Rounds => ~Whole(job, g, k + 1)
    <3>1. k < Rounds => k + 1 \in Round /\ ~(k + 1 <= k) BY <1>0 DEF Round
    <3> QED BY <1>5, <3>1 DEF Whole
  <2> QED BY <1>0, <2>1, <2>2, RestorableUnique DEF IsRestorable
<1>7. g.notes[k + 1] = file.notes[k + 1] /\ \A p \in Place : p > k + 1 => g.notes[p] = {}
  BY <1>0, <1>3 DEF notes, Place
<1>8. g.post = (IF k = Rounds THEN file.post ELSE {}) BY <1>3 DEF post
<1> QED BY <1>0, <1>3, <1>4, <1>5, <1>6, <1>7, <1>8

\* Resume: the next process begins with the round that was cut.
LEMMA ResumeStep == ASSUME IInv, Resume PROVE IInv'
<1> DEFINE k == Restorable(file)
           f == Carried(file)
           tu == [r \in Round |-> IF r <= k THEN turns[r] ELSE <<>>]
           e == Engine(f.st, IF k < Rounds THEN "head" ELSE "chairin")
           data == [r \in Round |-> IF r <= k THEN f.raws[r] ELSE {}]
           tell == IF k < Rounds THEN f.raws[k + 1] ELSE {}
           look == IF k < Rounds THEN f.look[k + 1] ELSE 0
           m == [e EXCEPT !.r = k + 1, !.cut = k + 1, !.left = f.notes[k + 1],
                          !.data = data, !.tell = tell, !.look = look,
                          !.post = f.post, !.failed = f.failed]
<1>0. /\ mem.at = "down" /\ over = "" /\ ~Refused(file)
      /\ file' = f /\ turns' = tu /\ mem' = m /\ attempt' = attempt + 1
      /\ UNCHANGED <<job, notices, ckpt, saves, over>>
  BY DEF Resume, Alive
<1>1. /\ file \in FileType /\ LedgerType(turns, notices, saves, ckpt)
      /\ LifeOK(job, attempt, mem, over) /\ OnceOK(notices, saves)
      /\ JournalOK(job, file, turns, notices, saves, ckpt)
  BY DEF IInv, InvOf
<1>2. ~file.off /\ InStage(file) /\ file.st # ckpt
  BY <1>0 DEF Refused, InStage
<1>3. file.st \in Nat /\ ckpt \in Nat BY <1>1 DEF FileType, LedgerType
<1>4. file.st > ckpt BY <1>1, <1>2, <1>3 DEF JournalOK
<1>5. /\ file.st = ckpt + 1 /\ RoundsOK(job, file) /\ LedgerOK(file, turns, notices)
      /\ NotesOK(file, k + 1, notices, saves)
  BY <1>1, <1>2, <1>4, RestorableHere DEF JournalOK
<1>6. /\ f \in FileType /\ k \in 0..Rounds /\ RestorableOf(job, f) = k
      /\ f.off = file.off /\ f.st = file.st /\ f.pre = file.pre /\ f.entered = file.entered
      /\ f.failed = file.failed /\ f.post = (IF k = Rounds THEN file.post ELSE {})
      /\ \A r \in Round :
           /\ r <= k + 1 => f.raws[r] = file.raws[r] /\ f.look[r] = file.look[r]
           /\ r > k + 1 => f.raws[r] = {} /\ f.look[r] = 0
           /\ f.ended[r] = (r <= k)
           /\ r <= k => f.lost[r] = file.lost[r] /\ Whole(job, file, r)
      /\ f.notes[k + 1] = file.notes[k + 1]
      /\ \A p \in Place : p > k + 1 => f.notes[p] = {}
  BY <1>1, CarriedIs
<1>7. RestorableOf(job, file) = k BY RestorableHere
<1> HIDE DEF k, f
<1>8. /\ Rounds \in Nat \ {0} /\ k \in Nat /\ k <= Rounds /\ k + 1 \in Place
      /\ \A r \in Round : r \in Nat /\ r >= 1 /\ r <= Rounds
      /\ k < Rounds => k + 1 \in Round
  BY <1>6, EngineAssumption DEF Place, Round
<1>9. /\ data \in [Round -> SUBSET Answers] /\ tell \in SUBSET Answers
      /\ look \in 0..MaxAttempts /\ f.notes[k + 1] \in SUBSET Notice
      /\ f.post \in SUBSET Post /\ f.failed \in BOOLEAN /\ f.st \in Nat \ {0}
  <2>1. /\ f.raws \in [Round -> SUBSET Answers] /\ f.look \in [Round -> 0..MaxAttempts]
        /\ f.notes \in [Place -> SUBSET Notice] /\ f.post \in SUBSET Post /\ f.failed \in BOOLEAN
    BY <1>6 DEF FileType
  <2>2. data \in [Round -> SUBSET Answers] BY <2>1
  <2>3. tell \in SUBSET Answers BY <1>8, <2>1
  <2>4. look \in 0..MaxAttempts BY <1>8, <2>1, EngineAssumption
  <2>5. f.notes[k + 1] \in SUBSET Notice BY <1>8, <2>1
  <2>6. f.st \in Nat \ {0} BY <1>3, <1>5, <1>6
  <2> QED BY <2>1, <2>2, <2>3, <2>4, <2>5, <2>6
<1>10. /\ \A r \in Round : r <= k => data[r] = f.raws[r]
       /\ k < Rounds => tell = f.raws[k + 1] /\ look = f.look[k + 1]
       /\ k = Rounds => tell = {} /\ look = 0
  BY <1>8
<1> HIDE DEF data, tell, look
<1>11. k < Rounds \/ k = Rounds BY <1>8
<1>12. /\ m \in MemType /\ m.at = (IF k < Rounds THEN "head" ELSE "chairin")
       /\ m.st = f.st /\ m.r = k + 1 /\ m.cut = k + 1 /\ m.left = f.notes[k + 1]
       /\ m.data = data /\ m.tell = tell /\ m.look = look /\ m.post = f.post
       /\ m.cur = {} /\ m.due = <<>> /\ m.fd = TRUE /\ m.eoff = FALSE
  <2> DEFINE at == IF k < Rounds THEN "head" ELSE "chairin"
  <2>1. at \in Inside BY DEF Inside
  <2>2. e = Engine(f.st, at) OBVIOUS
  <2> HIDE DEF at, e
  <2>3. /\ Nothing({}) \in [Round -> SUBSET Answers] /\ 1 \in Place
        /\ 0 \in 0..MaxAttempts /\ 0 \in 0..Rounds + 1 /\ <<>> \in Seq(Notice)
        /\ k + 1 \in 0..Rounds + 1
    BY EngineAssumption, <1>8 DEF Nothing, Place
  <2>4. e \in MemType /\ e.at = at /\ e.st = f.st /\ e.cur = {} /\ e.due = <<>>
        /\ e.fd = TRUE /\ e.eoff = FALSE
    BY <1>9, <2>1, <2>2, <2>3 DEF Engine, MemType
  <2>5. /\ m \in MemType /\ m.at = at
        /\ m.st = f.st /\ m.r = k + 1 /\ m.cut = k + 1 /\ m.left = f.notes[k + 1]
        /\ m.data = data /\ m.tell = tell /\ m.look = look /\ m.post = f.post
        /\ m.cur = {} /\ m.due = <<>> /\ m.fd = TRUE /\ m.eoff = FALSE
    BY <1>8, <1>9, <2>3, <2>4 DEF MemType
  <2> QED BY <2>5 DEF at
<1>13. (m.at = "head" /\ k < Rounds) \/ (m.at = "chairin" /\ k = Rounds)
  BY <1>11, <1>12
<1>14. m.at \in Inside \ {"stopped", "checkpoint"} /\ m.at \notin Outside \cup InRound \cup Deciding
       /\ m.at # "down"
  BY <1>13 DEF Inside, Outside, InRound, Deciding
<1> HIDE DEF m
<1>15. /\ tu \in [Round -> Seq(Answers)]
       /\ \A r \in Round : /\ r <= k => tu[r] = turns[r]
                           /\ r > k => tu[r] = <<>> /\ ShownIn(tu, r) = {} /\ Len(tu[r]) = 0
                           /\ r <= k => ShownIn(tu, r) = ShownIn(turns, r)
  <2>1. turns \in [Round -> Seq(Answers)] BY <1>1 DEF LedgerType
  <2>2. tu \in [Round -> Seq(Answers)] BY <2>1
  <2>3. \A r \in Round : (r <= k => tu[r] = turns[r]) /\ (r > k => tu[r] = <<>>)
    BY <1>8
  <2> HIDE DEF tu
  <2> QED BY <2>2, <2>3 DEF ShownIn
<1> HIDE DEF tu
<1>16. LedgerType(tu, notices, saves, ckpt)
  BY <1>1, <1>15 DEF LedgerType
<1>17. LifeOK(job, attempt + 1, m, over)
  <2>1. job \in Jobs /\ attempt \in 1..job.lives /\ attempt < job.lives
    BY <1>0, <1>1 DEF LifeOK
  <2>2. job.lives \in Nat BY <2>1, EngineAssumption
  <2>3. attempt + 1 \in 1..job.lives BY <2>1, <2>2
  <2> QED BY <1>0, <1>14, <2>1, <2>3 DEF LifeOK
<1>18. \A r \in Round : r <= k =>
         /\ ShownIn(turns, r) = f.raws[r] /\ Len(turns[r]) = Cardinality(f.raws[r])
         /\ f.lost[r] # {} => Note(r, "lost", f.lost[r]) \in DOMAIN notices
         /\ Of(f.raws[r]) = Seats \ f.lost[r]
  <2> SUFFICES ASSUME NEW r \in Round, r <= k
               PROVE  /\ ShownIn(turns, r) = f.raws[r] /\ Len(turns[r]) = Cardinality(f.raws[r])
                      /\ f.lost[r] # {} => Note(r, "lost", f.lost[r]) \in DOMAIN notices
                      /\ Of(f.raws[r]) = Seats \ f.lost[r]
    OBVIOUS
  <2>1. file.ended[r] /\ f.raws[r] = file.raws[r] /\ f.lost[r] = file.lost[r]
    BY <1>6, <1>8 DEF Whole
  <2> QED BY <1>5, <2>1 DEF RoundsOK, LedgerOK
<1>19. JournalOK(job, f, tu, notices, saves, ckpt)
  <2>1. RoundsOK(job, f)
    <3>1. ASSUME NEW r \in Round, NEW b \in f.raws[r], NEW c \in f.raws[r]
          PROVE  b.g = f.look[r] /\ (b.s = c.s => b = c)
      <4>1. r <= k + 1 BY <1>6, <1>8, <3>1
      <4> QED BY <1>5, <1>6, <3>1, <4>1 DEF RoundsOK
    <3>2. f.post = {} \/ k = Rounds BY <1>6
    <3> QED BY <1>6, <1>18, <3>1, <3>2 DEF RoundsOK
  <2>2. LedgerOK(f, tu, notices)
    BY <1>6, <1>15, <1>18 DEF LedgerOK
  <2>3. NotesOK(f, k + 1, notices, saves)
    <3>1. saves > 0 => "intent" \in f.post
      BY <1>5, <1>6, <1>7 DEF NotesOK, RoundsOK
    <3> QED BY <1>5, <1>6, <3>1 DEF NotesOK
  <2> QED BY <1>5, <1>6, <2>1, <2>2, <2>3, <1>3 DEF JournalOK
<1>20. MemOK(job, m, tu, notices, saves, ckpt)
  <2>1. PlaceOK(m)
    <3>1. m.at = "head" => m.r \in Round /\ m.post = {}
      BY <1>6, <1>8, <1>12, <1>13
    <3>2. m.at = "chairin" => m.r = Rounds + 1 BY <1>12, <1>13, <1>8
    <3> QED BY <1>12, <1>13, <3>1, <3>2, FS_EmptySet
         DEF PlaceOK, Outside, InRound, Deciding
  <2>2. DueOK(m) BY <1>12 DEF DueOK
  <2>3. TurnsOK(m, tu)
    <3>1. \A r \in Round : r < m.r => m.data[r] = ShownIn(tu, r)
      BY <1>8, <1>10, <1>12, <1>15, <1>18
    <3>2. \A r \in Round : r >= m.r => tu[r] = <<>> /\ ShownIn(tu, r) = {} /\ Len(tu[r]) = 0
      BY <1>8, <1>12, <1>15
    <3>3. Cardinality(m.cur) = 0 BY <1>12, FS_EmptySet
    <3>4. \A r \in Round : r = m.r => m.cur = ShownIn(tu, r) /\ Len(tu[r]) = Cardinality(m.cur)
      BY <1>8, <1>12, <3>2, <3>3
    <3>5. \A r \in Round : r > m.r => tu[r] = <<>> BY <1>8, <1>12, <3>2
    <3> QED BY <1>13, <3>1, <3>4, <3>5 DEF TurnsOK
  <2>4. ToldOK(m, notices)
    BY <1>5, <1>6, <1>12, <1>13 DEF ToldOK, NotesOK
  <2>5. SavesOK(job, m, notices, saves)
    BY <1>12, <1>13, <1>19, <1>2, <1>4, <1>6, <1>3 DEF SavesOK, JournalOK, NotesOK, InStage
  <2> QED BY <1>5, <1>6, <1>12, <1>14, <2>1, <2>2, <2>3, <2>4, <2>5 DEF MemOK
<1>21. BehindOK(m, f, ckpt)
  <2>1. ASSUME NEW r \in Round, f.ended[r] PROVE r < m.r
    <3>1. r <= k BY <1>6, <2>1
    <3>2. r \in Nat BY <1>8
    <3> QED BY <1>8, <1>12, <3>1, <3>2
  <2> QED BY <1>12, <1>14, <2>1 DEF BehindOK
<1>22. WritesOK(job, m, f)
  <2>1. InStage(f) /\ ~f.off BY <1>2, <1>6 DEF InStage
  <2>2. m.at = "head" => SpeakOK(job, m, f)
    <3> SUFFICES ASSUME m.at = "head" PROVE SpeakOK(job, m, f) OBVIOUS
    <3>0. k + 1 \in Round /\ ~(k + 1 <= k) BY <1>8, <1>12, <1>13
    <3>1. k + 1 \in Round /\ ~f.ended[k + 1]
      BY <1>6, <3>0
    <3> QED BY <1>6, <1>10, <1>12, <1>13, <3>1 DEF SpeakOK, InRound
  <2>3. m.at = "chairin" => DecidingOK(job, m, f)
    BY <1>6, <1>12, <1>13 DEF DecidingOK, PostOK, Behind, Deciding
  <2> QED BY <1>12, <1>13, <1>14, <2>1, <2>2, <2>3 DEF WritesOK, InRound, Deciding, Inside, Outside
<1>23. InvOf(job, attempt + 1, m, f, tu, notices, ckpt, saves, over)
  BY <1>1, <1>6, <1>12, <1>16, <1>17, <1>19, <1>20, <1>21, <1>22 DEF InvOf, EngineOK
<1> QED BY <1>0, <1>23 DEF IInv

-----------------------------------------------------------------------------
(* The invariant of a job.                                                 *)

LEMMA JobLives == ASSUME NEW j \in Jobs PROVE j.lives \in Nat \ {0}
BY EngineAssumption

\* The numbers a job starts with are within their bounds.
LEMMA FirstNumbers ==
  ASSUME NEW a, NEW c, NEW s, NEW f, NEW n, a = 1, c = 0, s = 0, f = 0, n \in Nat \ {0}
  PROVE  a \in 1..n /\ ~(s > 1) /\ f >= c /\ c + 1 = a
OBVIOUS

LEMMA JobBegins == Init => IInv
<1> SUFFICES ASSUME Init PROVE IInv OBVIOUS
<1>1. job \in Jobs /\ attempt = 1 /\ ckpt = 0 /\ saves = 0 /\ over = ""
  BY Zenon DEF Init
<1>0. /\ DOMAIN notices = {} /\ notices \in [DOMAIN notices -> Nat]
      /\ file = Fresh /\ turns = [r \in Round |-> <<>>]
  BY DEF Init, Nothing
<1>2. PICK st : st = 1 /\ mem = Engine(st, Begin(st))
  BY Zenon DEF Init
<1>3. /\ mem \in MemType /\ mem.at = Begin(st) /\ mem.st = st /\ mem.due = <<>>
      /\ mem.r = 1 /\ mem.cur = {} /\ mem.tell = {} /\ mem.look = 0 /\ mem.post = {}
      /\ mem.fd = TRUE /\ mem.eoff = FALSE
      /\ Begin(st) \in Outside /\ (Begin(st) = "stagein" <=> HasInOf(job, st))
  <2>1. Begin(st) \in Outside /\ (Begin(st) = "stagein" <=> HasInOf(job, st))
    BY HasInIs DEF Begin, Outside
  <2>2. st \in Nat \ {0} /\ Begin(st) \in Outside \cup {"down"} BY <1>2, <2>1
  <2> QED BY <1>2, <2>1, <2>2, EngineType
<1>4. /\ mem.at \in Outside /\ mem.at \notin Inside \cup {"down"}
      /\ mem.at \notin InRound \cup Deciding \cup {"head", "chairin", "checkpoint"}
  BY <1>3 DEF Outside, Inside, InRound, Deciding
<1>5. file \in FileType /\ file.st = 0 /\ ~file.pre /\ ~file.off
  <2>1. /\ Nothing(0) \in [Round -> 0..MaxAttempts]
        /\ Nothing({}) \in [Round -> SUBSET Answers]
        /\ Nothing(FALSE) \in [Round -> BOOLEAN]
        /\ Nothing({}) \in [Round -> SUBSET Seats]
        /\ [p \in Place |-> {}] \in [Place -> SUBSET Notice]
    BY EngineAssumption DEF Nothing
  <2>2. 0 \in 0..Rounds + 1 /\ 0 \in Nat /\ {} \in SUBSET Post
    BY EngineAssumption
  <2>3. Fresh \in FileType BY <2>1, <2>2 DEF Fresh, FileType
  <2> QED BY <1>0, <2>3 DEF Fresh
<1>6. LedgerType(turns, notices, saves, ckpt) /\ BeginsOK(turns, notices, saves)
  <2>1. <<>> \in Seq(Answers) OBVIOUS
  <2>2. turns \in [Round -> Seq(Answers)] BY <1>0, <2>1
  <2>4. \A r \in Round : turns[r] = <<>> BY <1>0
  <2> QED BY <1>0, <1>1, <2>2, <2>4 DEF LedgerType, BeginsOK
<1>12. attempt \in 1..job.lives /\ ~(saves > 1) /\ file.st >= ckpt /\ ckpt + 1 = attempt
  <2>1. job.lives \in Nat \ {0} BY <1>1, JobLives
  <2>2. file.st = 0 BY <1>5
  <2> QED BY ONLY <1>1, <2>1, <2>2, FirstNumbers, Zenon
<1>7. LifeOK(job, attempt, mem, over) /\ OnceOK(notices, saves)
  <2>1. attempt \in 1..job.lives BY <1>12, Zenon
  <2>2. job \in Jobs /\ over = "" BY <1>1
  <2>3. ~(saves > 1) BY <1>12, Zenon
  <2>4. DOMAIN notices = {} BY <1>0
  <2> QED BY ONLY <1>4, <2>1, <2>2, <2>3, <2>4 DEF LifeOK, OnceOK
<1>8. JournalOK(job, file, turns, notices, saves, ckpt)
  <2>1. file.st >= ckpt BY <1>12, Zenon
  <2> QED BY <1>5, <2>1 DEF JournalOK, InStage
<1>9. MemOK(job, mem, turns, notices, saves, ckpt)
  <2>1. PlaceOK(mem) BY <1>3, <1>4, FS_EmptySet DEF PlaceOK
  <2>2. DueOK(mem) BY <1>3 DEF DueOK
  <2>3. ToldOK(mem, notices) BY <1>4 DEF ToldOK
  <2>4. SavesOK(job, mem, notices, saves) BY <1>4 DEF SavesOK
  <2>5. ckpt + 1 = mem.st
    <3>1. ckpt + 1 = attempt /\ attempt = st BY <1>12, <1>1, <1>2, Zenon
    <3> QED BY <3>1, <1>3, Zenon
  <2> QED BY <1>4, <1>6, <2>1, <2>2, <2>3, <2>4, <2>5 DEF MemOK
<1>10. BehindOK(mem, file, ckpt)
  BY <1>5 DEF BehindOK, InStage
<1>11. WritesOK(job, mem, file)
  BY <1>2, <1>3, <1>4, <1>5 DEF WritesOK, NextStage
<1> QED BY <1>3, <1>5, <1>6, <1>7, <1>8, <1>9, <1>10, <1>11 DEF IInv, InvOf, EngineOK

LEMMA JobStutters == ASSUME IInv, UNCHANGED vars PROVE IInv'
BY DEF IInv, vars

LEMMA JobGoesOn == ASSUME IInv, Next PROVE IInv'
<1>1. CASE StageIn BY <1>1, StageInStep
<1>2. CASE Enter BY <1>2, EnterStep
<1>3. CASE Kill \/ EnterFails \/ Stopped BY <1>3, EndSteps
<1>4. CASE RoundIn BY <1>4, RoundInStep
<1>5. CASE Notify BY <1>5, NotifyStep
<1>6. CASE Look BY <1>6, LookStep
<1>7. CASE Gather BY <1>7, GatherStep
<1>8. CASE Turn BY <1>8, TurnStep
<1>9. CASE Close BY <1>9, CloseStep
<1>10. CASE RoundEnd BY <1>10, RoundEndStep
<1>11. CASE \E s \in Seats : Answer(s) \/ Fail(s)
  BY <1>11, AnswerStep, FailStep
<1>12. CASE ChairIn BY <1>12, ChairInStep
<1>13. CASE ChairAnswers BY <1>13, ChairAnswersStep
<1>14. CASE ChairFails BY <1>14, ChairFailsStep
<1>15. CASE Decide BY <1>15, DecideStep
<1>16. CASE Plain BY <1>16, PlainStep
<1>17. CASE Intent BY <1>17, IntentStep
<1>18. CASE Save BY <1>18, SaveStep
<1>19. CASE Saved BY <1>19, SavedStep
<1>20. CASE Wiki BY <1>20, WikiStep
<1>21. CASE Result BY <1>21, ResultStep
<1>22. CASE Checkpoint BY <1>22, CheckpointStep
<1>23. CASE JournalFails BY <1>23, JournalFailsStep
<1>24. CASE Resume BY <1>24, ResumeStep
<1>25. CASE HandOver BY <1>25, HandOverStep
<1> QED BY <1>1, <1>2, <1>3, <1>4, <1>5, <1>6, <1>7, <1>8, <1>9, <1>10, <1>11, <1>12, <1>13,
           <1>14, <1>15, <1>16, <1>17, <1>18, <1>19, <1>20, <1>21, <1>22, <1>23, <1>24, <1>25
        DEF Next, Step

\* The inductive invariant of a deliberation job over all its processes: the
\* journal, the ledger and the engine's memory agree at every place, whatever
\* was killed, refused or closed before (the order of the rows, the turns and
\* the notices in deliberation.py and delib_jobs.py).
THEOREM EngineInvariant == Spec => []IInv
<1>1. Init => IInv BY JobBegins
<1>2. IInv /\ [Next]_vars => IInv' BY JobGoesOn, JobStutters
<1> QED BY <1>1, <1>2, PTL DEF Spec

-----------------------------------------------------------------------------
(* What the invariant says of rounds, notices and reports.                 *)

LEMMA RoundsFollow == IInv => RoundsWhole
<1> SUFFICES ASSUME IInv, NEW r \in Round, Current, file.st > ckpt, file.ended[r]
             PROVE  /\ Of(file.raws[r]) = Seats \ file.lost[r]
                    /\ \A a, b \in file.raws[r] : a.g = b.g /\ (a.s = b.s => a = b)
                    /\ Shown(r) = file.raws[r] /\ Len(turns[r]) = Cardinality(file.raws[r])
  BY DEF RoundsWhole
<1>1. RoundsOK(job, file) /\ LedgerOK(file, turns, notices)
  BY DEF IInv, InvOf, JournalOK, InStage, Current
<1>2. Of(file.raws[r]) = Seats \ file.lost[r]
  BY <1>1 DEF RoundsOK
<1>3. \A a, b \in file.raws[r] : a.g = b.g /\ (a.s = b.s => a = b)
  BY <1>1 DEF RoundsOK
<1>4. Shown(r) = file.raws[r] /\ Len(turns[r]) = Cardinality(file.raws[r])
  BY <1>1 DEF LedgerOK, ShownIn, Shown
<1> QED BY <1>2, <1>3, <1>4

LEMMA ChairFollows == IInv => ChairReadsTranscript
<1> SUFFICES ASSUME IInv, mem.at \in {"chairin", "chair", "decide", "plain"}, mem.fd
             PROVE  mem.data = [r \in Round |-> Shown(r)]
  BY DEF ChairReadsTranscript
<1>1. mem.at # "down" /\ mem.at \in Inside /\ mem.at \in Deciding \cup {"chairin", "checkpoint"}
  BY DEF Inside, Deciding
<1>2. mem \in MemType /\ PlaceOK(mem) /\ TurnsOK(mem, turns)
  BY <1>1, Living DEF MemOK
<1>3. mem.r = Rounds + 1 BY <1>1, <1>2 DEF PlaceOK
<1>4. \A r \in Round : r < mem.r BY <1>3, EngineAssumption DEF Round
<1>5. \A r \in Round : mem.data[r] = Shown(r)
  BY <1>2, <1>4 DEF TurnsOK, ShownIn, Shown
<1>6. mem.data \in [Round -> SUBSET Answers] BY <1>2 DEF MemType
<1> QED BY <1>5, <1>6

LEMMA NoticesFollow == IInv => NoticesOnce /\ SecondReportIsTold
<1> SUFFICES ASSUME IInv PROVE NoticesOnce /\ SecondReportIsTold OBVIOUS
<1>1. OnceOK(notices, saves) BY DEF IInv, InvOf
<1>2. ASSUME NEW r \in Round, Current, file.st > ckpt, file.ended[r], file.lost[r] # {}
      PROVE  [r |-> r, what |-> "lost", who |-> file.lost[r]] \in DOMAIN notices
  <2>1. LedgerOK(file, turns, notices)
    BY <1>2 DEF IInv, InvOf, JournalOK, InStage, Current
  <2> QED BY <1>2, <2>1 DEF LedgerOK, Note
<1> QED BY <1>1, <1>2 DEF NoticesOnce, SecondReportIsTold, OnceOK, Maybe, Note

\* A round that the journal calls ended is whole, its answers were given on one
\* lookup and are the turns of the ledger, however often the round was cut; and
\* the chair decides on the rounds that the ledger shows (e:gather, e:raw, turn
\* and e:round_end; the restored rounds of a resumed job).
THEOREM EngineRoundsAreRead == Spec => []RoundsAreRead
<1>1. IInv => RoundsAreRead BY RoundsFollow, ChairFollows DEF RoundsAreRead
<1> QED BY <1>1, EngineInvariant, PTL

\* A notice of a place is shown once over all processes of the job, the loss of
\* a seat in a round that ended has been told, and a second report of a stage
\* is made only after the reader was told that there may be two (Seen, e:note,
\* and the step "intent" before the call to the archive).
THEOREM EngineNoticesAreTold == Spec => []NoticesAreTold
<1>1. IInv => NoticesAreTold BY NoticesFollow DEF NoticesAreTold
<1> QED BY <1>1, EngineInvariant, PTL

-----------------------------------------------------------------------------
(* The journal implements DelibProgress.                                   *)

\* What DelibProgress sees of the journal f of the job j.
SaidIn(f) == IF InStage(f) THEN f.raws ELSE Nothing({})
ClosedIn(j, f) == IF InStage(f) THEN RestorableOf(j, f) ELSE 0
LostIn(j, f) ==
    IF InStage(f) THEN [r \in Round |-> IF r <= RestorableOf(j, f) THEN f.lost[r] ELSE {}]
    ELSE Nothing({})
AfterIn(f) == IF InStage(f) THEN Cardinality(f.post) ELSE 0

\* The refinement mapping of DelibEngine, before and after a step.
LEMMA ProgressIs ==
    ASSUME job' = job
    PROVE  /\ Current = InStage(file)
           /\ WhenCurrent(file.raws, Nothing({})) = SaidIn(file)
           /\ WhenCurrent(Restorable(file), 0) = ClosedIn(job, file)
           /\ WhenCurrent([r \in Round |-> IF r <= Restorable(file)
                                            THEN file.lost[r] ELSE {}], Nothing({}))
              = LostIn(job, file)
           /\ WhenCurrent(Cardinality(file.post), 0) = AfterIn(file)
           /\ Current' = InStage(file')
           /\ WhenCurrent(file.raws, Nothing({}))' = SaidIn(file')
           /\ WhenCurrent(Restorable(file), 0)' = ClosedIn(job, file')
           /\ WhenCurrent([r \in Round |-> IF r <= Restorable(file)
                                            THEN file.lost[r] ELSE {}], Nothing({}))'
              = LostIn(job, file')
           /\ WhenCurrent(Cardinality(file.post), 0)' = AfterIn(file')
<1>1. Restorable(file) = RestorableOf(job, file) BY RestorableHere
<1>2. Restorable(file)' = RestorableOf(job, file')
  BY DEF RestorableOf, Restorable, IsRestorable, Whole, RoundIsWhole
<1> QED
  BY <1>1, <1>2
  DEF WhenCurrent, Current, InStage, SaidIn, ClosedIn, LostIn, AfterIn

\* A step that shows nothing, and the five steps of DelibProgress.
SameIn(j, f, g) ==
    /\ g.st = f.st /\ InStage(g) = InStage(f)
    /\ SaidIn(g) = SaidIn(f) /\ ClosedIn(j, g) = ClosedIn(j, f)
    /\ LostIn(j, g) = LostIn(j, f) /\ AfterIn(g) = AfterIn(f)
Advances == [Progress!ProgressNext]_(Progress!pvars)
LEMMA SameProgress ==
    ASSUME job' = job, SameIn(job, file, file')
    PROVE  Advances
BY ProgressIs DEF Progress!pvars, SameIn, Advances

LEMMA EntersProgress ==
    ASSUME job' = job, file.st = 0 \/ AfterIn(file) >= 4, file'.st = file.st + 1,
           SaidIn(file') = Nothing({}), ClosedIn(job, file') = 0,
           LostIn(job, file') = Nothing({}), AfterIn(file') = 0
    PROVE  Advances
<1>1. InStage(file') \in BOOLEAN BY DEF InStage
<1>2. Progress!EnterStage
  BY <1>1, ProgressIs DEF Progress!EnterStage, Progress!Empty, Nothing, Round
<1> QED BY <1>2 DEF Progress!ProgressNext, Advances

LEMMA OpensProgress ==
    ASSUME job' = job, file.st > 0, ~InStage(file), InStage(file'), file'.st = file.st,
           SaidIn(file') = SaidIn(file), ClosedIn(job, file') = ClosedIn(job, file),
           LostIn(job, file') = LostIn(job, file), AfterIn(file') = AfterIn(file)
    PROVE  Advances
<1>1. Progress!OpenStage
  BY ProgressIs DEF Progress!OpenStage
<1> QED BY <1>1 DEF Progress!ProgressNext, Advances

LEMMA SaysProgress ==
    ASSUME job' = job, file'.st = file.st, InStage(file), InStage(file'),
           ClosedIn(job, file) < Rounds,
           NEW a \in Answers, a.s \notin Of(SaidIn(file)[ClosedIn(job, file) + 1]),
           SaidIn(file') = [SaidIn(file) EXCEPT ![ClosedIn(job, file) + 1] = @ \cup {a}],
           ClosedIn(job, file') = ClosedIn(job, file),
           LostIn(job, file') = LostIn(job, file), AfterIn(file') = AfterIn(file)
    PROVE  Advances
<1>1. Progress!Say(a)
  BY ProgressIs DEF Progress!Say, Progress!Heard, Of
<1> QED BY <1>1 DEF Progress!ProgressNext, Advances

LEMMA ClosesProgress ==
    ASSUME job' = job, file'.st = file.st, InStage(file), InStage(file'),
           ClosedIn(job, file) < Rounds, ClosedIn(job, file') = ClosedIn(job, file) + 1,
           LostIn(job, file') = [LostIn(job, file) EXCEPT ![ClosedIn(job, file) + 1] =
                                   Seats \ Of(SaidIn(file)[ClosedIn(job, file) + 1])],
           SaidIn(file') = SaidIn(file), AfterIn(file') = AfterIn(file)
    PROVE  Advances
<1>1. Progress!CloseRound
  BY ProgressIs DEF Progress!CloseRound, Progress!Heard, Of
<1> QED BY <1>1 DEF Progress!ProgressNext, Advances

LEMMA SettlesProgress ==
    ASSUME job' = job, file'.st = file.st, InStage(file') = InStage(file),
           ClosedIn(job, file) = Rounds, AfterIn(file) < 5,
           AfterIn(file') = AfterIn(file) + 1, SaidIn(file') = SaidIn(file),
           ClosedIn(job, file') = ClosedIn(job, file), LostIn(job, file') = LostIn(job, file)
    PROVE  Advances
<1>1. Progress!SettleStep
  BY ProgressIs DEF Progress!SettleStep, Progress!Steps
<1> QED BY <1>1 DEF Progress!ProgressNext, Advances

\* What a journal shows depends on its rounds and its steps.
LEMMA LooksAlike ==
    ASSUME NEW j, NEW f, NEW g, g.st = f.st, g.pre = f.pre, g.entered = f.entered,
           g.raws = f.raws, g.ended = f.ended, g.lost = f.lost
    PROVE  /\ InStage(g) = InStage(f) /\ SaidIn(g) = SaidIn(f)
           /\ ClosedIn(j, g) = ClosedIn(j, f) /\ LostIn(j, g) = LostIn(j, f)
           /\ g.post = f.post => SameIn(j, f, g)
<1>1. RestorableOf(j, g) = RestorableOf(j, f)
  <2>1. \A r \in Round : Whole(j, g, r) <=> Whole(j, f, r) BY DEF Whole
  <2> QED BY <2>1, RestorableSame
<1> QED BY <1>1 DEF InStage, SaidIn, ClosedIn, LostIn, AfterIn, SameIn

\* A row shows nothing if it is not written, or if it stops the rows.
LEMMA RowProgress ==
    ASSUME file \in FileType, job' = job, NEW f, NEW m, Row(f, m),
           mem.fd /\ ~mem.eoff /\ file' = f => Advances
    PROVE  Advances
<1>1. SameIn(job, file, file)
  BY LooksAlike
<1>2. CASE file' = file
  BY <1>1, <1>2, SameProgress
<1>3. CASE file' = [file EXCEPT !.off = TRUE]
  <2>1. /\ file'.st = file.st /\ file'.pre = file.pre /\ file'.entered = file.entered
        /\ file'.raws = file.raws /\ file'.ended = file.ended /\ file'.lost = file.lost
        /\ file'.post = file.post
    BY <1>3 DEF FileType
  <2> QED BY <2>1, LooksAlike, SameProgress
<1> QED BY <1>2, <1>3 DEF Row

\* Lookups, places and notices show nothing.
LEMMA SeenAlike ==
    ASSUME file \in FileType, job' = job,
           \/ file' = file \/ \E r \in Round : file' = GatherRow(r)
           \/ \E r \in Place : file' = RoundInRow(r)
           \/ \E N : file' = [file EXCEPT !.notes = N]
    PROVE  Advances
<1>1. /\ file'.st = file.st /\ file'.pre = file.pre /\ file'.entered = file.entered
      /\ file'.raws = file.raws /\ file'.ended = file.ended /\ file'.lost = file.lost
      /\ file'.post = file.post
  BY DEF FileType, GatherRow, RoundInRow
<1> QED BY <1>1, LooksAlike, SameProgress

\* There are five steps after the rounds, four of them before the next stage.
LEMMA StepsAreFinite ==
    /\ IsFiniteSet(Final) /\ Cardinality(Final) = 4
    /\ IsFiniteSet(Post) /\ Cardinality(Post) = 5
<1>1. IsFiniteSet(Final) /\ Cardinality(Final) = 4
  <2>1. IsFiniteSet({}) /\ Cardinality({}) = 0 BY FS_EmptySet
  <2>2. IsFiniteSet({"decision"}) /\ Cardinality({"decision"}) = 1
    BY FS_Singleton
  <2>3. IsFiniteSet({"decision", "plain"}) /\ Cardinality({"decision", "plain"}) = 2
    <3>1. {"decision", "plain"} = {"decision"} \cup {"plain"} /\ "plain" \notin {"decision"}
      OBVIOUS
    <3> QED BY <2>2, <3>1, FS_AddElement
  <2>4. IsFiniteSet({"decision", "plain", "intent"})
        /\ Cardinality({"decision", "plain", "intent"}) = 3
    <3>1. {"decision", "plain", "intent"} = {"decision", "plain"} \cup {"intent"}
          /\ "intent" \notin {"decision", "plain"}
      OBVIOUS
    <3> QED BY <2>3, <3>1, FS_AddElement
  <2>5. Final = {"decision", "plain", "intent"} \cup {"saved"}
        /\ "saved" \notin {"decision", "plain", "intent"}
    BY DEF Final
  <2> QED BY <2>4, <2>5, FS_AddElement
<1>2. IsFiniteSet(Post) /\ Cardinality(Post) = 5
  <2>1. Post = Final \cup {"wiki"} /\ "wiki" \notin Final BY DEF Post, Final
  <2> QED BY <1>1, <2>1, FS_AddElement
<1> QED BY <1>1, <1>2

\* The stage before has settled its report.
LEMMA StageIsNext ==
    ASSUME file \in FileType, NextStage(mem, file)
    PROVE  file.st = 0 \/ AfterIn(file) >= 4
<1> SUFFICES ASSUME ~(file.st = 0) PROVE AfterIn(file) >= 4 OBVIOUS
<1>1. InStage(file) /\ Final \subseteq file.post
  BY DEF NextStage, FileType
<1>2. IsFiniteSet(file.post)
  BY StepsAreFinite, FS_Subset DEF FileType
<1>3. Cardinality(file.post) >= 4
  BY <1>1, <1>2, StepsAreFinite, FS_Subset, FS_CardinalityType
<1> QED BY <1>1, <1>3 DEF AfterIn

\* A stage begins; with its row of seats it is open.
LEMMA StageProgress == ASSUME IInv, StageIn \/ Enter PROVE Advances
<1>0. /\ mem.at \in Outside /\ mem.at # "down" /\ UNCHANGED job
      /\ mem.at = "stagein" \/ mem.at = "enter"
  BY DEF StageIn, Enter, At, Outside
<1>1. /\ mem \in MemType /\ file \in FileType /\ WritesOK(job, mem, file)
      /\ mem.st \in Nat \ {0}
  BY <1>0, Living DEF MemType
<1>2. CASE StageIn
  <2>0. mem.at = "stagein" BY <1>2 DEF StageIn, At
  <2>1. ASSUME mem.fd, ~mem.eoff, file' = StageInRow(mem.st) PROVE Advances
    <3>1. NextStage(mem, file) BY <2>0, <1>1, <2>1 DEF WritesOK
    <3>2. file'.st = file.st + 1 /\ ~InStage(file')
      BY <1>1, <2>1, <3>1 DEF StageInRow, FileType, InStage, NextStage
    <3>3. /\ SaidIn(file') = Nothing({}) /\ ClosedIn(job, file') = 0
          /\ LostIn(job, file') = Nothing({}) /\ AfterIn(file') = 0
      BY <3>2 DEF SaidIn, ClosedIn, LostIn, AfterIn
    <3> QED BY <1>0, <1>1, <3>1, <3>2, <3>3, StageIsNext, EntersProgress
  <2> QED BY <1>0, <1>1, <1>2, <2>1, RowProgress DEF StageIn
<1>3. CASE Enter
  <2>0. mem.at = "enter" BY <1>3 DEF Enter, At
  <2>1. ASSUME mem.fd, ~mem.eoff, file' = PreRow(mem.st) PROVE Advances
    <3>1. /\ file'.st = mem.st /\ InStage(file') /\ file'.raws = Nothing({})
          /\ file'.ended = Nothing(FALSE) /\ file'.lost = Nothing({}) /\ file'.post = {}
      BY <2>1 DEF PreRow, Fresh, InStage
    <3>2. RestorableOf(job, file') = 0
      <4>1. 1 \in Round /\ 0 \in 0..Rounds /\ 0 + 1 = 1 BY EngineAssumption DEF Round
      <4>2. ~Whole(job, file', 1) BY <3>1, <4>1 DEF Whole, Nothing
      <4>3. IsRestorable(job, file', 0) BY <4>1, <4>2 DEF IsRestorable
      <4> QED BY <4>1, <4>3, RestorableUnique
    <3>3. /\ SaidIn(file') = Nothing({}) /\ ClosedIn(job, file') = 0
          /\ LostIn(job, file') = Nothing({}) /\ AfterIn(file') = 0
      <4>1. Cardinality({}) = 0 BY FS_EmptySet
      <4>2. \A r \in Round : Nothing({})[r] = {} BY DEF Nothing
      <4>3. [r \in Round |-> IF r <= 0 THEN file'.lost[r] ELSE {}] = Nothing({})
        BY <3>1, <4>2 DEF Nothing
      <4> QED BY <3>1, <3>2, <4>1, <4>3 DEF SaidIn, ClosedIn, LostIn, AfterIn
    <3>4. CASE HasInOf(job, mem.st)
      <4>1. file.st = mem.st /\ file.st > 0 /\ ~InStage(file)
        BY <1>1, <2>0, <2>1, <3>4 DEF WritesOK, InStage
      <4>2. /\ SaidIn(file) = Nothing({}) /\ ClosedIn(job, file) = 0
            /\ LostIn(job, file) = Nothing({}) /\ AfterIn(file) = 0
        BY <4>1 DEF SaidIn, ClosedIn, LostIn, AfterIn
      <4> QED BY <1>0, <3>1, <3>3, <4>1, <4>2, OpensProgress
    <3>5. CASE ~HasInOf(job, mem.st)
      <4>1. NextStage(mem, file) BY <1>1, <2>0, <2>1, <3>5 DEF WritesOK
      <4>2. file'.st = file.st + 1 BY <3>1, <4>1 DEF NextStage
      <4> QED BY <1>0, <1>1, <3>3, <4>1, <4>2, StageIsNext, EntersProgress
    <3> QED BY <3>4, <3>5
  <2> QED BY <1>0, <1>1, <1>3, <2>1, RowProgress DEF Enter
<1> QED BY <1>2, <1>3

\* A seat that was not heard in the round is heard.
LEMMA AnswerProgress == ASSUME IInv, NEW s \in Seats, Answer(s) PROVE Advances
<1> DEFINE a == [s |-> s, a |-> attempt, g |-> mem.look]
           c == RestorableOf(job, file)
<1>0. mem.at = "speak" /\ mem.at # "down" /\ mem.at \in InRound /\ mem.tell = {}
      /\ s \in mem.pend /\ UNCHANGED job
  BY DEF Answer, At, InRound
<1>1. /\ mem \in MemType /\ file \in FileType /\ attempt \in Attempt
      /\ MemOK(job, mem, turns, notices, saves, ckpt)
  BY <1>0, Living
<1>2. a \in Answers /\ a.s = s BY <1>1 DEF Answers, MemType
<1>3. Row(RawRow(mem.r, a), [mem EXCEPT !.pend = @ \ {s}, !.tell = {a}])
  BY DEF Answer
<1>4. c \in 0..Rounds /\ Rounds \in Nat BY RestorableIs, EngineAssumption
<1> HIDE DEF a, c
<1>5. ASSUME mem.fd, ~mem.eoff, file' = RawRow(mem.r, a) PROVE Advances
  <2>1. /\ InStage(file) /\ mem.r \in Round /\ c + 1 = mem.r /\ c # Rounds
        /\ SpeakOK(job, mem, file)
    BY <1>0, <1>5, InARound DEF c
  <2>2. ~file.ended[mem.r] /\ file.raws[mem.r] = mem.cur BY <1>0, <2>1 DEF SpeakOK
  <2>3. mem.pend \cap Of(mem.cur) = {} BY <1>0, <1>1 DEF MemOK, PlaceOK
  <2>4. a.s \notin Of(file.raws[mem.r]) BY <1>0, <1>2, <2>2, <2>3
  <2> DEFINE R == [file.raws EXCEPT ![mem.r] = IF a.s \in Of(@) THEN @ ELSE @ \cup {a}]
  <2>5. file.raws \in [Round -> SUBSET Answers] BY <1>1 DEF FileType
  <2>6. R = [file.raws EXCEPT ![mem.r] = @ \cup {a}] BY <2>1, <2>4, <2>5
  <2>7. file' = [file EXCEPT !.raws = R] BY <1>5 DEF RawRow
  <2> HIDE DEF R
  <2>8. /\ file'.st = file.st /\ file'.pre = file.pre /\ file'.entered = file.entered
        /\ file'.raws = R /\ file'.ended = file.ended /\ file'.lost = file.lost
        /\ file'.post = file.post
    BY <1>1, <2>7 DEF FileType
  <2>9. \A r \in Round : r # mem.r => R[r] = file.raws[r] BY <2>5, <2>6
  <2>10. RestorableOf(job, file') = c
    <3>1. \A r \in Round : Whole(job, file', r) <=> Whole(job, file, r)
      BY <2>2, <2>8, <2>9 DEF Whole
    <3> QED BY <3>1, RestorableSame DEF c
  <2>11. InStage(file') /\ c < Rounds BY <1>4, <2>1, <2>8 DEF InStage
  <2>12. /\ SaidIn(file) = file.raws /\ SaidIn(file') = R
         /\ ClosedIn(job, file) = c /\ ClosedIn(job, file') = c
    BY <2>1, <2>8, <2>10, <2>11 DEF SaidIn, ClosedIn, c
  <2>13. LostIn(job, file') = LostIn(job, file) /\ AfterIn(file') = AfterIn(file)
    BY <2>1, <2>8, <2>10, <2>11 DEF LostIn, AfterIn, c
  <2> QED
    BY <1>0, <1>2, <2>1, <2>4, <2>6, <2>8, <2>11, <2>12, <2>13, SaysProgress
<1> QED BY <1>0, <1>1, <1>3, <1>5, RowProgress

\* The round is closed, unless the user asked to stop after it.
LEMMA RoundEndProgress == ASSUME IInv, RoundEnd PROVE Advances
<1> DEFINE c == RestorableOf(job, file)
<1>0. mem.at = "close" /\ mem.at # "down" /\ mem.at \in InRound /\ UNCHANGED job
  BY DEF RoundEnd, At, InRound
<1>1. /\ mem \in MemType /\ file \in FileType
  BY <1>0, Living
<1>2. PICK m : Row(RoundEndRow(mem.r, Lost), m)
  BY DEF RoundEnd
<1>3. c \in 0..Rounds /\ Rounds \in Nat \ {0} BY RestorableIs, EngineAssumption
<1> HIDE DEF c
<1>4. ASSUME mem.fd, ~mem.eoff, file' = RoundEndRow(mem.r, Lost) PROVE Advances
  <2>1. /\ InStage(file) /\ mem.r \in Round /\ c + 1 = mem.r /\ c # Rounds
        /\ SpeakOK(job, mem, file) /\ RoundsOK(job, file)
    BY <1>0, <1>4, InARound DEF c
  <2>2. file.raws[mem.r] = mem.cur /\ Of(mem.cur) \subseteq Seats
    <3>1. file.raws[mem.r] = mem.cur BY <1>0, <2>1 DEF SpeakOK
    <3>2. mem.cur \subseteq Answers BY <1>1 DEF MemType
    <3> QED BY <3>1, <3>2 DEF Of, Answers
  <2>3. Lost = Seats \ Of(mem.cur) BY DEF Lost
  <2>4. /\ file'.st = file.st /\ file'.pre = file.pre /\ file'.entered = file.entered
        /\ file'.raws = file.raws /\ file'.ended = [file.ended EXCEPT ![mem.r] = TRUE]
        /\ file'.lost = [file.lost EXCEPT ![mem.r] = Seats \ Of(mem.cur)]
        /\ file'.post = file.post
    BY <1>1, <1>4, <2>3 DEF RoundEndRow, FileType
  <2>5. RestorableOf(job, file') = IF job.stop /\ mem.r = 1 THEN 0 ELSE mem.r
    BY <1>1, <2>1, <2>2, <2>4, RestorableEnd DEF c
  <2>6. InStage(file') /\ c < Rounds /\ c \in Nat /\ AfterIn(file') = AfterIn(file)
        /\ SaidIn(file') = file.raws /\ SaidIn(file) = file.raws
    BY <1>3, <2>1, <2>4 DEF InStage, AfterIn, SaidIn
  <2>7. ClosedIn(job, file) = c /\ ClosedIn(job, file') = RestorableOf(job, file')
    BY <2>1, <2>6 DEF ClosedIn, c
  <2>8. file.lost \in [Round -> SUBSET Seats] BY <1>1 DEF FileType
  <2> DEFINE L(f, k) == [r \in Round |-> IF r <= k THEN f.lost[r] ELSE {}]
  <2>9. LostIn(job, file) = L(file, c) /\ LostIn(job, file') = L(file', RestorableOf(job, file'))
    BY <2>1, <2>6 DEF LostIn, c
  <2>10. CASE job.stop /\ mem.r = 1
    <3>1. RestorableOf(job, file') = c BY <1>3, <2>1, <2>5, <2>10
    <3>2. \A r \in Round : r <= c => file'.lost[r] = file.lost[r]
      <4>1. \A r \in Round : ~(r <= c) BY <1>3, <2>1, <2>10 DEF Round
      <4> QED BY <4>1
    <3>3. L(file', c) = L(file, c) BY <3>2
    <3>4. SameIn(job, file, file')
      BY <2>1, <2>4, <2>6, <2>7, <2>9, <3>1, <3>3 DEF SameIn
    <3> QED BY <1>0, <3>4, SameProgress
  <2>11. CASE ~(job.stop /\ mem.r = 1)
    <3>1. RestorableOf(job, file') = c + 1 BY <2>1, <2>5, <2>11
    <3>2. file'.lost[c + 1] = Seats \ Of(file.raws[c + 1])
          /\ \A r \in Round : r # c + 1 => file'.lost[r] = file.lost[r]
      BY <2>1, <2>2, <2>4, <2>8
    <3>3. \A r \in Round : r <= c + 1 <=> r <= c \/ r = c + 1 BY <1>3 DEF Round
    <3>4. L(file', c + 1) = [L(file, c) EXCEPT ![c + 1] = Seats \ Of(file.raws[c + 1])]
      <4>1. c + 1 \in Round /\ ~(c + 1 <= c) BY <1>3, <2>1
      <4>2. \A r \in Round : (IF r <= c + 1 THEN file'.lost[r] ELSE {}) =
              IF r = c + 1 THEN Seats \ Of(file.raws[c + 1])
              ELSE IF r <= c THEN file.lost[r] ELSE {}
        BY <3>2, <3>3
      <4> QED BY <4>1, <4>2
    <3> QED
      BY <1>0, <2>1, <2>4, <2>6, <2>7, <2>9, <3>1, <3>4, ClosesProgress
  <2> QED BY <2>10, <2>11
<1> QED BY <1>0, <1>1, <1>2, <1>4, RowProgress

\* A step of the decision is settled that was not.
LEMMA PostProgress ==
    ASSUME IInv, job' = job, NEW p \in Post, NEW b, NEW f, NEW m, Row(f, m),
           f = PostRow(p) \/ f = [PostRow(p) EXCEPT !.failed = b],
           mem.at \in Deciding, PostOK(mem, file) => p \notin file.post
    PROVE  Advances
<1>0. mem.at # "down" BY DEF Deciding
<1>1. file \in FileType BY <1>0, Living
<1>2. ASSUME mem.fd, ~mem.eoff, file' = f PROVE Advances
  <2>1. InStage(file) /\ RestorableOf(job, file) = Rounds /\ p \notin file.post
    BY <1>2, AtTheDecision
  <2>2. /\ file'.st = file.st /\ file'.pre = file.pre /\ file'.entered = file.entered
        /\ file'.raws = file.raws /\ file'.ended = file.ended /\ file'.lost = file.lost
        /\ file'.post = file.post \cup {p}
    BY <1>1, <1>2 DEF PostRow, FileType
  <2>3. /\ InStage(file') = InStage(file) /\ SaidIn(file') = SaidIn(file)
        /\ ClosedIn(job, file') = ClosedIn(job, file) /\ LostIn(job, file') = LostIn(job, file)
    BY <2>2, LooksAlike
  <2>4. /\ file.post \in SUBSET Post /\ file.post \cup {p} \in SUBSET Post
        /\ file.post \cup {p} # file.post
    BY <1>1, <2>1 DEF FileType
  <2>5. IsFiniteSet(file.post) /\ Cardinality(file.post) \in Nat
    BY <2>4, StepsAreFinite, FS_Subset, FS_CardinalityType
  <2>6. Cardinality(file.post \cup {p}) = Cardinality(file.post) + 1
    BY <2>1, <2>5, FS_AddElement
  <2>7. Cardinality(file.post \cup {p}) <= 5
    BY <2>4, StepsAreFinite, FS_Subset
  <2>8. /\ AfterIn(file) = Cardinality(file.post) /\ AfterIn(file) < 5
        /\ AfterIn(file') = AfterIn(file) + 1 /\ ClosedIn(job, file) = Rounds
    BY <2>1, <2>2, <2>3, <2>5, <2>6, <2>7 DEF AfterIn, ClosedIn
  <2> QED BY <2>2, <2>3, <2>8, SettlesProgress
<1> QED BY <1>1, <1>2, RowProgress

LEMMA DecisionProgress ==
    ASSUME IInv, Decide \/ Plain \/ Intent \/ Saved \/ Wiki PROVE Advances
<1>0. job' = job /\ mem.at \in Deciding /\ mem.at # "down"
  BY DEF Decide, Plain, Intent, Saved, Wiki, At, Deciding
<1>1. file \in FileType BY <1>0, Living
<1>2. file' = file => Advances BY <1>0, <1>1, SeenAlike
<1>3. CASE Decide
  <2>1. PICK m : Row([PostRow("decision") EXCEPT !.failed = mem.failed], m) BY <1>3 DEF Decide
  <2>2. PostOK(mem, file) => "decision" \notin file.post BY <1>3 DEF Decide, At, PostOK
  <2>3. "decision" \in Post BY DEF Post
  <2> QED BY <1>0, <2>1, <2>2, <2>3, PostProgress
<1>4. CASE Plain
  <2>1. CASE "plain" \in mem.post BY <1>2, <1>4, <2>1 DEF Plain
  <2>2. CASE "plain" \notin mem.post
    <3>1. PICK m : Row(PostRow("plain"), m) BY <1>4, <2>2 DEF Plain
    <3>2. PostOK(mem, file) => "plain" \notin file.post
      BY <1>4, <2>2 DEF Plain, At, PostOK, Behind
    <3>3. "plain" \in Post BY DEF Post
    <3> QED BY <1>0, <3>1, <3>2, <3>3, PostProgress
  <2> QED BY <2>1, <2>2
<1>5. CASE Intent
  <2>1. CASE "intent" \in mem.post BY <1>2, <1>5, <2>1 DEF Intent
  <2>2. CASE "intent" \notin mem.post
    <3>1. PICK m : Row(PostRow("intent"), m) BY <1>5, <2>2 DEF Intent
    <3>2. PostOK(mem, file) => "intent" \notin file.post
      BY <1>5, <2>2 DEF Intent, At, PostOK, Behind
    <3>3. "intent" \in Post BY DEF Post
    <3> QED BY <1>0, <3>1, <3>2, <3>3, PostProgress
  <2> QED BY <2>1, <2>2
<1>6. CASE Saved
  <2>1. CASE "saved" \in mem.post BY <1>2, <1>6, <2>1 DEF Saved
  <2>2. CASE "saved" \notin mem.post
    <3>1. PICK m : Row(PostRow("saved"), m) BY <1>6, <2>2 DEF Saved
    <3>2. PostOK(mem, file) => "saved" \notin file.post
      BY <1>6, <2>2 DEF Saved, At, PostOK, Behind
    <3>3. "saved" \in Post BY DEF Post
    <3> QED BY <1>0, <3>1, <3>2, <3>3, PostProgress
  <2> QED BY <2>1, <2>2
<1>7. CASE Wiki
  <2>1. CASE "wiki" \in mem.post BY <1>2, <1>7, <2>1 DEF Wiki
  <2>2. CASE "wiki" \notin mem.post
    <3>1. PICK m : Row(PostRow("wiki"), m) BY <1>7, <2>2 DEF Wiki
    <3>2. PostOK(mem, file) => "wiki" \notin file.post
      BY <1>7, <2>2 DEF Wiki, At, PostOK, Behind, Final
    <3>3. "wiki" \in Post BY DEF Post
    <3> QED BY <1>0, <3>1, <3>2, <3>3, PostProgress
  <2> QED BY <2>1, <2>2
<1> QED BY <1>3, <1>4, <1>5, <1>6, <1>7

\* Resume: the journal that is carried over shows what the journal showed.
LEMMA ResumeProgress == ASSUME IInv, Resume PROVE Advances
<1> DEFINE k == Restorable(file)
           g == Carried(file)
<1>0. file' = g /\ job' = job /\ ~Refused(file) BY DEF Resume
<1>1. /\ file \in FileType /\ JournalOK(job, file, turns, notices, saves, ckpt) /\ ckpt \in Nat
  BY DEF IInv, InvOf, LedgerType
<1>2. InStage(file) /\ ~file.off /\ file.st # ckpt
  BY <1>0 DEF Refused, InStage
<1>3. file.st > ckpt
  <2>1. file.st >= ckpt /\ file.st \in Nat BY <1>1, <1>2 DEF JournalOK, FileType
  <2> QED BY <1>1, <1>2, <2>1
<1>4. RoundsOK(job, file) BY <1>1, <1>2, <1>3 DEF JournalOK
<1>5. k = RestorableOf(job, file) BY RestorableHere
<1> HIDE DEF k, g
<1>6. /\ g \in FileType /\ k \in 0..Rounds /\ RestorableOf(job, g) = k
      /\ g.st = file.st /\ g.pre = file.pre /\ g.entered = file.entered
      /\ g.post = (IF k = Rounds THEN file.post ELSE {})
      /\ \A r \in Round :
           /\ r <= k + 1 => g.raws[r] = file.raws[r]
           /\ r > k + 1 => g.raws[r] = {}
           /\ r <= k => g.lost[r] = file.lost[r]
  BY <1>1, CarriedIs DEF k, g
<1>7. g.raws = file.raws
  <2>1. g.raws \in [Round -> SUBSET Answers] /\ file.raws \in [Round -> SUBSET Answers]
    BY <1>1, <1>6 DEF FileType
  <2>2. \A r \in Round : r <= k + 1 \/ r > k + 1 BY <1>6, EngineAssumption DEF Round
  <2>3. \A r \in Round : g.raws[r] = file.raws[r]
    BY <1>4, <1>5, <1>6, <2>2 DEF RoundsOK
  <2> QED BY <2>1, <2>3
<1>8. g.post = file.post BY <1>4, <1>5, <1>6 DEF RoundsOK
<1>9. [r \in Round |-> IF r <= k THEN g.lost[r] ELSE {}]
      = [r \in Round |-> IF r <= k THEN file.lost[r] ELSE {}]
  BY <1>6
<1>10. SameIn(job, file, g)
  BY <1>5, <1>6, <1>7, <1>8, <1>9
  DEF SameIn, InStage, SaidIn, ClosedIn, LostIn, AfterIn
<1> QED BY <1>0, <1>10, SameProgress

\* A place is entered, a lookup is over, a notice is shown.
LEMMA PlaceProgress ==
    ASSUME IInv, RoundIn \/ Gather \/ ChairIn \/ Notify PROVE Advances
<1>0. job' = job /\ mem.at # "down"
  BY DEF RoundIn, Gather, ChairIn, Notify, At, Alive
<1>1. /\ file \in FileType /\ mem \in MemType /\ MemOK(job, mem, turns, notices, saves, ckpt)
  BY <1>0, Living
<1>2. CASE RoundIn \/ Gather
  <2>1. mem.r \in Round /\ mem.r \in Place
    BY <1>1, <1>2, EngineAssumption
    DEF RoundIn, Gather, At, MemOK, PlaceOK, InRound, MemType
  <2>2. PICK f, m : Row(f, m) /\ (f = RoundInRow(mem.r) \/ f = GatherRow(mem.r))
    BY <1>2 DEF RoundIn, Gather
  <2>3. file' = f => Advances BY <1>0, <1>1, <2>1, <2>2, SeenAlike
  <2> QED BY <1>0, <1>1, <2>2, <2>3, RowProgress
<1>3. CASE ChairIn
  <2>1. PICK m : Row(RoundInRow(Rounds + 1), m) BY <1>3 DEF ChairIn
  <2>2. Rounds + 1 \in Place BY EngineAssumption DEF Place
  <2>3. file' = RoundInRow(Rounds + 1) => Advances BY <1>0, <1>1, <2>2, SeenAlike
  <2> QED BY <1>0, <1>1, <2>1, <2>3, RowProgress
<1>4. CASE Notify
  <2>1. file' = file \/ \E N : file' = [file EXCEPT !.notes = N]
    BY <1>4 DEF Notify, Show
  <2> QED BY <1>0, <1>1, <2>1, SeenAlike
<1> QED BY <1>2, <1>3, <1>4

\* Every step of the job is a step of DelibProgress, or shows nothing.
LEMMA ProgressStep == ASSUME IInv, [Next]_vars PROVE Advances
<1>1. file \in FileType BY DEF IInv, InvOf
<1>2. CASE UNCHANGED <<job, file>>
  BY <1>1, <1>2, SeenAlike
<1>3. CASE StageIn \/ Enter BY <1>3, StageProgress
<1>4. CASE RoundIn \/ Gather \/ ChairIn \/ Notify BY <1>4, PlaceProgress
<1>5. CASE \E s \in Seats : Answer(s) BY <1>5, AnswerProgress
<1>6. CASE RoundEnd BY <1>6, RoundEndProgress
<1>7. CASE Decide \/ Plain \/ Intent \/ Saved \/ Wiki BY <1>7, DecisionProgress
<1>8. CASE Resume BY <1>8, ResumeProgress
<1>9. CASE \/ Kill \/ EnterFails \/ Stopped \/ Look \/ Turn \/ Close \/ ChairAnswers
           \/ ChairFails \/ Save \/ Result \/ Checkpoint \/ JournalFails \/ HandOver
           \/ \E s \in Seats : Fail(s)
  BY <1>2, <1>9
  DEF Kill, EnterFails, Stopped, Look, Turn, Close, ChairAnswers, ChairFails, Save,
      Result, Checkpoint, JournalFails, HandOver, Fail
<1>10. CASE UNCHANGED vars BY <1>2, <1>10 DEF vars
<1> QED BY <1>3, <1>4, <1>5, <1>6, <1>7, <1>8, <1>9, <1>10 DEF Next, Step

LEMMA ProgressBegins == Init => Progress!ProgressInit
<1> SUFFICES ASSUME Init PROVE Progress!ProgressInit OBVIOUS
<1>1. file.st = 0 /\ ~Current BY DEF Init, Fresh, Current
<1>2. /\ WhenCurrent(file.raws, Nothing({})) = Nothing({})
      /\ WhenCurrent(Restorable(file), 0) = 0
      /\ WhenCurrent([r \in Round |-> IF r <= Restorable(file)
                                       THEN file.lost[r] ELSE {}], Nothing({})) = Nothing({})
      /\ WhenCurrent(Cardinality(file.post), 0) = 0
  BY <1>1 DEF WhenCurrent
<1> QED BY <1>1, <1>2 DEF Progress!ProgressInit, Progress!Empty, Nothing, Round, Current

\* The progress a user can be shown is never taken back and never repeated: seen
\* through the journal, a job that is killed, refused by its disk and resumed
\* anywhere takes the steps of a deliberation that is never cut (the rows that
\* deliberation.py writes, parse of delib_resume.py, _reopen of delib_jobs.py).
THEOREM EngineProgress == Spec => IsProgress
<1>1. Init => Progress!ProgressInit BY ProgressBegins
<1>2. IInv /\ [Next]_vars => [Progress!ProgressNext]_(Progress!pvars)
  BY ProgressStep DEF Advances
<1> QED BY <1>1, <1>2, EngineInvariant, PTL DEF Spec, IsProgress, Progress!ProgressSpec

-----------------------------------------------------------------------------
(* The board of the questions an engine asks: its inductive invariant.     *)

Piece == Nat \X Nat
TaskType ==
    [st : {"none", "waiting", "claimed", "answered", "absent", "late"},
     claims : 0..2, unclaimed : 0..WaitS, left : 0..AnswerS, buf : Seq(Piece),
     age : 0..(Worst + 1), quiet : BOOLEAN]
OwnerType == [alive : 0..WaitS, absent : 0..WaitS]
BoardType(b) ==
    /\ b = [task |-> b.task, line |-> b.line, owner |-> b.owner]
    /\ b.task \in [Tasks -> TaskType] /\ b.owner \in [Owners -> OwnerType]

\* The pieces 1, 2, ... of the claim c.
OfClaim(buf, c) == \A k \in DOMAIN buf : buf[k] = <<c, k>>

\* The time that c claims may have taken, the waiting before them included.
Spent(c) == IF c = 0 THEN 0 ELSE IF c = 1 THEN WaitS + AnswerS ELSE Worst

\* A task by itself: its buffer is one claim's, and while it is alone its age
\* is accounted for by its claims and by the time left to it.
OneClaims(r) ==
    /\ r.st = "claimed" => OfClaim(r.buf, r.claims) /\ Len(r.buf) <= Pieces
    /\ r.st = "answered" => OfClaim(r.buf, r.claims) /\ Len(r.buf) = Pieces
InTime(r) ==
    /\ r.st = "waiting" => r.claims # 2 /\ (r.quiet => r.age <= Spent(r.claims) + r.unclaimed)
    /\ r.st = "claimed" => r.claims # 0 /\ (r.quiet => r.age + r.left <= Spent(r.claims))
TaskOK(r) == r \in TaskType /\ OneClaims(r) /\ InTime(r)

\* A quiet task is its owner's only one.
Alone(b) ==
    \A t, u \in Tasks : b.task[t].st \in Open /\ b.task[t].quiet /\ b.task[u].st \in Open
                        /\ OwnerOf[u] = OwnerOf[t] => u = t

\* Who stands judged absent was not seen, and holds nothing.
Judged(b) ==
    \A o \in Owners : Standing(b, o) =>
        b.owner[o].alive = WaitS /\ Mine(b, o, {"claimed"}) = {}

\* The owner of a quiet task that waits was not seen since it waits.
Unseen(b, t) ==
    b.task[t].st = "waiting" /\ b.task[t].quiet =>
        b.task[t].unclaimed <= b.owner[OwnerOf[t]].alive

\* After a sweep a quiet task has time left.
TimeLeft(r) ==
    r.quiet => (r.st = "waiting" => r.unclaimed # WaitS) /\ (r.st = "claimed" => r.left # 0)

BoardOK(b) ==
    /\ BoardType(b) /\ \A t \in Tasks : TaskOK(b.task[t])
    /\ Alone(b) /\ Judged(b)

BoardInv ==
    /\ BoardOK(board) /\ \A t \in Tasks : Unseen(board, t)
    /\ due \in BOOLEAN /\ (~due => \A t \in Tasks : TimeLeft(board.task[t]))

-----------------------------------------------------------------------------
(* One task.                                                               *)

LEMMA Bounds ==
    /\ WaitS \in Nat /\ AnswerS \in Nat /\ Pieces \in Nat /\ Worst \in Nat
           /\ WaitS > 0 /\ AnswerS > 0 /\ Pieces > 0 /\ Worst = 2 * WaitS + 2 * AnswerS
BY BoardAssumption DEF Worst

LEMMA Fields ==
    ASSUME NEW r \in TaskType
    PROVE  /\ r.st \in {"none", "waiting", "claimed", "answered", "absent", "late"}
           /\ r.claims \in 0..2 /\ r.unclaimed \in 0..WaitS /\ r.left \in 0..AnswerS
           /\ r.buf \in Seq(Piece) /\ r.age \in 0..(Worst + 1) /\ r.quiet \in BOOLEAN
           /\ r.age \in Nat /\ r.claims \in Nat /\ Len(r.buf) \in Nat
           /\ DOMAIN r.buf = 1..Len(r.buf)
           /\ r = [st |-> r.st, claims |-> r.claims, unclaimed |-> r.unclaimed, left |-> r.left,
                   buf |-> r.buf, age |-> r.age, quiet |-> r.quiet]
<1>1. /\ r.st \in {"none", "waiting", "claimed", "answered", "absent", "late"}
      /\ r.claims \in 0..2 /\ r.unclaimed \in 0..WaitS /\ r.left \in 0..AnswerS
      /\ r.buf \in Seq(Piece) /\ r.age \in 0..(Worst + 1) /\ r.quiet \in BOOLEAN
      /\ r = [st |-> r.st, claims |-> r.claims, unclaimed |-> r.unclaimed, left |-> r.left,
              buf |-> r.buf, age |-> r.age, quiet |-> r.quiet]
  BY DEF TaskType
<1>2. r.age \in Nat /\ r.claims \in Nat BY <1>1, Bounds
<1>3. Len(r.buf) \in Nat /\ DOMAIN r.buf = 1..Len(r.buf) BY <1>1, LenProperties
<1> QED BY <1>1, <1>2, <1>3

\* A task that ends without an answer.
LEMMA EndedOK ==
    ASSUME NEW r \in TaskType, NEW st \in {"none", "absent", "late"}
    PROVE  LET x == [r EXCEPT !.st = st] IN TaskOK(x) /\ x.st = st
<1> DEFINE x == [r EXCEPT !.st = st]
<1>1. x \in TaskType /\ x.st = st BY DEF TaskType
<1> HIDE DEF x
<1>2. TaskOK(x) BY <1>1 DEF TaskOK, OneClaims, InTime
<1> QED BY <1>1, <1>2 DEF x

\* A claim that is over goes back to the line.
BackOf(r) == [r EXCEPT !.st = "waiting", !.unclaimed = 0, !.buf = <<>>]

LEMMA BackOK ==
    ASSUME NEW r, TaskOK(r), r.st = "claimed", r.left = 0, ~(r.claims >= 2)
    PROVE  LET x == BackOf(r) IN
           TaskOK(x) /\ x.st = "waiting" /\ x.unclaimed = 0 /\ x.quiet = r.quiet
<1> DEFINE x == BackOf(r)
<1>1. r \in TaskType BY DEF TaskOK
<1>2. <<>> \in Seq(Piece) /\ 0 \in 0..WaitS BY Bounds
<1>3. /\ x \in TaskType /\ x.st = "waiting" /\ x.unclaimed = 0 /\ x.quiet = r.quiet
      /\ x.claims = r.claims /\ x.age = r.age
  BY <1>1, <1>2 DEF TaskType, BackOf
<1> HIDE DEF x
<1>4. r.claims # 2 /\ r.age \in Nat /\ r.left \in Nat BY <1>1, Fields
<1>5. r.quiet => r.age + r.left <= Spent(r.claims) BY DEF TaskOK, InTime
<1>6. Spent(r.claims) \in Nat BY Bounds DEF Spent
<1>7. r.quiet => r.age <= Spent(r.claims) + 0 BY <1>4, <1>5, <1>6
<1>8. TaskOK(x) BY <1>3, <1>4, <1>7 DEF TaskOK, OneClaims, InTime
<1> QED BY <1>3, <1>8 DEF x

\* A claim: the waiting is accounted for by it, and so is the time it gives.
ClaimOf(r) == [r EXCEPT !.st = "claimed", !.claims = @ + 1, !.left = AnswerS, !.buf = <<>>]

LEMMA ClaimOK ==
    ASSUME NEW r, TaskOK(r), r.st = "waiting"
    PROVE  LET x == ClaimOf(r) IN
           TaskOK(x) /\ x.st = "claimed" /\ x.left # 0 /\ x.quiet = r.quiet
<1> DEFINE x == ClaimOf(r)
           c == r.claims + 1
<1>1. r \in TaskType BY DEF TaskOK
<1>2. r.claims \in {0, 1} /\ r.age \in Nat /\ r.unclaimed \in 0..WaitS
  BY <1>1, Fields DEF TaskOK, InTime
<1>3. c \in 1..2 /\ c \in 0..2 /\ c # 0 BY <1>2
<1>4. <<>> \in Seq(Piece) /\ AnswerS \in 0..AnswerS /\ AnswerS # 0 BY Bounds
<1>5. x = [r EXCEPT !.st = "claimed", !.claims = c, !.left = AnswerS, !.buf = <<>>]
  BY DEF ClaimOf
<1>6. r.quiet => r.age <= Spent(r.claims) + r.unclaimed BY DEF TaskOK, InTime
<1>7. r.quiet => r.age + AnswerS <= Spent(c) BY <1>2, <1>6, Bounds DEF Spent
<1> HIDE DEF x, c
<1>8. /\ x \in TaskType /\ x.st = "claimed" /\ x.left = AnswerS /\ x.quiet = r.quiet
      /\ x.claims = c /\ x.age = r.age /\ x.buf = <<>>
  BY <1>1, <1>3, <1>4, <1>5 DEF TaskType
<1>9. OfClaim(x.buf, x.claims) /\ Len(x.buf) <= Pieces
  <2>1. DOMAIN <<>> = {} /\ Len(<<>>) = 0 OBVIOUS
  <2> QED BY <1>8, <2>1, Bounds DEF OfClaim
<1>10. TaskOK(x) BY <1>3, <1>7, <1>8, <1>9 DEF TaskOK, OneClaims, InTime
<1> QED BY <1>4, <1>8, <1>10 DEF x

\* A task that is not alone any more.
LEMMA DisturbedOK ==
    ASSUME NEW r, TaskOK(r)
    PROVE  LET x == [r EXCEPT !.quiet = FALSE] IN TaskOK(x) /\ x.st = r.st /\ x.quiet = FALSE
<1> DEFINE x == [r EXCEPT !.quiet = FALSE]
<1>1. r \in TaskType BY DEF TaskOK
<1>2. /\ x \in TaskType /\ x.st = r.st /\ x.quiet = FALSE /\ x.claims = r.claims /\ x.buf = r.buf
  BY <1>1 DEF TaskType
<1> HIDE DEF x
<1>3. TaskOK(x) BY <1>2 DEF TaskOK, OneClaims, InTime
<1> QED BY <1>2, <1>3 DEF x

\* One poll later, while there was time left.
LEMMA OlderOK ==
    ASSUME NEW r, TaskOK(r), r.st \in Open, TimeLeft(r)
    PROVE  LET x == Older(r) IN
           /\ TaskOK(x) /\ x.st = r.st /\ x.quiet = r.quiet
           /\ x.unclaimed = Min2(r.unclaimed + 1, WaitS)
<1> DEFINE x == Older(r)
           n == Min2(r.unclaimed + 1, WaitS)
           g == Min2(r.age + 1, Worst + 1)
           l == IF r.left > 0 THEN r.left - 1 ELSE 0
<1>1. r \in TaskType BY DEF TaskOK
<1>2. r.claims \in 0..2 /\ r.age \in 0..(Worst + 1) /\ r.unclaimed \in 0..WaitS /\ r.left \in 0..AnswerS
  BY <1>1, Fields
<1>3. x = [r EXCEPT !.unclaimed = n, !.age = g, !.left = l] BY DEF Older
<1>4. n \in 0..WaitS /\ g \in 0..(Worst + 1) /\ l \in 0..AnswerS
  BY <1>2, Bounds DEF Min2
<1>5. g <= r.age + 1 /\ g \in Nat /\ r.age \in Nat BY <1>2, Bounds DEF Min2
<1>6. r.unclaimed # WaitS => n = r.unclaimed + 1 BY <1>2, Bounds DEF Min2
<1>7. r.left # 0 => l = r.left - 1 BY <1>2, Bounds
<1>8. Spent(r.claims) \in Nat BY Bounds DEF Spent
<1> HIDE DEF n, g, l, x
<1>9. /\ x \in TaskType /\ x.st = r.st /\ x.quiet = r.quiet /\ x.unclaimed = n /\ x.age = g
      /\ x.left = l /\ x.claims = r.claims /\ x.buf = r.buf
  BY <1>1, <1>3, <1>4 DEF TaskType
<1>10. r.st = "waiting" /\ r.quiet => g <= Spent(r.claims) + n
  <2>1. r.st = "waiting" /\ r.quiet => r.unclaimed # WaitS /\ r.age <= Spent(r.claims) + r.unclaimed
    BY DEF TimeLeft, TaskOK, InTime
  <2> QED BY <1>2, <1>5, <1>6, <1>8, <2>1
<1>11. r.st = "claimed" /\ r.quiet => g + l <= Spent(r.claims)
  <2>1. r.st = "claimed" /\ r.quiet => r.left # 0 /\ r.age + r.left <= Spent(r.claims)
    BY DEF TimeLeft, TaskOK, InTime
  <2> QED BY <1>2, <1>5, <1>7, <1>8, <2>1
<1>12. TaskOK(x) BY <1>9, <1>10, <1>11 DEF TaskOK, OneClaims, InTime
<1> QED BY <1>9, <1>12 DEF x, n

LEMMA Appended ==
    ASSUME NEW S, NEW q \in Seq(S), NEW v \in S
    PROVE  /\ Append(q, v) \in Seq(S) /\ Len(Append(q, v)) = Len(q) + 1
           /\ DOMAIN Append(q, v) = 1..Len(q) + 1
           /\ \A i \in 1..Len(q) : Append(q, v)[i] = q[i]
           /\ Append(q, v)[Len(q) + 1] = v
BY AppendProperties, LenProperties

\* A piece that is placed is the next of this claim, or begins it again.
LEMMA PlacedOK ==
    ASSUME NEW c \in Nat, NEW buf \in Seq(Piece), OfClaim(buf, c),
           Len(buf) <= Pieces, NEW k \in 1..Pieces
    PROVE  LET z == Placed(buf, k, <<c, k>>) IN
           /\ z \in Seq(Piece) /\ OfClaim(z, c) /\ Len(z) <= Pieces
           /\ z # buf => Len(z) = k
<1> DEFINE z == Placed(buf, k, <<c, k>>)
<1>1. <<c, k>> \in Piece /\ k \in Nat /\ Len(buf) \in Nat /\ DOMAIN buf = 1..Len(buf)
  BY Bounds, LenProperties DEF Piece
<1>2. CASE k = 1
  <2>1. z = << <<c, 1>> >> BY <1>2 DEF Placed
  <2>2. Len(z) = 1 /\ DOMAIN z = 1..1 /\ z[1] = <<c, 1>> BY <2>1
  <2>3. z \in Seq(Piece)
    <3> DEFINE p == <<c, 1>>
    <3>1. p \in Piece /\ z = <<p>> BY <1>1, <1>2, <2>1
    <3> HIDE DEF p, z
    <3> QED BY <3>1
  <2>4. OfClaim(z, c) BY <2>2 DEF OfClaim
  <2>5. Len(z) <= Pieces
    <3>1. 1 <= Pieces BY Bounds
    <3> QED BY <2>2, <3>1
  <2> QED BY <1>2, <2>2, <2>3, <2>4, <2>5
<1>3. CASE k > 1 /\ Len(buf) = k - 1
  <2>1. z = Append(buf, <<c, k>>) BY <1>1, <1>3 DEF Placed
  <2>2. /\ z \in Seq(Piece) /\ Len(z) = k /\ DOMAIN z = 1..k /\ z[k] = <<c, k>>
        /\ \A i \in 1..Len(buf) : z[i] = buf[i]
    <3>1. Len(buf) + 1 = k BY <1>1, <1>3
    <3> DEFINE p == <<c, k>>
    <3>2. p \in Piece /\ z = Append(buf, p) BY <1>1, <2>1
    <3> HIDE DEF p, z
    <3>3. /\ z \in Seq(Piece) /\ Len(z) = Len(buf) + 1 /\ z[Len(buf) + 1] = p
          /\ DOMAIN z = 1..Len(buf) + 1 /\ \A i \in 1..Len(buf) : z[i] = buf[i]
      BY <3>2, Appended
    <3> QED BY <3>1, <3>3 DEF p
  <2>3. OfClaim(z, c)
    <3>1. \A i \in 1..k : i \in 1..Len(buf) \/ i = k BY <1>1, <1>3
    <3> QED BY <1>1, <2>2, <3>1 DEF OfClaim
  <2>4. Len(z) <= Pieces BY <2>2, Bounds
  <2> QED BY <2>2, <2>3, <2>4
<1>4. CASE k # 1 /\ Len(buf) # k - 1
  <2>1. z = buf BY <1>1, <1>4 DEF Placed
  <2> QED BY <2>1
<1> QED BY <1>1, <1>2, <1>3, <1>4

\* A claimed task with a new buffer, and one that is answered.
LEMMA GotOK ==
    ASSUME NEW r, TaskOK(r), r.st = "claimed", NEW z \in Seq(Piece),
           OfClaim(z, r.claims), Len(z) <= Pieces
    PROVE  LET x == [r EXCEPT !.buf = z]
               y == [x EXCEPT !.st = "answered"]
           IN  /\ TaskOK(x) /\ x.st = "claimed" /\ x.quiet = r.quiet /\ x.left = r.left
               /\ Len(z) = Pieces => TaskOK(y) /\ y.st = "answered"
<1> DEFINE x == [r EXCEPT !.buf = z]
           y == [x EXCEPT !.st = "answered"]
<1>1. r \in TaskType BY DEF TaskOK
<1>2. /\ x \in TaskType /\ x.st = "claimed" /\ x.quiet = r.quiet /\ x.left = r.left
      /\ x.claims = r.claims /\ x.age = r.age /\ x.buf = z
  BY <1>1 DEF TaskType
<1> HIDE DEF x
<1>3. TaskOK(x) BY <1>2 DEF TaskOK, OneClaims, InTime
<1>4. y \in TaskType /\ y.st = "answered" /\ y.buf = z /\ y.claims = r.claims
  BY <1>2 DEF TaskType
<1> HIDE DEF y
<1>5. Len(z) = Pieces => TaskOK(y) BY <1>4 DEF TaskOK, OneClaims, InTime
<1> QED BY <1>2, <1>3, <1>4, <1>5 DEF x, y

-----------------------------------------------------------------------------
(* The sweep.                                                              *)

LEMMA CloseIs ==
    ASSUME NEW b, BoardType(b), NEW S, NEW st
    PROVE  LET c == CloseTasks(b, S, st) IN
           /\ c = [task |-> c.task, line |-> c.line, owner |-> c.owner] /\ c.owner = b.owner
           /\ c.task = [t \in Tasks |-> IF t \in S THEN [b.task[t] EXCEPT !.st = st] ELSE b.task[t]]
<1> DEFINE F == [t \in Tasks |-> IF t \in S THEN [b.task[t] EXCEPT !.st = st] ELSE b.task[t]]
           L == SelectSeq(b.line, LAMBDA t : t \notin S)
<1>1. b = [task |-> b.task, line |-> b.line, owner |-> b.owner] BY DEF BoardType
<1>2. CloseTasks(b, S, st) = [b EXCEPT !.task = F, !.line = L] BY DEF CloseTasks
<1> HIDE DEF F, L
<1>3. CloseTasks(b, S, st) = [task |-> F, line |-> L, owner |-> b.owner] BY <1>1, <1>2
<1> QED BY <1>3 DEF F

\* What a task is in the board c was it, or more, in the board b.
Shrinks(b, c) ==
    \A t \in Tasks : /\ c.task[t].st \in Open => b.task[t].st \in Open /\ (c.task[t].quiet => b.task[t].quiet)
                     /\ c.task[t].st = "claimed" => b.task[t].st = "claimed"

LEMMA StillAlone ==
    ASSUME NEW b, NEW c, Alone(b), Shrinks(b, c) PROVE Alone(c)
BY DEF Alone, Shrinks

LEMMA FewerClaims ==
    ASSUME NEW b, NEW c, Shrinks(b, c), NEW o, Mine(b, o, {"claimed"}) = {}
    PROVE  Mine(c, o, {"claimed"}) = {}
BY DEF Mine, Shrinks

\* Who holds a task was seen.
Seen(b) == \A t \in Tasks : b.task[t].st = "claimed" => b.owner[OwnerOf[t]].alive = 0

LEMMA BusyOK ==
    ASSUME NEW b, BoardOK(b)
    PROVE  LET c == Busy(b) IN
           /\ BoardOK(c) /\ Seen(c) /\ c.task = b.task
           /\ \A o \in Owners : c.owner[o].absent = b.owner[o].absent
                                /\ c.owner[o].alive \in {0, b.owner[o].alive}
           /\ \A t \in Tasks : Unseen(b, t) => Unseen(c, t)
<1> DEFINE W == [o \in Owners |-> IF Mine(b, o, {"claimed"}) # {}
                                  THEN [b.owner[o] EXCEPT !.alive = 0] ELSE b.owner[o]]
           c == Busy(b)
<1>1. b = [task |-> b.task, line |-> b.line, owner |-> b.owner]
      /\ b.task \in [Tasks -> TaskType] /\ b.owner \in [Owners -> OwnerType]
      /\ (\A t \in Tasks : TaskOK(b.task[t])) /\ Alone(b) /\ Judged(b)
  BY DEF BoardOK, BoardType
<1>2. c = [b EXCEPT !.owner = W] BY DEF Busy
<1>3. 0 \in 0..WaitS BY Bounds
<1>4. \A o \in Owners : [b.owner[o] EXCEPT !.alive = 0] \in OwnerType
                        /\ [b.owner[o] EXCEPT !.alive = 0].alive = 0
                        /\ [b.owner[o] EXCEPT !.alive = 0].absent = b.owner[o].absent
  BY <1>1, <1>3 DEF OwnerType
<1>5. /\ W \in [Owners -> OwnerType]
      /\ \A o \in Owners : W[o].absent = b.owner[o].absent
                           /\ (Mine(b, o, {"claimed"}) # {} => W[o].alive = 0)
                           /\ (Mine(b, o, {"claimed"}) = {} => W[o] = b.owner[o])
  BY <1>1, <1>4
<1> HIDE DEF W
<1>6. c = [task |-> b.task, line |-> b.line, owner |-> W] BY <1>1, <1>2
<1> HIDE DEF c
<1>7. c.task = b.task /\ c.owner = W BY <1>6
<1>8. BoardType(c) BY <1>1, <1>5, <1>6 DEF BoardType
<1>9. Judged(c)
  <2>1. \A o : Mine(c, o, {"claimed"}) = Mine(b, o, {"claimed"}) BY <1>7 DEF Mine
  <2>2. \A o \in Owners : Standing(c, o) = Standing(b, o) BY <1>5, <1>7 DEF Standing
  <2> QED BY <1>1, <1>5, <1>7, <2>1, <2>2 DEF Judged
<1>10. BoardOK(c) BY <1>1, <1>7, <1>8, <1>9 DEF BoardOK, Alone
<1>11. \A t \in Tasks : OwnerOf[t] \in Owners BY DEF Owners
<1>12. Seen(c)
  <2> SUFFICES ASSUME NEW t \in Tasks, c.task[t].st = "claimed"
               PROVE  c.owner[OwnerOf[t]].alive = 0
    BY DEF Seen
  <2>1. t \in Mine(b, OwnerOf[t], {"claimed"}) BY <1>7 DEF Mine
  <2> QED BY <1>5, <1>7, <1>11, <2>1
<1>13. ASSUME NEW t \in Tasks, Unseen(b, t) PROVE Unseen(c, t)
  <2> SUFFICES ASSUME b.task[t].st = "waiting", b.task[t].quiet
               PROVE  c.owner[OwnerOf[t]] = b.owner[OwnerOf[t]]
    BY <1>7, <1>13 DEF Unseen
  <2>1. Mine(b, OwnerOf[t], {"claimed"}) = {}
    BY <1>1 DEF Alone, Mine, Open
  <2> QED BY <1>5, <1>7, <1>11, <2>1
<1> QED BY <1>5, <1>7, <1>10, <1>12, <1>13 DEF c

LEMMA DeadlinesOK ==
    ASSUME NEW b, BoardOK(b), Seen(b)
    PROVE  LET c == Deadlines(b) IN
           /\ BoardOK(c) /\ Seen(c) /\ c.owner = b.owner /\ Shrinks(b, c)
           /\ \A t \in Tasks :
                /\ b.task[t].st # "claimed" => c.task[t] = b.task[t]
                /\ c.task[t].st = "claimed" => c.task[t] = b.task[t] /\ c.task[t].left # 0
                /\ c.task[t].st # "absent" \/ b.task[t].st = "absent"
                /\ Unseen(b, t) => Unseen(c, t)
                /\ TimeLeft(b.task[t]) => TimeLeft(c.task[t])
<1> DEFINE lapsed == {t \in Tasks : b.task[t].st = "claimed" /\ b.task[t].left = 0}
           lost == {t \in lapsed : b.task[t].claims >= 2}
           F == [t \in Tasks |-> IF t \in lapsed \ lost THEN BackOf(b.task[t]) ELSE b.task[t]]
           d == [b EXCEPT !.task = F]
           c == Deadlines(b)
<1>1. b = [task |-> b.task, line |-> b.line, owner |-> b.owner]
      /\ b.task \in [Tasks -> TaskType] /\ b.owner \in [Owners -> OwnerType]
      /\ (\A t \in Tasks : TaskOK(b.task[t])) /\ Alone(b) /\ Judged(b)
  BY DEF BoardOK, BoardType
<1>2. c = CloseTasks(d, lost, "late") BY DEF Deadlines, BackOf
<1>3. \A t \in lapsed \ lost : /\ TaskOK(BackOf(b.task[t])) /\ BackOf(b.task[t]).st = "waiting"
                             /\ BackOf(b.task[t]).unclaimed = 0
                             /\ BackOf(b.task[t]).quiet = b.task[t].quiet
  BY <1>1, BackOK
<1>4. F \in [Tasks -> TaskType] BY <1>1, <1>3 DEF TaskOK
<1>5. d = [task |-> F, line |-> b.line, owner |-> b.owner] BY <1>1
<1> HIDE DEF d
<1>6. BoardType(d) /\ d.task = F /\ d.owner = b.owner BY <1>1, <1>4, <1>5 DEF BoardType
<1> HIDE DEF F, lost
<1>7. /\ c = [task |-> c.task, line |-> c.line, owner |-> c.owner] /\ c.owner = b.owner
      /\ c.task = [t \in Tasks |-> IF t \in lost THEN [F[t] EXCEPT !.st = "late"] ELSE F[t]]
  BY <1>2, <1>6, CloseIs
<1> HIDE DEF c
<1>8. \A t \in Tasks : F[t] = IF t \in lapsed \ lost THEN BackOf(b.task[t]) ELSE b.task[t]
  BY DEF F
<1>9. \A t \in Tasks :
        \/ t \notin lapsed /\ c.task[t] = b.task[t]
        \/ t \in lapsed /\ c.task[t] = BackOf(b.task[t]) /\ t \notin lost
        \/ t \in lapsed /\ c.task[t] = [b.task[t] EXCEPT !.st = "late"]
  <2>1. lost \subseteq lapsed BY DEF lost
  <2> QED BY <1>7, <1>8, <2>1
<1>10. \A t \in Tasks : TaskOK([b.task[t] EXCEPT !.st = "late"])
                        /\ [b.task[t] EXCEPT !.st = "late"].st = "late"
  BY <1>1, EndedOK
<1>11. \A t \in Tasks :
        \/ t \notin lapsed /\ c.task[t] = b.task[t]
        \/ /\ t \in lapsed /\ TaskOK(c.task[t]) /\ c.task[t].st = "waiting"
           /\ c.task[t].unclaimed = 0 /\ c.task[t].quiet = b.task[t].quiet
        \/ t \in lapsed /\ TaskOK(c.task[t]) /\ c.task[t].st = "late"
  <2> HIDE DEF lapsed
  <2> SUFFICES ASSUME NEW t \in Tasks
               PROVE  \/ t \notin lapsed /\ c.task[t] = b.task[t]
                      \/ /\ t \in lapsed /\ TaskOK(c.task[t]) /\ c.task[t].st = "waiting"
                         /\ c.task[t].unclaimed = 0 /\ c.task[t].quiet = b.task[t].quiet
                      \/ t \in lapsed /\ TaskOK(c.task[t]) /\ c.task[t].st = "late"
    OBVIOUS
  <2>1. CASE t \in lapsed /\ c.task[t] = BackOf(b.task[t]) /\ t \notin lost
    <3>1. t \in lapsed \ lost BY <2>1
    <3> QED BY <1>3, <2>1, <3>1
  <2>2. CASE t \in lapsed /\ c.task[t] = [b.task[t] EXCEPT !.st = "late"]
    BY <1>10, <2>2
  <2> QED BY <1>9, <2>1, <2>2
<1>12. \A t \in Tasks : t \in lapsed <=> b.task[t].st = "claimed" /\ b.task[t].left = 0
  OBVIOUS
<1> HIDE DEF lapsed, lost
<1>13. \A t \in Tasks : TaskOK(c.task[t]) BY <1>1, <1>11
<1>14. Shrinks(b, c) BY <1>11, <1>12 DEF Shrinks, Open
<1>15. BoardType(c)
  <2>1. c.task = [t \in Tasks |-> c.task[t]] BY <1>7
  <2>2. \A t \in Tasks : c.task[t] \in TaskType BY <1>13 DEF TaskOK
  <2>3. c.task \in [Tasks -> TaskType] BY <2>1, <2>2
  <2> QED BY <1>1, <1>7, <2>3 DEF BoardType
<1>16. Judged(c)
  <2>1. \A o : Standing(c, o) = Standing(b, o) BY <1>7 DEF Standing
  <2> QED BY <1>1, <1>7, <1>14, <2>1, FewerClaims DEF Judged
<1>17. Alone(c) BY <1>1, <1>14, StillAlone
<1>18. Seen(c) BY <1>7, <1>14 DEF Seen, Shrinks
<1>19. ASSUME NEW t \in Tasks, Unseen(b, t) PROVE Unseen(c, t)
  <2>1. CASE t \notin lapsed BY <1>7, <1>11, <1>19, <2>1 DEF Unseen
  <2>2. CASE t \in lapsed
    <3>1. OwnerOf[t] \in Owners BY DEF Owners
    <3>2. 0 <= c.owner[OwnerOf[t]].alive BY <1>1, <1>7, <3>1, Bounds DEF OwnerType
    <3> QED BY <1>11, <2>2, <3>2 DEF Unseen
  <2> QED BY <2>1, <2>2
<1>20. ASSUME NEW t \in Tasks, TimeLeft(b.task[t]) PROVE TimeLeft(c.task[t])
  <2>1. 0 # WaitS BY Bounds
  <2> QED BY <1>11, <1>20, <2>1 DEF TimeLeft
<1>21. \A t \in Tasks :
          /\ b.task[t].st # "claimed" => c.task[t] = b.task[t]
          /\ c.task[t].st = "claimed" => c.task[t] = b.task[t] /\ c.task[t].left # 0
          /\ c.task[t].st # "absent" \/ b.task[t].st = "absent"
  BY <1>11, <1>12
<1> QED BY <1>7, <1>13, <1>14, <1>15, <1>16, <1>17, <1>18, <1>19, <1>20, <1>21 DEF BoardOK, c

LEMMA AbsencesOK ==
    ASSUME NEW b, BoardOK(b), Seen(b)
    PROVE  LET c == Absences(b) IN
           /\ BoardOK(c) /\ Shrinks(b, c)
           /\ \A o \in Owners : c.owner[o].alive = b.owner[o].alive
           /\ \A t \in Tasks :
                /\ b.task[t].st # "waiting" => c.task[t] = b.task[t]
                /\ c.task[t].st \in Open => c.task[t] = b.task[t]
                /\ c.task[t] # b.task[t] => Standing(b, OwnerOf[t]) \/ b.owner[OwnerOf[t]].alive = WaitS
                /\ Unseen(b, t) /\ c.task[t].st = "waiting" /\ c.task[t].quiet =>
                      c.task[t].unclaimed # WaitS
<1> DEFINE gone == {t \in Tasks : b.task[t].st = "waiting" /\
                      (\/ Standing(b, OwnerOf[t])
                       \/ Overdue(b, t)
                       \/ \E u \in Mine(b, OwnerOf[t], {"waiting"}) :
                             Overdue(b, u) /\ NotAfter(b, u, t))}
           judged == {o \in Owners : ~Standing(b, o) /\ Mine(b, o, {"waiting"}) \cap gone # {}}
           W == [o \in Owners |-> IF o \in judged THEN [b.owner[o] EXCEPT !.absent = 0] ELSE b.owner[o]]
           d == [b EXCEPT !.owner = W]
           c == Absences(b)
<1>1. b = [task |-> b.task, line |-> b.line, owner |-> b.owner]
      /\ b.task \in [Tasks -> TaskType] /\ b.owner \in [Owners -> OwnerType]
      /\ (\A t \in Tasks : TaskOK(b.task[t])) /\ Alone(b) /\ Judged(b)
  BY DEF BoardOK, BoardType
<1>2. c = CloseTasks(d, gone, "absent") BY DEF Absences
<1>3. \A t \in Tasks : OwnerOf[t] \in Owners BY DEF Owners
<1>4. \A o \in Owners : b.owner[o].alive \in 0..WaitS BY <1>1 DEF OwnerType
<1>5. ASSUME NEW u \in Tasks, Overdue(b, u)
      PROVE  b.owner[OwnerOf[u]].alive = WaitS /\ b.task[u].unclaimed = WaitS
  <2>1. b.task[u].unclaimed \in 0..WaitS BY <1>1 DEF TaskType
  <2>2. b.owner[OwnerOf[u]].alive \in 0..WaitS BY <1>3, <1>4
  <2>3. Min2(b.task[u].unclaimed, b.owner[OwnerOf[u]].alive) >= WaitS BY <1>5 DEF Overdue
  <2> QED BY <2>1, <2>2, <2>3, Bounds DEF Min2
<1>6. \A t \in gone : b.task[t].st = "waiting"
                      /\ (Standing(b, OwnerOf[t]) \/ b.owner[OwnerOf[t]].alive = WaitS)
  BY <1>5 DEF Mine
<1>7. ASSUME NEW t \in Tasks, t \notin gone, b.task[t].st = "waiting", Unseen(b, t), b.task[t].quiet
      PROVE  b.task[t].unclaimed # WaitS
  <2>1. ~Overdue(b, t) BY <1>7
  <2>2. b.task[t].unclaimed \in 0..WaitS BY <1>1 DEF TaskType
  <2>3. b.owner[OwnerOf[t]].alive \in 0..WaitS BY <1>3, <1>4
  <2>4. ~(Min2(b.task[t].unclaimed, b.owner[OwnerOf[t]].alive) >= WaitS)
    BY <1>7, <2>1 DEF Overdue
  <2>5. b.task[t].unclaimed <= b.owner[OwnerOf[t]].alive BY <1>7 DEF Unseen
  <2> QED BY <2>2, <2>3, <2>4, <2>5, Bounds DEF Min2
<1>8. \A o \in judged : b.owner[o].alive = WaitS /\ Mine(b, o, {"claimed"}) = {}
  <2> SUFFICES ASSUME NEW o \in judged
               PROVE  b.owner[o].alive = WaitS /\ Mine(b, o, {"claimed"}) = {}
    OBVIOUS
  <2>1. PICK t \in Tasks : OwnerOf[t] = o /\ t \in gone /\ ~Standing(b, o) BY DEF Mine
  <2>2. b.owner[o].alive = WaitS BY <1>6, <2>1
  <2>3. WaitS # 0 BY Bounds
  <2> QED BY <2>2, <2>3 DEF Mine, Seen
<1>9. judged \subseteq Owners OBVIOUS
<1>10. 0 \in 0..WaitS BY Bounds
<1>11. \A o \in Owners : [b.owner[o] EXCEPT !.absent = 0] \in OwnerType
                         /\ [b.owner[o] EXCEPT !.absent = 0].alive = b.owner[o].alive
  BY <1>1, <1>10 DEF OwnerType
<1> HIDE DEF gone, judged
<1>12. /\ W \in [Owners -> OwnerType]
       /\ \A o \in Owners : W[o].alive = b.owner[o].alive /\ (o \notin judged => W[o] = b.owner[o])
  BY <1>1, <1>11
<1> HIDE DEF W
<1>13. d = [task |-> b.task, line |-> b.line, owner |-> W] BY <1>1
<1> HIDE DEF d
<1>14. BoardType(d) /\ d.task = b.task /\ d.owner = W BY <1>1, <1>12, <1>13 DEF BoardType
<1>15. /\ c = [task |-> c.task, line |-> c.line, owner |-> c.owner] /\ c.owner = W
       /\ c.task = [t \in Tasks |-> IF t \in gone THEN [b.task[t] EXCEPT !.st = "absent"] ELSE b.task[t]]
  BY <1>2, <1>14, CloseIs
<1> HIDE DEF c
<1>16. \A t \in Tasks : \/ t \notin gone /\ c.task[t] = b.task[t]
                        \/ t \in gone /\ TaskOK(c.task[t]) /\ c.task[t].st = "absent"
  <2>1. \A t \in Tasks : TaskOK([b.task[t] EXCEPT !.st = "absent"])
                          /\ [b.task[t] EXCEPT !.st = "absent"].st = "absent"
    BY <1>1, EndedOK
  <2> QED BY <1>15, <2>1
<1>17. \A t \in Tasks : TaskOK(c.task[t]) BY <1>1, <1>16
<1>18. BoardType(c)
  <2>1. c.task = [t \in Tasks |-> c.task[t]] BY <1>15
  <2>2. \A t \in Tasks : c.task[t] \in TaskType BY <1>17 DEF TaskOK
  <2>3. c.task \in [Tasks -> TaskType] BY <2>1, <2>2
  <2> QED BY <1>12, <1>15, <2>3 DEF BoardType
<1>19. Shrinks(b, c) BY <1>6, <1>16 DEF Shrinks, Open
<1>20. Judged(c)
  <2> SUFFICES ASSUME NEW o \in Owners, Standing(c, o)
               PROVE  c.owner[o].alive = WaitS /\ Mine(c, o, {"claimed"}) = {}
    BY DEF Judged
  <2>1. CASE o \in judged BY <1>8, <1>12, <1>15, <1>19, <2>1, FewerClaims
  <2>2. CASE o \notin judged
    <3>1. c.owner[o] = b.owner[o] BY <1>12, <1>15, <2>2
    <3>2. Standing(b, o) BY <3>1 DEF Standing
    <3> QED BY <1>1, <1>19, <3>1, <3>2, FewerClaims DEF Judged
  <2> QED BY <2>1, <2>2
<1>21. Alone(c) BY <1>1, <1>19, StillAlone
<1>22. \A o \in Owners : c.owner[o].alive = b.owner[o].alive BY <1>12, <1>15
<1>23. \A t \in Tasks :
          /\ b.task[t].st # "waiting" => c.task[t] = b.task[t]
          /\ c.task[t].st \in Open => c.task[t] = b.task[t]
          /\ c.task[t] # b.task[t] => Standing(b, OwnerOf[t]) \/ b.owner[OwnerOf[t]].alive = WaitS
          /\ Unseen(b, t) /\ c.task[t].st = "waiting" /\ c.task[t].quiet =>
                c.task[t].unclaimed # WaitS
  BY <1>6, <1>7, <1>16 DEF Open
<1> QED BY <1>17, <1>18, <1>19, <1>20, <1>21, <1>22, <1>23 DEF BoardOK, c

LEMMA SweptOK ==
    ASSUME NEW b, BoardOK(b)
    PROVE  LET c == Swept(b) IN
           /\ BoardOK(c) /\ Shrinks(b, c)
           /\ \A o \in Owners : c.owner[o].alive \in {0, b.owner[o].alive}
           /\ \A t \in Tasks :
                /\ b.task[t].st \notin Open => c.task[t] = b.task[t]
                /\ c.task[t].st = "claimed" => c.task[t] = b.task[t]
                /\ c.task[t].st = "absent" /\ b.task[t].st \in Open =>
                      Mine(b, OwnerOf[t], {"claimed"}) = {}
                /\ Unseen(b, t) => Unseen(c, t) /\ TimeLeft(c.task[t])
                /\ TimeLeft(b.task[t]) => TimeLeft(c.task[t])
<1> DEFINE x == Busy(b)
           y == Deadlines(x)
           c == Absences(y)
<1>1. /\ BoardOK(x) /\ Seen(x) /\ x.task = b.task
      /\ \A o \in Owners : x.owner[o].absent = b.owner[o].absent
                           /\ x.owner[o].alive \in {0, b.owner[o].alive}
      /\ \A t \in Tasks : Unseen(b, t) => Unseen(x, t)
  BY BusyOK
<1>2. /\ BoardOK(y) /\ Seen(y) /\ y.owner = x.owner /\ Shrinks(x, y)
      /\ \A t \in Tasks :
           /\ x.task[t].st # "claimed" => y.task[t] = x.task[t]
           /\ y.task[t].st = "claimed" => y.task[t] = x.task[t] /\ y.task[t].left # 0
           /\ y.task[t].st # "absent" \/ x.task[t].st = "absent"
           /\ Unseen(x, t) => Unseen(y, t)
           /\ TimeLeft(x.task[t]) => TimeLeft(y.task[t])
  BY <1>1, DeadlinesOK
<1>3. /\ BoardOK(c) /\ Shrinks(y, c)
      /\ \A o \in Owners : c.owner[o].alive = y.owner[o].alive
      /\ \A t \in Tasks :
           /\ y.task[t].st # "waiting" => c.task[t] = y.task[t]
           /\ c.task[t].st \in Open => c.task[t] = y.task[t]
           /\ c.task[t] # y.task[t] => Standing(y, OwnerOf[t]) \/ y.owner[OwnerOf[t]].alive = WaitS
           /\ Unseen(y, t) /\ c.task[t].st = "waiting" /\ c.task[t].quiet =>
                 c.task[t].unclaimed # WaitS
  BY <1>2, AbsencesOK
<1>4. Swept(b) = c BY DEF Swept
<1> HIDE DEF x, y, c
<1>5. Shrinks(b, c) BY <1>1, <1>2, <1>3 DEF Shrinks
<1>6. \A t \in Tasks : OwnerOf[t] \in Owners BY DEF Owners
<1>7. ASSUME NEW t \in Tasks, b.task[t].st \notin Open PROVE c.task[t] = b.task[t]
  BY <1>1, <1>2, <1>3, <1>7 DEF Open
<1>8. ASSUME NEW t \in Tasks, c.task[t].st = "claimed" PROVE c.task[t] = b.task[t] /\ c.task[t].left # 0
  BY <1>1, <1>2, <1>3, <1>8 DEF Open
<1>9. ASSUME NEW t \in Tasks, c.task[t].st = "absent", b.task[t].st \in Open
      PROVE  Mine(b, OwnerOf[t], {"claimed"}) = {}
  <2>1. c.task[t] # y.task[t] BY <1>1, <1>2, <1>9 DEF Open
  <2>2. CASE y.owner[OwnerOf[t]].alive = WaitS
    <3>1. x.owner[OwnerOf[t]].alive # 0 BY <1>2, <2>2, Bounds
    <3> QED BY <1>1, <3>1 DEF Mine, Seen
  <2>3. CASE Standing(y, OwnerOf[t])
    <3>1. Standing(b, OwnerOf[t]) BY <1>1, <1>2, <1>6, <2>3 DEF Standing
    <3> QED BY <1>6, <3>1 DEF BoardOK, Judged
  <2> QED BY <1>3, <2>1, <2>2, <2>3
<1>10. ASSUME NEW t \in Tasks, Unseen(b, t) PROVE Unseen(c, t) /\ TimeLeft(c.task[t])
  <2>1. Unseen(y, t) BY <1>1, <1>2, <1>10
  <2>2. Unseen(c, t) BY <1>3, <1>6, <2>1 DEF Unseen, Open
  <2>3. TimeLeft(c.task[t]) BY <1>3, <1>8, <2>1 DEF TimeLeft
  <2> QED BY <2>2, <2>3
<1>11. ASSUME NEW t \in Tasks, TimeLeft(b.task[t]) PROVE TimeLeft(c.task[t])
  <2>1. TimeLeft(y.task[t]) BY <1>1, <1>2, <1>11
  <2> QED BY <1>3, <2>1 DEF TimeLeft, Open
<1>12. \A o \in Owners : c.owner[o].alive \in {0, b.owner[o].alive}
  BY <1>1, <1>2, <1>3
<1> QED BY <1>3, <1>4, <1>5, <1>7, <1>8, <1>9, <1>10, <1>11, <1>12

-----------------------------------------------------------------------------
(* The calls.                                                              *)

LEMMA TouchOK ==
    ASSUME NEW b, BoardOK(b), NEW o \in Owners
    PROVE  LET c == Touch(b, o) IN
           /\ BoardOK(c) /\ c.task = b.task /\ c.owner[o].alive = 0
           /\ \A t \in Tasks : OwnerOf[t] # o /\ Unseen(b, t) => Unseen(c, t)
<1> DEFINE v == [alive |-> 0, absent |-> WaitS]
           c == Touch(b, o)
<1>1. b = [task |-> b.task, line |-> b.line, owner |-> b.owner]
      /\ b.task \in [Tasks -> TaskType] /\ b.owner \in [Owners -> OwnerType]
      /\ (\A t \in Tasks : TaskOK(b.task[t])) /\ Alone(b) /\ Judged(b)
  BY DEF BoardOK, BoardType
<1>2. v \in OwnerType /\ v.alive = 0 /\ v.absent = WaitS BY Bounds DEF OwnerType
<1>3. c = [b EXCEPT !.owner = [b.owner EXCEPT ![o] = v]] BY <1>1 DEF Touch
<1> HIDE DEF v, c
<1>4. c = [task |-> b.task, line |-> b.line, owner |-> [b.owner EXCEPT ![o] = v]]
  BY <1>1, <1>3
<1>5. /\ c.task = b.task /\ c.owner \in [Owners -> OwnerType] /\ c.owner[o] = v
      /\ \A p \in Owners : p # o => c.owner[p] = b.owner[p]
      /\ c = [task |-> c.task, line |-> c.line, owner |-> c.owner]
  BY <1>1, <1>2, <1>4
<1>6. BoardType(c) BY <1>1, <1>5 DEF BoardType
<1>7. ~Standing(c, o) BY <1>2, <1>5, Bounds DEF Standing
<1>8. \A p \in Owners : p # o => Standing(c, p) = Standing(b, p) BY <1>5 DEF Standing
<1>9. \A p : Mine(c, p, {"claimed"}) = Mine(b, p, {"claimed"}) BY <1>5 DEF Mine
<1>10. Judged(c) BY <1>1, <1>5, <1>7, <1>8, <1>9 DEF Judged
<1>11. BoardOK(c) BY <1>1, <1>5, <1>6, <1>10 DEF BoardOK, Alone
<1>12. \A t \in Tasks : OwnerOf[t] # o /\ Unseen(b, t) => Unseen(c, t)
  BY <1>5 DEF Unseen, Owners
<1> QED BY <1>2, <1>5, <1>11, <1>12 DEF c

\* The task t gives way to the record r.
With(b, t, r) == [b EXCEPT !.task[t] = r]
MayBe(b, t, r) ==
    /\ TaskOK(r)
    /\ r.st \in Open => b.task[t].st \in Open /\ (r.quiet => b.task[t].quiet)
    /\ r.st = "claimed" => ~Standing(b, OwnerOf[t])

LEMMA OneTask ==
    ASSUME NEW b, BoardOK(b), NEW t \in Tasks, NEW r, MayBe(b, t, r),
           NEW c, c = With(b, t, r)
    PROVE  /\ BoardOK(c) /\ c.owner = b.owner /\ c.task[t] = r
           /\ \A u \in Tasks : u # t => c.task[u] = b.task[u]
<1>1. b = [task |-> b.task, line |-> b.line, owner |-> b.owner]
      /\ b.task \in [Tasks -> TaskType] /\ b.owner \in [Owners -> OwnerType]
      /\ (\A u \in Tasks : TaskOK(b.task[u])) /\ Alone(b) /\ Judged(b)
  BY DEF BoardOK, BoardType
<1>2. c = [task |-> [b.task EXCEPT ![t] = r], line |-> b.line, owner |-> b.owner]
  BY <1>1 DEF With
<1>3. r \in TaskType BY DEF TaskOK, MayBe
<1>4. /\ c.owner = b.owner /\ c.task \in [Tasks -> TaskType] /\ c.task[t] = r
      /\ \A u \in Tasks : u # t => c.task[u] = b.task[u]
      /\ c = [task |-> c.task, line |-> c.line, owner |-> c.owner]
  BY <1>1, <1>2, <1>3
<1>5. BoardType(c) BY <1>1, <1>4 DEF BoardType
<1>6. Alone(c) BY <1>1, <1>4 DEF Alone, MayBe
<1>7. Judged(c)
  <2>1. \A o : Standing(c, o) = Standing(b, o) BY <1>4 DEF Standing
  <2>2. \A o : Standing(b, o) /\ Mine(b, o, {"claimed"}) = {} => Mine(c, o, {"claimed"}) = {}
    BY <1>4 DEF Mine, MayBe
  <2> QED BY <1>1, <1>4, <2>1, <2>2 DEF Judged
<1>8. \A u \in Tasks : TaskOK(c.task[u]) BY <1>1, <1>4 DEF MayBe
<1> QED BY <1>4, <1>5, <1>6, <1>7, <1>8 DEF BoardOK

\* A task that is closed.
Closes(r, st) == st \notin Open /\ TaskOK([r EXCEPT !.st = st]) /\ [r EXCEPT !.st = st].st = st

LEMMA CloseOK ==
    ASSUME NEW b, BoardOK(b), NEW t \in Tasks, NEW st, Closes(b.task[t], st),
           NEW S, S = {t}, NEW c, c = CloseTasks(b, S, st)
    PROVE  /\ BoardOK(c) /\ c.owner = b.owner /\ c.task[t].st = st
           /\ \A u \in Tasks : u # t => c.task[u] = b.task[u]
<1> DEFINE r == [b.task[t] EXCEPT !.st = st]
<1>1. b.task \in [Tasks -> TaskType] /\ b.owner \in [Owners -> OwnerType] /\ BoardType(b)
      /\ (\A u \in Tasks : TaskOK(b.task[u])) /\ Alone(b) /\ Judged(b)
  BY DEF BoardOK, BoardType
<1>2. /\ c = [task |-> c.task, line |-> c.line, owner |-> c.owner] /\ c.owner = b.owner
      /\ c.task = [u \in Tasks |-> IF u \in {t} THEN [b.task[u] EXCEPT !.st = st] ELSE b.task[u]]
  <2> DEFINE z == CloseTasks(b, S, st)
  <2>0. BoardType(b) BY <1>1
  <2>1. c = z OBVIOUS
  <2> HIDE DEF r
  <2>2. /\ z = [task |-> z.task, line |-> z.line, owner |-> z.owner] /\ z.owner = b.owner
        /\ z.task = [u \in Tasks |-> IF u \in S THEN [b.task[u] EXCEPT !.st = st] ELSE b.task[u]]
    BY ONLY <2>0, CloseIs
  <2> HIDE DEF z
  <2>3. /\ c = [task |-> c.task, line |-> c.line, owner |-> c.owner] /\ c.owner = b.owner
        /\ c.task = [u \in Tasks |-> IF u \in S THEN [b.task[u] EXCEPT !.st = st] ELSE b.task[u]]
    BY ONLY <2>1, <2>2
  <2> QED BY <2>3
<1>3. TaskOK(r) /\ r.st = st /\ st \notin Open BY DEF Closes
<1>4. c.task[t] = r /\ \A u \in Tasks : u # t => c.task[u] = b.task[u] BY <1>2
<1> HIDE DEF r
<1>5. \A u \in Tasks : TaskOK(c.task[u]) BY <1>1, <1>3, <1>4
<1>6. BoardType(c)
  <2>1. c.task = [u \in Tasks |-> c.task[u]] BY <1>2
  <2>2. \A u \in Tasks : c.task[u] \in TaskType BY <1>5 DEF TaskOK
  <2>3. c.task \in [Tasks -> TaskType] BY <2>1, <2>2
  <2> QED BY <1>1, <1>2, <2>3 DEF BoardType
<1>7. Shrinks(b, c) BY <1>3, <1>4 DEF Shrinks, Open
<1>8. Alone(c) BY <1>1, <1>7, StillAlone
<1>9. Judged(c)
  <2>1. \A o : Standing(c, o) = Standing(b, o) BY <1>2 DEF Standing
  <2> QED BY <1>1, <1>2, <1>7, <2>1, FewerClaims DEF Judged
<1> QED BY <1>2, <1>3, <1>4, <1>5, <1>6, <1>8, <1>9 DEF BoardOK

\* The tasks of o are not alone any more.
LEMMA DisturbedBoard ==
    ASSUME NEW b, BoardOK(b), NEW o
    PROVE  LET c == Disturbed(b, o) IN
           /\ BoardOK(c) /\ c.owner = b.owner
           /\ \A t \in Tasks :
                /\ c.task[t].st = b.task[t].st
                /\ t \notin Mine(b, o, Open) => c.task[t] = b.task[t]
                /\ t \in Mine(b, o, Open) => ~c.task[t].quiet
<1> DEFINE M == Mine(b, o, Open)
           F == [t \in Tasks |-> IF t \in M THEN [b.task[t] EXCEPT !.quiet = FALSE] ELSE b.task[t]]
           c == Disturbed(b, o)
<1>1. b = [task |-> b.task, line |-> b.line, owner |-> b.owner]
      /\ b.task \in [Tasks -> TaskType] /\ b.owner \in [Owners -> OwnerType]
      /\ (\A u \in Tasks : TaskOK(b.task[u])) /\ Alone(b) /\ Judged(b)
  BY DEF BoardOK, BoardType
<1>2. c = [b EXCEPT !.task = F] BY DEF Disturbed
<1>3. \A t \in Tasks : LET x == [b.task[t] EXCEPT !.quiet = FALSE] IN
                       TaskOK(x) /\ x.st = b.task[t].st /\ x.quiet = FALSE
  BY <1>1, DisturbedOK
<1> HIDE DEF c, M
<1>4. \A t \in Tasks : /\ TaskOK(F[t]) /\ F[t].st = b.task[t].st
                       /\ t \notin M => F[t] = b.task[t]
                       /\ t \in M => ~F[t].quiet
  BY <1>1, <1>3
<1> HIDE DEF F
<1>5. c = [task |-> F, line |-> b.line, owner |-> b.owner] BY <1>1, <1>2
<1>6. c.task = F /\ c.owner = b.owner /\ c = [task |-> c.task, line |-> c.line, owner |-> c.owner]
  BY <1>5
<1>7. BoardType(c)
  <2>1. F = [t \in Tasks |-> F[t]] BY DEF F
  <2>2. \A t \in Tasks : F[t] \in TaskType BY <1>4 DEF TaskOK
  <2>3. F \in [Tasks -> TaskType] BY <2>1, <2>2
  <2> QED BY <1>1, <1>6, <2>3 DEF BoardType
<1>8. Shrinks(b, c) BY <1>4, <1>6 DEF Shrinks
<1>9. Alone(c) BY <1>1, <1>8, StillAlone
<1>10. Judged(c)
  <2>1. \A p : Standing(c, p) = Standing(b, p) BY <1>6 DEF Standing
  <2> QED BY <1>1, <1>6, <1>8, <2>1, FewerClaims DEF Judged
<1> QED BY <1>4, <1>6, <1>7, <1>9, <1>10 DEF BoardOK, c, M

-----------------------------------------------------------------------------
(* The steps.                                                              *)

\* Nobody is given up for absent in the board c who held a task before.
IdleGone(c) ==
    \A t \in Tasks : c.task[t].st = "absent" /\ board.task[t].st \in Open =>
        Mine(board, OwnerOf[t], {"claimed"}) = {}

\* What a handler leaves that does not stop time.
Good(c) ==
    /\ BoardOK(c) /\ \A t \in Tasks : Unseen(c, t)
    /\ ~due => \A t \in Tasks : TimeLeft(c.task[t])

LEMMA GoodStep ==
    ASSUME BoardInv, Good(board'), UNCHANGED due PROVE BoardInv'
BY DEF BoardInv, Good

LEMMA SweptBoard ==
    ASSUME BoardInv
    PROVE  LET c == Swept(board) IN
           /\ Good(c) /\ IdleGone(c) /\ \A t \in Tasks : TimeLeft(c.task[t])
           /\ \A t \in Tasks : board.task[t].st \notin Open => c.task[t] = board.task[t]
BY SweptOK DEF BoardInv, Good, IdleGone

\* A call of the workflow of o.
LEMMA CalledBoard ==
    ASSUME BoardInv, NEW o \in Owners
    PROVE  LET c == Swept(Touch(board, o)) IN
           /\ BoardOK(c) /\ IdleGone(c) /\ ~Standing(c, o)
           /\ ~due => \A t \in Tasks : TimeLeft(c.task[t])
           /\ \A t \in Tasks : OwnerOf[t] # o => Unseen(c, t)
<1> DEFINE b == Touch(board, o)
           c == Swept(b)
<1>1. /\ BoardOK(b) /\ b.task = board.task /\ b.owner[o].alive = 0
      /\ \A t \in Tasks : OwnerOf[t] # o /\ Unseen(board, t) => Unseen(b, t)
  BY TouchOK DEF BoardInv
<1> HIDE DEF b
<1>2. /\ BoardOK(c) /\ c.owner[o].alive \in {0, b.owner[o].alive}
      /\ \A t \in Tasks :
           /\ c.task[t].st = "absent" /\ b.task[t].st \in Open =>
                 Mine(b, OwnerOf[t], {"claimed"}) = {}
           /\ Unseen(b, t) => Unseen(c, t)
           /\ TimeLeft(b.task[t]) => TimeLeft(c.task[t])
  BY <1>1, SweptOK
<1> HIDE DEF c
<1>3. ~Standing(c, o)
  <2>1. c.owner[o].alive = 0 /\ WaitS # 0 BY <1>1, <1>2, Bounds
  <2> QED BY <1>2, <2>1 DEF BoardOK, Judged
<1>4. \A p : Mine(b, p, {"claimed"}) = Mine(board, p, {"claimed"}) BY <1>1 DEF Mine
<1>5. IdleGone(c) BY <1>1, <1>2, <1>4 DEF IdleGone
<1>6. ~due => \A t \in Tasks : TimeLeft(c.task[t]) BY <1>1, <1>2 DEF BoardInv
<1>7. \A t \in Tasks : OwnerOf[t] # o => Unseen(c, t) BY <1>1, <1>2 DEF BoardInv
<1> QED BY <1>2, <1>3, <1>5, <1>6, <1>7 DEF b, c

LEMMA EmptyTask ==
    ASSUME NEW q \in BOOLEAN
    PROVE  /\ TaskOK(NoTask) /\ NoTask.st = "none"
           /\ LET x == [NoTask EXCEPT !.st = "waiting", !.quiet = q] IN
              TaskOK(x) /\ x.st = "waiting" /\ x.unclaimed = 0 /\ x.quiet = q
<1>1. <<>> \in Seq(Piece) /\ 0 \in 0..2 /\ 0 \in 0..WaitS /\ 0 \in 0..AnswerS /\ 0 \in 0..(Worst + 1)
      /\ 0 \in Nat
  BY Bounds
<1>2. NoTask \in TaskType /\ NoTask.st = "none" BY <1>1 DEF NoTask, TaskType
<1>3. TaskOK(NoTask) BY <1>2 DEF TaskOK, OneClaims, InTime
<1> DEFINE x == [NoTask EXCEPT !.st = "waiting", !.quiet = q]
<1>4. NoTask.claims = 0 /\ NoTask.unclaimed = 0 /\ NoTask.age = 0 BY DEF NoTask
<1> HIDE DEF x
<1>5. /\ x \in TaskType /\ x.st = "waiting" /\ x.unclaimed = 0 /\ x.quiet = q /\ x.claims = 0
      /\ x.age = 0
  BY <1>2, <1>4 DEF TaskType, x
<1>6. x.claims # 2 /\ x.age <= Spent(x.claims) + x.unclaimed BY <1>5 DEF Spent
<1>7. TaskOK(x) BY <1>5, <1>6 DEF TaskOK, OneClaims, InTime
<1> QED BY <1>2, <1>3, <1>5, <1>7 DEF x

LEMMA OpenStep ==
    ASSUME BoardInv, NEW t \in Tasks, OpenTask(t)
    PROVE  BoardInv' /\ IdleGone(board')
<1> DEFINE o == OwnerOf[t]
           b == Swept(board)
           d == Disturbed(b, o)
           q == Mine(b, o, Open) = {}
           r == [NoTask EXCEPT !.st = "waiting", !.quiet = q]
<1>1. /\ board.task[t].st = "none" /\ UNCHANGED due
      /\ IF Standing(b, o) THEN board' = b
         ELSE board' = [d EXCEPT !.task[t] = r, !.line = Append(@, t)]
  BY DEF OpenTask
<1>2. /\ Good(b) /\ IdleGone(b) /\ \A u \in Tasks : TimeLeft(b.task[u])
      /\ \A u \in Tasks : board.task[u].st \notin Open => b.task[u] = board.task[u]
  BY SweptBoard
<1>3. o \in Owners BY DEF Owners
<1>4. b.task[t].st = "none" BY <1>1, <1>2 DEF Open
<1>5. CASE Standing(b, o) BY <1>1, <1>2, <1>5, GoodStep
<1>6. CASE ~Standing(b, o)
  <2>1. board' = [d EXCEPT !.task[t] = r, !.line = Append(@, t)] BY <1>1, <1>6
  <2> HIDE DEF b
  <2>2. /\ BoardOK(d) /\ d.owner = b.owner
        /\ \A u \in Tasks :
             /\ d.task[u].st = b.task[u].st
             /\ u \notin Mine(b, o, Open) => d.task[u] = b.task[u]
             /\ u \in Mine(b, o, Open) => ~d.task[u].quiet
    BY <1>2, DisturbedBoard DEF Good
  <2>3. q \in BOOLEAN OBVIOUS
  <2> HIDE DEF d, q
  <2>4. TaskOK(r) /\ r.st = "waiting" /\ r.unclaimed = 0 /\ r.quiet = q BY <2>3, EmptyTask
  <2> HIDE DEF r
  <2> DEFINE L == Append(d.line, t)
             F == [d.task EXCEPT ![t] = r]
  <2>5. d = [task |-> d.task, line |-> d.line, owner |-> d.owner]
        /\ d.task \in [Tasks -> TaskType] /\ d.owner \in [Owners -> OwnerType]
    BY <2>2 DEF BoardOK, BoardType
  <2>6. board' = [d EXCEPT !.task = F, !.line = L] BY <2>1, <2>5
  <2>7. F \in [Tasks -> TaskType] /\ F[t] = r /\ \A u \in Tasks : u # t => F[u] = d.task[u]
    BY <2>4, <2>5 DEF TaskOK
  <2> HIDE DEF L, F
  <2>8. board' = [task |-> F, line |-> L, owner |-> d.owner] BY <2>5, <2>6
  <2>9. /\ board'.task = F /\ board'.owner = b.owner
        /\ board' = [task |-> board'.task, line |-> board'.line, owner |-> board'.owner]
    BY <2>2, <2>8
  <2> DEFINE c == board'
  <2>10. c.task[t] = r /\ \A u \in Tasks : u # t => c.task[u] = d.task[u] BY <2>7, <2>9
  <2>11. BoardType(c) BY <2>2, <2>5, <2>7, <2>9 DEF BoardType
  <2>12. \A u \in Tasks : TaskOK(c.task[u]) BY <2>2, <2>4, <2>10 DEF BoardOK
  <2>13. Judged(c)
    <3>1. \A p : Standing(c, p) = Standing(d, p) BY <2>2, <2>9 DEF Standing
    <3>2. \A p : Mine(d, p, {"claimed"}) = {} => Mine(c, p, {"claimed"}) = {}
      BY <2>4, <2>10 DEF Mine
    <3> QED BY <2>2, <2>9, <3>1, <3>2 DEF Judged, BoardOK
  <2>14. Alone(c)
    <3>1. \A u \in Tasks : u # t /\ OwnerOf[u] = o /\ c.task[u].st \in Open =>
             ~c.task[u].quiet /\ ~q
      BY <2>2, <2>10 DEF Mine, q
    <3>2. ASSUME NEW u \in Tasks, NEW v \in Tasks, c.task[u].st \in Open, c.task[u].quiet,
                 c.task[v].st \in Open, OwnerOf[v] = OwnerOf[u]
          PROVE  v = u
      <4>1. CASE u = t BY <2>4, <2>10, <3>1, <3>2, <4>1
      <4>2. CASE u # t /\ v = t BY <3>1, <3>2, <4>2
      <4>3. CASE u # t /\ v # t
        <5>1. d.task[u].st \in Open /\ d.task[u].quiet /\ d.task[v].st \in Open
          BY <2>10, <3>2, <4>3
        <5> QED BY <2>2, <3>2, <5>1 DEF BoardOK, Alone
      <4> QED BY <4>1, <4>2, <4>3
    <3> QED BY <3>2 DEF Alone
  <2>15. \A u \in Tasks : u # t => Unseen(c, u) /\ (TimeLeft(b.task[u]) => TimeLeft(c.task[u]))
    <3> SUFFICES ASSUME NEW u \in Tasks, u # t
                 PROVE  Unseen(c, u) /\ (TimeLeft(b.task[u]) => TimeLeft(c.task[u]))
      OBVIOUS
    <3>1. Unseen(b, u) BY <1>2 DEF Good
    <3>2. CASE u \in Mine(b, o, Open) BY <2>2, <2>10, <3>2 DEF Unseen, TimeLeft
    <3>3. CASE u \notin Mine(b, o, Open)
      <4>1. c.task[u] = b.task[u] BY <2>2, <2>10, <3>3
      <4> QED BY <2>9, <3>1, <4>1 DEF Unseen
    <3> QED BY <3>2, <3>3
  <2>16. Unseen(c, t) /\ TimeLeft(c.task[t])
    <3>1. c.owner[o].alive \in 0..WaitS BY <1>3, <2>11 DEF BoardType, OwnerType
    <3>2. 0 <= c.owner[o].alive /\ 0 # WaitS BY <3>1, Bounds
    <3> QED BY <2>4, <2>10, <3>2 DEF Unseen, TimeLeft
  <2>17. Good(c) BY <1>2, <2>11, <2>12, <2>13, <2>14, <2>15, <2>16 DEF Good, BoardOK
  <2>18. IdleGone(c)
    <3>1. c.task[t].st # "absent" BY <2>4, <2>10
    <3>2. \A u \in Tasks : u # t => c.task[u].st = b.task[u].st BY <2>2, <2>10
    <3> QED BY <1>2, <3>1, <3>2 DEF IdleGone
  <2> QED BY <1>1, <2>17, <2>18, GoodStep
<1> QED BY <1>5, <1>6

LEMMA EndStep ==
    ASSUME BoardInv, NEW t \in Tasks, Collect(t) \/ Cancel(t)
    PROVE  BoardInv' /\ IdleGone(board')
<1> DEFINE b == IF Collect(t) THEN board ELSE CloseTasks(board, {t}, "none")
           c == board'
<1>1. BoardOK(board) /\ board.task[t] \in TaskType BY DEF BoardInv, BoardOK, TaskOK
<1>2. /\ BoardOK(b) /\ b.owner = board.owner
      /\ \A u \in Tasks : u # t => b.task[u] = board.task[u]
  <2>1. CASE Collect(t) BY <1>1, <2>1
  <2>2. CASE ~Collect(t)
    <3>1. Closes(board.task[t], "none") BY <1>1, EndedOK DEF Closes, Open
    <3> DEFINE S == {t}
    <3>2. S = {t} /\ b = CloseTasks(board, S, "none") BY <2>2
    <3> HIDE DEF b, S
    <3> QED BY <1>1, <3>1, <3>2, CloseOK
  <2> QED BY <2>1, <2>2
<1>3. c = With(b, t, NoTask) /\ UNCHANGED due BY DEF Collect, Cancel, With
<1> HIDE DEF b, c
<1>4. TaskOK(NoTask) /\ NoTask.st = "none" BY EmptyTask
<1>5. MayBe(b, t, NoTask) BY <1>4 DEF Open, MayBe
<1>6. /\ BoardOK(c) /\ c.owner = b.owner /\ c.task[t] = NoTask
      /\ \A u \in Tasks : u # t => c.task[u] = b.task[u]
  BY <1>2, <1>3, <1>5, OneTask
<1>7. Good(c)
  <2>1. \A u \in Tasks : u # t => Unseen(c, u) /\ (~due => TimeLeft(c.task[u]))
    BY <1>2, <1>6 DEF BoardInv, Unseen
  <2>2. Unseen(c, t) /\ TimeLeft(c.task[t]) BY <1>4, <1>6 DEF Unseen, TimeLeft
  <2> QED BY <1>6, <2>1, <2>2 DEF Good
<1>8. IdleGone(c) BY <1>2, <1>4, <1>6 DEF IdleGone, Open
<1> QED BY <1>3, <1>7, <1>8, GoodStep DEF c

LEMMA ClaimStep ==
    ASSUME BoardInv, NEW o \in Owners, Claim(o)
    PROVE  BoardInv' /\ IdleGone(board')
<1> DEFINE b == Swept(Touch(board, o))
           c == board'
<1>1. /\ BoardOK(b) /\ IdleGone(b) /\ ~Standing(b, o)
      /\ ~due => \A t \in Tasks : TimeLeft(b.task[t])
      /\ \A t \in Tasks : OwnerOf[t] # o => Unseen(b, t)
  BY CalledBoard
<1>2. UNCHANGED due BY DEF Claim
<1>3. CASE Mine(b, o, {"waiting"}) = {} /\ c = b
  <2>1. \A t \in Tasks : OwnerOf[t] = o => b.task[t].st # "waiting" BY <1>3 DEF Mine
  <2>2. \A t \in Tasks : Unseen(b, t) BY <1>1, <2>1 DEF Unseen
  <2>3. Good(c) BY <1>1, <1>3, <2>2 DEF Good
  <2> QED BY <1>1, <1>2, <1>3, <2>3, GoodStep
<1>4. ASSUME NEW t \in Mine(b, o, {"waiting"}),
             c = [b EXCEPT !.task[t].st = "claimed", !.task[t].claims = @ + 1,
                           !.task[t].left = AnswerS, !.task[t].buf = <<>>]
      PROVE  BoardInv' /\ IdleGone(board')
  <2> DEFINE r == ClaimOf(b.task[t])
  <2>1. t \in Tasks /\ OwnerOf[t] = o /\ b.task[t].st = "waiting" /\ TaskOK(b.task[t])
    BY <1>1, <1>4 DEF Mine, BoardOK
  <2>2. TaskOK(r) /\ r.st = "claimed" /\ r.left # 0 /\ r.quiet = b.task[t].quiet
    BY <2>1, ClaimOK
  <2>3. c = With(b, t, r)
    <3>1. b = [task |-> b.task, line |-> b.line, owner |-> b.owner]
          /\ b.task \in [Tasks -> TaskType]
      BY <1>1 DEF BoardOK, BoardType
    <3> HIDE DEF b, c
    <3> QED BY <1>4, <2>1, <3>1 DEF ClaimOf, With
  <2> HIDE DEF r, b, c
  <2>4. MayBe(b, t, r) BY <1>1, <2>1, <2>2 DEF Open, MayBe
  <2>5. /\ BoardOK(c) /\ c.owner = b.owner /\ c.task[t] = r
        /\ \A u \in Tasks : u # t => c.task[u] = b.task[u]
    BY <1>1, <2>1, <2>3, <2>4, OneTask
  <2>6. \A u \in Tasks : Unseen(c, u)
    <3> SUFFICES ASSUME NEW u \in Tasks PROVE Unseen(c, u) OBVIOUS
    <3>1. CASE u = t BY <2>2, <2>5, <3>1 DEF Unseen
    <3>2. CASE u # t /\ OwnerOf[u] = o
      <4>1. ~(b.task[u].st = "waiting" /\ b.task[u].quiet)
        BY <1>1, <2>1, <3>2 DEF BoardOK, Alone, Open
      <4> QED BY <2>5, <3>2, <4>1 DEF Unseen
    <3>3. CASE u # t /\ OwnerOf[u] # o BY <1>1, <2>5, <3>3 DEF Unseen
    <3> QED BY <3>1, <3>2, <3>3
  <2>7. ~due => \A u \in Tasks : TimeLeft(c.task[u])
    <3>1. TimeLeft(r) BY <2>2 DEF TimeLeft
    <3> QED BY <1>1, <2>5, <3>1
  <2>8. Good(c) BY <2>5, <2>6, <2>7 DEF Good
  <2>9. IdleGone(c) BY <1>1, <2>2, <2>5 DEF IdleGone
  <2> QED BY <1>2, <2>8, <2>9, GoodStep DEF c
<1> QED BY <1>3, <1>4 DEF Claim

\* A call about a task that the caller holds.
LEMMA HeldAlone ==
    ASSUME NEW b, BoardOK(b), NEW t \in Tasks, b.task[t].st = "claimed",
           \A u \in Tasks : OwnerOf[u] # OwnerOf[t] => Unseen(b, u)
    PROVE  \A u \in Tasks : Unseen(b, u)
<1> SUFFICES ASSUME NEW u \in Tasks, OwnerOf[u] = OwnerOf[t], b.task[u].st = "waiting",
                    b.task[u].quiet
             PROVE  FALSE
  BY DEF Unseen
<1> QED BY DEF BoardOK, Alone, Open

LEMMA ReadStep ==
    ASSUME BoardInv, NEW t \in Tasks, NEW lease, Read(t, lease)
    PROVE  BoardInv' /\ IdleGone(board')
<1> DEFINE b == Swept(Touch(board, OwnerOf[t]))
<1>1. Held(b, t, lease) /\ board' = b /\ UNCHANGED due BY DEF Read
<1>2. OwnerOf[t] \in Owners BY DEF Owners
<1>3. /\ BoardOK(b) /\ IdleGone(b)
      /\ ~due => \A u \in Tasks : TimeLeft(b.task[u])
      /\ \A u \in Tasks : OwnerOf[u] # OwnerOf[t] => Unseen(b, u)
  BY <1>2, CalledBoard
<1>4. Good(b)
  <2>1. b.task[t].st = "claimed" BY <1>1 DEF Held
  <2> HIDE DEF b
  <2>2. \A u \in Tasks : Unseen(b, u) BY <1>3, <2>1, HeldAlone
  <2> QED BY <1>3, <2>2 DEF Good
<1> QED BY <1>1, <1>3, <1>4, GoodStep

LEMMA SubmitStep ==
    ASSUME BoardInv, NEW t \in Tasks, NEW lease, NEW k \in 1..Pieces,
           Submit(t, lease, k)
    PROVE  BoardInv' /\ IdleGone(board')
<1> DEFINE b == Swept(Touch(board, OwnerOf[t]))
           buf == Placed(b.task[t].buf, k, <<lease, k>>)
           got == [b EXCEPT !.task[t].buf = buf]
           c == board'
<1>1. /\ Held(b, t, lease) /\ UNCHANGED due
      /\ IF k = Pieces /\ buf # b.task[t].buf THEN c = CloseTasks(got, {t}, "answered") ELSE c = got
  BY DEF Submit
<1>2. OwnerOf[t] \in Owners BY DEF Owners
<1>3. /\ BoardOK(b) /\ IdleGone(b) /\ ~Standing(b, OwnerOf[t])
      /\ ~due => \A u \in Tasks : TimeLeft(b.task[u])
      /\ \A u \in Tasks : OwnerOf[u] # OwnerOf[t] => Unseen(b, u)
  BY <1>2, CalledBoard
<1>4. b.task[t].st = "claimed" /\ b.task[t].claims = lease BY <1>1 DEF Held
<1> HIDE DEF b, c
<1>5. \A u \in Tasks : Unseen(b, u) BY <1>3, <1>4, HeldAlone
<1> DEFINE s == b.task[t]
<1>6. /\ TaskOK(s) /\ s \in TaskType /\ s.st = "claimed" /\ s.claims = lease
      /\ b = [task |-> b.task, line |-> b.line, owner |-> b.owner] /\ b.task \in [Tasks -> TaskType]
  BY <1>3, <1>4 DEF BoardOK, TaskOK, BoardType
<1>7. s.buf \in Seq(Piece) /\ s.claims \in Nat /\ OfClaim(s.buf, s.claims) /\ Len(s.buf) <= Pieces
  BY <1>6, Fields DEF TaskOK, OneClaims
<1> DEFINE r == [s EXCEPT !.buf = buf]
<1>8. got = With(b, t, r) BY <1>6 DEF With
<1>9. /\ buf \in Seq(Piece) /\ OfClaim(buf, s.claims) /\ Len(buf) <= Pieces
      /\ buf # s.buf => Len(buf) = k
  BY <1>6, <1>7, PlacedOK
<1> HIDE DEF buf, got, s
<1>10. /\ TaskOK(r) /\ r.st = "claimed" /\ r.quiet = s.quiet /\ r.left = s.left
       /\ Len(buf) = Pieces => Closes(r, "answered")
  BY <1>6, <1>9, GotOK DEF Closes, Open
<1> HIDE DEF r
<1>11. MayBe(b, t, r) BY <1>3, <1>4, <1>10 DEF Open, s, MayBe
<1>12. /\ BoardOK(got) /\ got.owner = b.owner /\ got.task[t] = r
       /\ \A u \in Tasks : u # t => got.task[u] = b.task[u]
  BY <1>3, <1>8, <1>11, OneTask
<1>13. /\ BoardOK(c) /\ c.owner = b.owner /\ c.task[t].st # "waiting" /\ c.task[t].st # "absent"
       /\ TimeLeft(s) => TimeLeft(c.task[t])
       /\ \A u \in Tasks : u # t => c.task[u] = b.task[u]
  <2>1. CASE c = got
    <3>1. c.task[t] = r BY <1>12, <2>1
    <3>2. TimeLeft(s) => TimeLeft(r) BY <1>6, <1>10 DEF TimeLeft
    <3> QED BY <1>10, <1>12, <2>1, <3>1, <3>2
  <2>2. CASE k = Pieces /\ buf # s.buf /\ c = CloseTasks(got, {t}, "answered")
    <3>1. Len(buf) = Pieces BY <1>9, <2>2
    <3> DEFINE w == "answered"
               S == {t}
               y == CloseTasks(got, S, w)
    <3>2. Closes(got.task[t], w) BY <1>10, <1>12, <3>1
    <3>3. c = y /\ w # "waiting" /\ w # "absent" /\ w # "claimed" BY <2>2
    <3>4. BoardOK(got) /\ S = {t} BY <1>12
    <3> HIDE DEF w, S
    <3>5. /\ BoardOK(y) /\ y.owner = got.owner /\ y.task[t].st = w
          /\ \A u \in Tasks : u # t => y.task[u] = got.task[u]
      BY <3>2, <3>4, CloseOK
    <3> HIDE DEF y
    <3> QED BY <1>12, <3>3, <3>5 DEF TimeLeft
  <2> QED BY <1>1, <2>1, <2>2 DEF s
<1>14. Good(c)
  <2>1. \A u \in Tasks : Unseen(c, u) BY <1>5, <1>13 DEF Unseen
  <2>2. ~due => \A u \in Tasks : TimeLeft(c.task[u]) BY <1>3, <1>13 DEF s
  <2> QED BY <1>13, <2>1, <2>2 DEF Good
<1>15. IdleGone(c) BY <1>3, <1>13 DEF IdleGone
<1> QED BY <1>1, <1>14, <1>15, GoodStep DEF c

LEMMA StrayStep ==
    ASSUME BoardInv, NEW o \in Owners, StrayCall(o)
    PROVE  BoardInv' /\ IdleGone(board')
<1> DEFINE b == Swept(Touch(board, o))
           c == Disturbed(b, o)
<1>1. board' = c /\ UNCHANGED due BY DEF StrayCall
<1>2. /\ BoardOK(b) /\ IdleGone(b)
      /\ ~due => \A t \in Tasks : TimeLeft(b.task[t])
      /\ \A t \in Tasks : OwnerOf[t] # o => Unseen(b, t)
  BY CalledBoard
<1> HIDE DEF b
<1>3. /\ BoardOK(c) /\ c.owner = b.owner
      /\ \A t \in Tasks :
           /\ c.task[t].st = b.task[t].st
           /\ t \notin Mine(b, o, Open) => c.task[t] = b.task[t]
           /\ t \in Mine(b, o, Open) => ~c.task[t].quiet
  BY <1>2, DisturbedBoard
<1> HIDE DEF c
<1>4. ASSUME NEW t \in Tasks PROVE Unseen(c, t) /\ (~due => TimeLeft(c.task[t]))
  <2>1. CASE t \in Mine(b, o, Open) BY <1>3, <2>1 DEF Unseen, TimeLeft
  <2>2. CASE t \notin Mine(b, o, Open)
    <3>1. c.task[t] = b.task[t] BY <1>3, <2>2
    <3>2. OwnerOf[t] # o \/ b.task[t].st # "waiting" BY <2>2 DEF Mine, Open
    <3> QED BY <1>2, <1>3, <3>1, <3>2 DEF Unseen
  <2> QED BY <2>1, <2>2
<1>5. Good(c) BY <1>3, <1>4 DEF Good
<1>6. IdleGone(c) BY <1>2, <1>3 DEF IdleGone
<1> QED BY <1>1, <1>5, <1>6, GoodStep

LEMMA SweepStep ==
    ASSUME BoardInv, Sweep PROVE BoardInv' /\ IdleGone(board')
<1> DEFINE c == Swept(board)
<1>1. board' = c /\ due' = FALSE BY DEF Sweep
<1>2. Good(c) /\ IdleGone(c) /\ \A t \in Tasks : TimeLeft(c.task[t]) BY SweptBoard
<1> HIDE DEF c
<1> QED BY <1>1, <1>2 DEF Good, BoardInv

LEMMA ElapseStep ==
    ASSUME BoardInv, Elapse PROVE BoardInv' /\ IdleGone(board')
<1> DEFINE b == board
           c == board'
           F == [t \in Tasks |-> IF b.task[t].st \in Open THEN Older(b.task[t]) ELSE b.task[t]]
           G == [o \in Owners |-> [alive |-> Min2(b.owner[o].alive + 1, WaitS),
                                   absent |-> Min2(b.owner[o].absent + 1, WaitS)]]
<1>1. /\ ~due /\ c = [b EXCEPT !.task = F, !.owner = G]
      /\ due' = (\E t \in Tasks : b.task[t].st \in Open)
  BY DEF Elapse
<1>2. /\ b = [task |-> b.task, line |-> b.line, owner |-> b.owner]
      /\ b.task \in [Tasks -> TaskType] /\ b.owner \in [Owners -> OwnerType]
      /\ (\A t \in Tasks : TaskOK(b.task[t]) /\ TimeLeft(b.task[t]) /\ Unseen(b, t))
      /\ Alone(b) /\ Judged(b)
  BY <1>1 DEF BoardInv, BoardOK, BoardType
<1>3. \A t \in Tasks :
        /\ b.task[t].st \notin Open => F[t] = b.task[t]
        /\ b.task[t].st \in Open =>
             /\ TaskOK(F[t]) /\ F[t].st = b.task[t].st /\ F[t].quiet = b.task[t].quiet
             /\ F[t].unclaimed = Min2(b.task[t].unclaimed + 1, WaitS)
  <2> SUFFICES ASSUME NEW t \in Tasks, b.task[t].st \in Open
               PROVE  LET x == Older(b.task[t]) IN
                      /\ TaskOK(x) /\ x.st = b.task[t].st /\ x.quiet = b.task[t].quiet
                      /\ x.unclaimed = Min2(b.task[t].unclaimed + 1, WaitS)
    OBVIOUS
  <2> DEFINE r == b.task[t]
  <2>1. TaskOK(r) /\ TimeLeft(r) /\ r.st \in Open BY <1>2
  <2> HIDE DEF r
  <2>2. LET x == Older(r) IN /\ TaskOK(x) /\ x.st = r.st /\ x.quiet = r.quiet
                             /\ x.unclaimed = Min2(r.unclaimed + 1, WaitS)
    BY <2>1, OlderOK
  <2> QED BY <2>2 DEF r
<1>4. \A o \in Owners :
        /\ b.owner[o].alive \in 0..WaitS /\ b.owner[o].absent \in 0..WaitS
        /\ G[o] \in OwnerType
        /\ G[o].alive = Min2(b.owner[o].alive + 1, WaitS)
        /\ G[o].absent = Min2(b.owner[o].absent + 1, WaitS)
  <2> SUFFICES ASSUME NEW o \in Owners
               PROVE  /\ b.owner[o].alive \in 0..WaitS /\ b.owner[o].absent \in 0..WaitS
                      /\ G[o] \in OwnerType
                      /\ G[o].alive = Min2(b.owner[o].alive + 1, WaitS)
                      /\ G[o].absent = Min2(b.owner[o].absent + 1, WaitS)
    OBVIOUS
  <2>1. b.owner[o].alive \in 0..WaitS /\ b.owner[o].absent \in 0..WaitS BY <1>2 DEF OwnerType
  <2>2. /\ Min2(b.owner[o].alive + 1, WaitS) \in 0..WaitS
        /\ Min2(b.owner[o].absent + 1, WaitS) \in 0..WaitS
    BY <2>1, Bounds DEF Min2
  <2> QED BY <2>1, <2>2 DEF OwnerType
<1>5. F = [t \in Tasks |-> F[t]] /\ G = [o \in Owners |-> G[o]] OBVIOUS
<1> HIDE DEF F, G
<1>6. /\ c.task = F /\ c.owner = G
      /\ c = [task |-> c.task, line |-> c.line, owner |-> c.owner]
  <2>1. c = [task |-> F, line |-> b.line, owner |-> G] BY <1>1, <1>2
  <2> QED BY <2>1
<1> HIDE DEF c
<1>7. \A t \in Tasks : TaskOK(c.task[t]) /\ c.task[t].st = b.task[t].st
                       /\ c.task[t].quiet = b.task[t].quiet
  BY <1>2, <1>3, <1>6
<1>8. BoardType(c)
  <2>1. F \in [Tasks -> TaskType] BY <1>5, <1>6, <1>7 DEF TaskOK
  <2>2. G \in [Owners -> OwnerType] BY <1>4, <1>5
  <2> QED BY <1>6, <2>1, <2>2 DEF BoardType
<1>9. Alone(c) BY <1>2, <1>7 DEF Alone
<1>10. Judged(c)
  <2> SUFFICES ASSUME NEW o \in Owners, Standing(c, o)
               PROVE  c.owner[o].alive = WaitS /\ Mine(c, o, {"claimed"}) = {}
    BY DEF Judged
  <2>1. Standing(b, o)
    <3>1. Min2(b.owner[o].absent + 1, WaitS) < WaitS BY <1>4, <1>6 DEF Standing
    <3>2. b.owner[o].absent \in 0..WaitS BY <1>4
    <3>3. b.owner[o].absent < WaitS BY <3>1, <3>2, Bounds DEF Min2
    <3> QED BY <3>3 DEF Standing
  <2>2. b.owner[o].alive = WaitS /\ Mine(b, o, {"claimed"}) = {} BY <1>2, <2>1 DEF Judged
  <2>3. Min2(b.owner[o].alive + 1, WaitS) = WaitS BY <2>2, Bounds DEF Min2
  <2>4. c.owner[o].alive = WaitS BY <1>4, <1>6, <2>3
  <2>5. Mine(c, o, {"claimed"}) = Mine(b, o, {"claimed"}) BY <1>7 DEF Mine
  <2> QED BY <2>2, <2>4, <2>5
<1>11. \A t \in Tasks : Unseen(c, t)
  <2> SUFFICES ASSUME NEW t \in Tasks, c.task[t].st = "waiting", c.task[t].quiet
               PROVE  c.task[t].unclaimed <= c.owner[OwnerOf[t]].alive
    BY DEF Unseen
  <2>1. OwnerOf[t] \in Owners BY DEF Owners
  <2> DEFINE m == b.task[t].unclaimed
             n == b.owner[OwnerOf[t]].alive
  <2>2. b.task[t].st = "waiting" /\ b.task[t].quiet /\ b.task[t] \in TaskType
    BY <1>2, <1>7 DEF TaskOK
  <2>3. m <= n BY <1>2, <2>2 DEF Unseen
  <2>4. m \in 0..WaitS /\ n \in 0..WaitS BY <1>4, <2>1, <2>2, Fields
  <2>5. c.task[t].unclaimed = Min2(m + 1, WaitS) BY <1>3, <1>6, <2>2 DEF Open
  <2>6. c.owner[OwnerOf[t]].alive = Min2(n + 1, WaitS) BY <1>4, <1>6, <2>1
  <2> HIDE DEF m, n
  <2>7. Min2(m + 1, WaitS) <= Min2(n + 1, WaitS) BY ONLY <2>3, <2>4, Bounds DEF Min2
  <2> QED BY <2>5, <2>6, <2>7
<1>12. due' \in BOOLEAN /\ (~due' => \A t \in Tasks : TimeLeft(c.task[t]))
  <2>1. ~due' => \A t \in Tasks : c.task[t].st \notin Open BY <1>1, <1>7
  <2> QED BY <1>1, <2>1 DEF TimeLeft, Open
<1>13. IdleGone(c) BY <1>7 DEF IdleGone, Open
<1> QED BY <1>6, <1>7, <1>8, <1>9, <1>10, <1>11, <1>12, <1>13 DEF BoardInv, BoardOK, c

LEMMA InvInit ==
    ASSUME BoardInit PROVE BoardInv
<1> DEFINE v == [alive |-> WaitS, absent |-> WaitS]
<1>1. v \in OwnerType /\ v.absent = WaitS BY Bounds DEF OwnerType
<1> HIDE DEF v
<1>2. /\ board = [task |-> [t \in Tasks |-> NoTask], line |-> <<>>, owner |-> [o \in Owners |-> v]]
      /\ due = FALSE
  BY DEF BoardInit, v
<1>3. TaskOK(NoTask) /\ NoTask.st = "none" BY EmptyTask
<1>4. /\ \A t \in Tasks : board.task[t] = NoTask
      /\ \A o \in Owners : board.owner[o] = v
      /\ board = [task |-> board.task, line |-> board.line, owner |-> board.owner]
      /\ board.task = [t \in Tasks |-> NoTask] /\ board.owner = [o \in Owners |-> v]
  BY <1>2
<1>5. BoardType(board) BY <1>1, <1>3, <1>4 DEF BoardType, TaskOK
<1>6. Judged(board) BY <1>1, <1>4, Bounds DEF Judged, Standing
<1>7. Alone(board) BY <1>3, <1>4 DEF Alone, Open
<1>8. \A t \in Tasks : Unseen(board, t) /\ TimeLeft(board.task[t])
  BY <1>3, <1>4 DEF Unseen, TimeLeft
<1> QED BY <1>2, <1>3, <1>4, <1>5, <1>6, <1>7, <1>8 DEF BoardInv, BoardOK

LEMMA BoardStep ==
    ASSUME BoardInv, BoardNext PROVE BoardInv' /\ IdleGone(board')
<1>1. ASSUME NEW t \in Tasks, EngineCalls(t) PROVE BoardInv' /\ IdleGone(board')
  BY <1>1, OpenStep, EndStep DEF EngineCalls
<1>2. ASSUME Workflow PROVE BoardInv' /\ IdleGone(board')
  <2>1. ASSUME NEW o \in Owners, Claim(o) PROVE BoardInv' /\ IdleGone(board')
    BY <2>1, ClaimStep
  <2>2. ASSUME NEW t \in Tasks, NEW lease, Read(t, lease) PROVE BoardInv' /\ IdleGone(board')
    BY <2>2, ReadStep
  <2>3. ASSUME NEW t \in Tasks, NEW lease, NEW k \in 1..Pieces, Submit(t, lease, k)
        PROVE  BoardInv' /\ IdleGone(board')
    BY <2>3, SubmitStep
  <2> QED BY <1>2, <2>1, <2>2, <2>3 DEF Workflow
<1>3. ASSUME Stray PROVE BoardInv' /\ IdleGone(board')
  BY <1>3, StrayStep DEF Stray
<1> QED BY <1>1, <1>2, <1>3, SweepStep, ElapseStep DEF BoardNext

LEMMA BoardStutter == ASSUME BoardInv, UNCHANGED boardVars PROVE BoardInv'
<1>1. board' = board /\ due' = due BY DEF boardVars
<1> HIDE DEF BoardInv
<1>2. BoardOK(board)' = BoardOK(board) /\ (\A t \in Tasks : Unseen(board, t)' = Unseen(board, t))
      /\ (\A t \in Tasks : TimeLeft(board.task[t])' = TimeLeft(board.task[t]))
  BY <1>1 DEF BoardOK, BoardType, Alone, Judged, Standing, Mine, Unseen, TimeLeft
<1> QED BY <1>1, <1>2 DEF BoardInv

-----------------------------------------------------------------------------
(* The theorems.                                                           *)

\* The board's invariant (external_llm.py, Board): its tasks are in shape, a
\* quiet task is its owner's only one and its age is accounted for by its
\* claims, and who stands judged absent was not seen and holds nothing.
THEOREM BoardInvariant == BoardSpec => []BoardInv
<1>1. BoardInit => BoardInv BY InvInit
<1>2. BoardInv /\ [BoardNext]_boardVars => BoardInv' BY BoardStep, BoardStutter
<1> QED BY <1>1, <1>2, PTL DEF BoardSpec

\* However often, late or with whatever earlier lease submit() is called, what
\* wait() returns is all the pieces of one claim, in order.
THEOREM AnswersAreWhole == BoardSpec => []AnswerIsWhole
<1>1. BoardInv => AnswerIsWhole
  <2> SUFFICES ASSUME BoardInv, NEW t \in Tasks, board.task[t].st = "answered"
               PROVE  /\ Len(board.task[t].buf) = Pieces
                      /\ \A k \in 1..Pieces : board.task[t].buf[k] = <<board.task[t].claims, k>>
    BY DEF AnswerIsWhole
  <2> DEFINE r == board.task[t]
  <2>1. TaskOK(r) /\ r.st = "answered" BY DEF BoardInv, BoardOK
  <2> HIDE DEF r
  <2>2. r \in TaskType /\ OfClaim(r.buf, r.claims) /\ Len(r.buf) = Pieces
    BY <2>1 DEF TaskOK, OneClaims
  <2>3. DOMAIN r.buf = 1..Pieces BY <2>2, Fields
  <2>4. Len(r.buf) = Pieces /\ \A k \in 1..Pieces : r.buf[k] = <<r.claims, k>>
    BY <2>2, <2>3 DEF OfClaim
  <2> QED BY <2>4 DEF r
<1> QED BY <1>1, BoardInvariant, PTL

\* A question that no other one or stray call disturbs is over within the worst
\* case by which the LLM calls' outer limits are set, and a judgement of absence
\* ends with the first sign of the user (wait(), _sweep, _touch).
THEOREM WaitsAreJust == BoardSpec => []WaitIsJust
<1>1. BoardInv => JudgedIsUnseen
  <2> SUFFICES ASSUME BoardInv, NEW o \in Owners, Standing(board, o)
               PROVE  board.owner[o].alive >= WaitS
    BY DEF JudgedIsUnseen
  <2>1. board.owner[o].alive = WaitS BY DEF BoardInv, BoardOK, Judged
  <2> QED BY <2>1, Bounds
<1>2. BoardInv => WorstCase
  <2> SUFFICES ASSUME BoardInv, NEW t \in Tasks, board.task[t].st \in Open, board.task[t].quiet
               PROVE  board.task[t].age <= Worst
    BY DEF WorstCase
  <2> DEFINE r == board.task[t]
  <2>1. TaskOK(r) /\ r.st \in Open /\ r.quiet BY DEF BoardInv, BoardOK
  <2> HIDE DEF r
  <2>2. r.claims \in 0..2 /\ r.unclaimed \in 0..WaitS /\ r.left \in 0..AnswerS /\ r.age \in Nat
    BY <2>1, Fields DEF TaskOK
  <2>3. r.st = "waiting" => r.age <= Worst
    <3>1. r.st = "waiting" => r.claims # 2 /\ r.age <= Spent(r.claims) + r.unclaimed
      BY <2>1 DEF TaskOK, InTime
    <3>2. r.claims # 2 => Spent(r.claims) \in Nat /\ Spent(r.claims) <= WaitS + AnswerS
      BY <2>2, Bounds DEF Spent
    <3> QED BY <2>2, <3>1, <3>2, Bounds
  <2>4. r.st = "claimed" => r.age <= Worst
    <3>1. r.st = "claimed" => r.age + r.left <= Spent(r.claims) BY <2>1 DEF TaskOK, InTime
    <3>2. Spent(r.claims) \in Nat /\ Spent(r.claims) <= Worst BY Bounds DEF Spent
    <3> QED BY <2>2, <3>1, <3>2, Bounds
  <2>5. r.age <= Worst BY <2>1, <2>3, <2>4 DEF Open
  <2> QED BY <2>5 DEF r
<1> QED BY <1>1, <1>2, BoardInvariant, PTL DEF WaitIsJust

\* No sweep gives up for absent the waiting task of a user whose workflow held
\* a claim when it began (_sweep takes its claims for signs of life first).
THEOREM AbsentAreIdle == BoardSpec => AbsentMeansIdle
<1> DEFINE A == \A t \in Tasks : board'.task[t].st = "absent" /\ board.task[t].st \in Open =>
                    Mine(board, OwnerOf[t], {"claimed"}) = {}
<1>1. BoardInv /\ [BoardNext]_boardVars => [A]_boardVars
  <2> SUFFICES ASSUME BoardInv, BoardNext PROVE A OBVIOUS
  <2>1. IdleGone(board') BY BoardStep
  <2> QED BY <2>1 DEF IdleGone
<1> QED BY <1>1, BoardInvariant, PTL DEF BoardSpec, AbsentMeansIdle
=============================================================================

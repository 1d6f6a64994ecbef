--------------------------- MODULE SeatLookupsProofs ---------------------------
(***************************************************************************)
(* Proofs about SeatLookups, for any seats, calls, backends and budgets:   *)
(* seats share one call, no call begins at a backend that has refused one, *)
(* a closing is told once, and what was found is kept.                     *)
(***************************************************************************)
EXTENDS SeatLookups, FiniteSetTheorems, SequenceTheorems, TLAPS

-----------------------------------------------------------------------------
(* Sequences.                                                              *)

LEMMA RangeOfConcat ==
    ASSUME NEW S, NEW p \in Seq(S), NEW q \in Seq(S)
    PROVE  p \o q \in Seq(S) /\ ToSet(p \o q) = ToSet(p) \cup ToSet(q)
<1> DEFINE r == p \o q
<1>1. /\ r \in Seq(S) /\ Len(r) = Len(p) + Len(q) /\ Len(p) \in Nat /\ Len(q) \in Nat
      /\ DOMAIN p = 1..Len(p) /\ DOMAIN q = 1..Len(q) /\ DOMAIN r = 1..Len(p) + Len(q)
  BY ConcatProperties, LenProperties
<1>2. /\ \A i \in 1..Len(p) : r[i] = p[i]
      /\ \A i \in 1..Len(q) : r[Len(p) + i] = q[i]
  BY <1>1, ConcatProperties
<1> HIDE DEF r
<1>3. ToSet(r) \subseteq ToSet(p) \cup ToSet(q)
  <2> SUFFICES ASSUME NEW i \in 1..Len(p) + Len(q)
               PROVE  r[i] \in ToSet(p) \cup ToSet(q)
    BY <1>1 DEF ToSet
  <2>1. CASE i \in 1..Len(p) BY <1>1, <1>2, <2>1 DEF ToSet
  <2>2. CASE i \notin 1..Len(p)
    <3>1. i - Len(p) \in 1..Len(q) /\ Len(p) + (i - Len(p)) = i BY <1>1, <2>2
    <3> QED BY <1>1, <1>2, <3>1 DEF ToSet
  <2> QED BY <2>1, <2>2
<1>4. ToSet(p) \subseteq ToSet(r)
  <2>1. \A i \in 1..Len(p) : i \in 1..Len(p) + Len(q) BY <1>1
  <2> QED BY <1>1, <1>2, <2>1 DEF ToSet
<1>5. ToSet(q) \subseteq ToSet(r)
  <2>1. \A i \in 1..Len(q) : Len(p) + i \in 1..Len(p) + Len(q) BY <1>1
  <2> QED BY <1>1, <1>2, <2>1 DEF ToSet
<1> QED BY <1>1, <1>3, <1>4, <1>5 DEF r

LEMMA InjectiveConcat ==
    ASSUME NEW S, NEW p \in Seq(S), NEW q \in Seq(S), IsInjective(p), IsInjective(q),
           ToSet(p) \cap ToSet(q) = {}
    PROVE  IsInjective(p \o q)
<1> DEFINE r == p \o q
<1>1. /\ Len(p) \in Nat /\ Len(q) \in Nat /\ DOMAIN p = 1..Len(p) /\ DOMAIN q = 1..Len(q)
      /\ DOMAIN r = 1..Len(p) + Len(q)
      /\ \A i \in 1..Len(p) : r[i] = p[i]
      /\ \A i \in 1..Len(q) : r[Len(p) + i] = q[i]
  BY ConcatProperties, LenProperties
<1> HIDE DEF r
<1>2. \A i \in DOMAIN r : \/ i \in 1..Len(p) /\ r[i] = p[i]
                          \/ i - Len(p) \in 1..Len(q) /\ r[i] = q[i - Len(p)]
  <2> SUFFICES ASSUME NEW i \in 1..Len(p) + Len(q), i \notin 1..Len(p)
               PROVE  i - Len(p) \in 1..Len(q) /\ r[i] = q[i - Len(p)]
    BY <1>1
  <2>1. i - Len(p) \in 1..Len(q) /\ Len(p) + (i - Len(p)) = i BY <1>1
  <2> QED BY <1>1, <2>1
<1>3. ASSUME NEW i \in DOMAIN r, NEW j \in DOMAIN r, r[i] = r[j] PROVE i = j
  <2>1. CASE i \in 1..Len(p) /\ j \in 1..Len(p)
    BY <1>1, <1>3, <2>1 DEF IsInjective
  <2>2. CASE i \notin 1..Len(p) /\ j \notin 1..Len(p)
    <3>1. i - Len(p) = j - Len(p) BY <1>1, <1>2, <1>3, <2>2 DEF IsInjective
    <3>2. i \in Nat /\ j \in Nat BY <1>1
    <3> QED BY <1>1, <3>1, <3>2
  <2>3. CASE i \in 1..Len(p) /\ j \notin 1..Len(p)
    <3>1. p[i] \in ToSet(p) /\ q[j - Len(p)] \in ToSet(q) /\ p[i] = q[j - Len(p)]
      BY <1>1, <1>2, <1>3, <2>3 DEF ToSet
    <3> QED BY <3>1
  <2>4. CASE i \notin 1..Len(p) /\ j \in 1..Len(p)
    <3>1. p[j] \in ToSet(p) /\ q[i - Len(p)] \in ToSet(q) /\ p[j] = q[i - Len(p)]
      BY <1>1, <1>2, <1>3, <2>4 DEF ToSet
    <3> QED BY <3>1
  <2> QED BY <2>1, <2>2, <2>3, <2>4
<1>4. IsInjective(r) BY <1>3 DEF IsInjective
<1> QED BY <1>4 DEF r

\* A finite set as a sequence has each of its elements once.
LEMMA SetAsSequence ==
    ASSUME NEW S, IsFiniteSet(S)
    PROVE  SetToSeq(S) \in Seq(S) /\ IsInjective(SetToSeq(S)) /\ ToSet(SetToSeq(S)) = S
<1> DEFINE n == Cardinality(S)
           q == SetToSeq(S)
<1>1. n \in Nat /\ ExistsBijection(1..n, S) BY FS_CardinalityType
<1>2. PICK f : f \in Bijection(1..n, S)
  BY <1>1 DEF ExistsBijection
<1>3. f \in [1..n -> S] /\ IsInjective(f)
  BY <1>2 DEF Bijection, Injection
<1>4. q \in [1..n -> S] /\ IsInjective(q)
  BY <1>3 DEF SetToSeq
<1> HIDE DEF q
<1>5. q \in Seq(S) /\ DOMAIN q = 1..n BY <1>1, <1>4
<1>6. q \in Injection(1..n, S) BY <1>4 DEF Injection
<1>7. Cardinality(1..n) = n BY <1>1, FS_Interval
<1>8. q \in Surjection(1..n, S) BY <1>6, <1>7, FS_Injection
<1>9. ToSet(q) = S BY <1>4, <1>5, <1>8 DEF Surjection, ToSet
<1> QED BY <1>4, <1>5, <1>9 DEF q
-----------------------------------------------------------------------------
(* The inductive invariant.                                                *)

States == {"queued", "called", "ok", "fail", "raised"}
Fut == Keys \X Nat
SeatType ==
    [at : {"done", "asking", "waiting"}, turn : Nat, used : Nat,
     turnOf : Seq(Fut), have : Seq(Fut)]
Code == {"conn_rate_limited", "conn_unregistered"}

CallsType == futs \in [Keys -> Seq(States)] /\ cache \in [Keys -> Nat]
SeatsType == seat \in [Seats -> SeatType]
EngineType ==
    /\ ext \in BOOLEAN /\ pc \in {"designated", "round", "between", "over"}
    /\ todo \in [keys : Seq(Keys), tries : 0..1]
ClosedType ==
    /\ limited \subseteq Backends /\ noconn \subseteq Backends
    /\ IsFiniteSet(limited) /\ IsFiniteSet(noconn)

\* The calls fu of a key: the cache ca has the one that has not raised, if any.
CacheOK(fu, ca) ==
    \A k \in Keys :
        /\ ca[k] <= Len(fu[k])
        /\ \A n \in DOMAIN fu[k] : fu[k][n] # "raised" => n = ca[k]

\* A call under way is awaited by a seat, until the deliberation is over: so
\* none is under way when no seat looks up.
Awaited(se, k, n) == \E s \in Seats : se[s].at = "waiting" /\ <<k, n>> \in ToSet(se[s].turnOf)
AwaitedOK(p, fu, se) ==
    /\ p # "over" => \A k \in Keys : \A n \in DOMAIN fu[k] :
                        fu[k][n] \in Over \/ Awaited(se, k, n)
    /\ p # "round" => \A s \in Seats : se[s].at = "done"

\* What a seat x awaits and has are calls; what it has is there, what of it can
\* be used is in the pool po once the seat is through.
IsCall(fu, f) == f \in Fut /\ f[2] \in DOMAIN fu[f[1]]
Ok(fu, f) == fu[f[1]][f[2]] = "ok"
SeatOK(e, p, fu, x, po) ==
    /\ \A f \in ToSet(x.turnOf) : IsCall(fu, f)
    /\ \A f \in ToSet(x.have) :
        /\ IsCall(fu, f) /\ fu[f[1]][f[2]] \in Over
        /\ p = "round" /\ x.at = "done" /\ Ok(fu, f) => f \in po
    /\ e => x.used <= Budget
PoolOK(fu, po) == \A f \in po : IsCall(fu, f) /\ Ok(fu, f)

\* What was told is what was sent, once; before a round all that is closed.
ToldOK(p, cl, to, no) ==
    /\ no \in Seq(Code \X Backends) /\ ToSet(no) = to /\ IsInjective(no) /\ to \subseteq cl
    /\ p = "designated" => to = {}
    /\ p = "between" => cl \subseteq to

LookupsInv ==
    /\ CallsType /\ SeatsType /\ EngineType /\ ClosedType
    /\ CacheOK(futs, cache) /\ AwaitedOK(pc, futs, seat)
    /\ \A s \in Seats : SeatOK(ext, pc, futs, seat[s], pool)
    /\ PoolOK(futs, pool) /\ ToldOK(pc, Closings, told, notices)

-----------------------------------------------------------------------------
(* Calls.                                                                  *)

\* The calls fv are those of fu, later: an answer stays.
Later(fu, fv) ==
    \A k \in Keys : \A n \in DOMAIN fu[k] :
        n \in DOMAIN fv[k] /\ (fu[k][n] \in Over => fv[k][n] = fu[k][n])

LEMMA LaterKeeps ==
    ASSUME NEW fu, NEW fv, Later(fu, fv), NEW e, NEW p, NEW x, NEW po, NEW pq,
           SeatOK(e, p, fu, x, po), po \subseteq pq
    PROVE  SeatOK(e, p, fv, x, pq)
<1>1. \A f : IsCall(fu, f) => IsCall(fv, f)
  BY DEF IsCall, Later, Fut
<1>2. \A f : IsCall(fu, f) /\ fu[f[1]][f[2]] \in Over => fv[f[1]][f[2]] = fu[f[1]][f[2]]
  BY DEF IsCall, Later, Fut
<1> QED BY <1>1, <1>2 DEF SeatOK, Ok

LEMMA LaterPool ==
    ASSUME NEW fu, NEW fv, Later(fu, fv), NEW po, PoolOK(fu, po)
    PROVE  PoolOK(fv, po)
<1>1. \A f : IsCall(fu, f) => IsCall(fv, f)
  BY DEF IsCall, Later, Fut
<1>2. \A f : IsCall(fu, f) /\ fu[f[1]][f[2]] \in Over => fv[f[1]][f[2]] = fu[f[1]][f[2]]
  BY DEF IsCall, Later, Fut
<1> QED BY <1>1, <1>2 DEF PoolOK, Ok, Over

\* A call that is under way moves on, or ends.
LEMMA CallMoves ==
    ASSUME CallsType, CacheOK(futs, cache), NEW se, NEW p, AwaitedOK(p, futs, se),
           NEW k \in Keys, NEW n \in DOMAIN futs[k], futs[k][n] \notin Over,
           NEW v \in States, NEW fv, fv = [futs EXCEPT ![k][n] = v]
    PROVE  /\ fv \in [Keys -> Seq(States)] /\ Later(futs, fv) /\ CacheOK(fv, cache)
           /\ AwaitedOK(p, fv, se)
<1>0. futs \in [Keys -> Seq(States)] /\ cache \in [Keys -> Nat] BY DEF CallsType
<1> DEFINE q == [futs[k] EXCEPT ![n] = v]
<1>1. futs[k] \in Seq(States) /\ DOMAIN futs[k] = 1..Len(futs[k]) BY <1>0
<1>2. /\ q \in Seq(States) /\ DOMAIN q = DOMAIN futs[k] /\ Len(q) = Len(futs[k])
      /\ q[n] = v /\ \A m \in DOMAIN futs[k] : m # n => q[m] = futs[k][m]
  BY <1>1
<1>3. fv = [futs EXCEPT ![k] = q] OBVIOUS
<1> HIDE DEF q
<1>4. /\ fv \in [Keys -> Seq(States)] /\ fv[k] = q
      /\ \A j \in Keys : j # k => fv[j] = futs[j]
  BY <1>0, <1>2, <1>3
<1>5. Later(futs, fv) BY <1>2, <1>4 DEF Later
<1>6. CacheOK(fv, cache)
  BY <1>2, <1>4 DEF CacheOK, Over
<1>7. AwaitedOK(p, fv, se)
  BY <1>2, <1>4 DEF AwaitedOK
<1> QED BY <1>4, <1>5, <1>6, <1>7

\* Between two rounds no call is under way.
LEMMA NoneUnderWay ==
    ASSUME NEW se, NEW fu, NEW p, AwaitedOK(p, fu, se), p \in {"designated", "between"}
    PROVE  \A k \in Keys : \A n \in DOMAIN fu[k] : fu[k][n] \in Over
BY DEF AwaitedOK, Awaited

LEMMA MarksAre ==
    ASSUME ClosedType, NEW k \in Keys, NEW how, Marks(k, how)
    PROVE  ClosedType' /\ Closings \subseteq Closings'
<1>1. BackendOf[k] \in Backends BY LookupsAssumption
<1>2. IsFiniteSet({BackendOf[k]}) BY FS_Singleton
<1>3. IsFiniteSet(limited \cup {BackendOf[k]}) /\ IsFiniteSet(noconn \cup {BackendOf[k]})
  BY <1>2, FS_Union DEF ClosedType
<1>4. limited' \in {limited, limited \cup {BackendOf[k]}}
      /\ noconn' \in {noconn, noconn \cup {BackendOf[k]}}
  BY DEF Marks, Limited, Noconn
<1>5. ClosedType' BY <1>1, <1>3, <1>4 DEF ClosedType
<1>6. limited \subseteq limited' /\ noconn \subseteq noconn' BY <1>4
<1> QED BY <1>5, <1>6 DEF Closings, ClosingsOf

LEMMA CallSteps ==
    ASSUME LookupsInv, NEW k \in Keys, CallStep(k) PROVE LookupsInv'
<1>0. /\ UNCHANGED <<ext, pc, todo, cache, told, notices, seat, pool>>
      /\ \/ Pass(k) /\ UNCHANGED <<limited, noconn>>
         \/ \E how \in Hows : Return(k) /\ Marks(k, how)
         \/ Raise(k) /\ UNCHANGED <<limited, noconn>>
  BY DEF CallStep, Pass, Return, Raise
<1>1. PICK n \in DOMAIN futs[k] : \E v \in States :
         futs[k][n] \notin Over /\ futs' = [futs EXCEPT ![k][n] = v]
  BY DEF CallStep, Pass, Return, Raise, Over, States, Begins
<1>2. CallsType /\ SeatsType /\ EngineType /\ ClosedType /\ CacheOK(futs, cache)
      /\ AwaitedOK(pc, futs, seat) /\ PoolOK(futs, pool) /\ ToldOK(pc, Closings, told, notices)
  BY DEF LookupsInv
<1>3. /\ futs' \in [Keys -> Seq(States)] /\ Later(futs, futs') /\ CacheOK(futs', cache)
      /\ AwaitedOK(pc, futs', seat)
  BY <1>1, <1>2, CallMoves
<1>4. ClosedType' /\ Closings \subseteq Closings'
  <2>1. CASE UNCHANGED <<limited, noconn>>
    BY <1>2, <2>1 DEF ClosedType, Closings, ClosingsOf
  <2>2. CASE \E how \in Hows : Marks(k, how) BY <1>2, <2>2, MarksAre
  <2> QED BY <1>0, <2>1, <2>2
<1>5. ToldOK(pc, Closings', told, notices)
  <2>1. pc \notin {"between"}
    BY <1>1, <1>2, NoneUnderWay
  <2> QED BY <1>2, <1>4, <2>1 DEF ToldOK
<1>6. \A s \in Seats : SeatOK(ext, pc, futs', seat[s], pool)
  BY <1>3, LaterKeeps DEF LookupsInv
<1>7. PoolOK(futs', pool) BY <1>2, <1>3, LaterPool
<1>8. CallsType' /\ SeatsType' /\ EngineType'
  BY <1>0, <1>2, <1>3 DEF CallsType, SeatsType, EngineType
<1> QED BY <1>0, <1>3, <1>4, <1>5, <1>6, <1>7, <1>8 DEF LookupsInv

-----------------------------------------------------------------------------
(* The engine.                                                             *)

LEMMA ClosingsAre ==
    ASSUME NEW lim, NEW noc, lim \subseteq Backends, noc \subseteq Backends,
           IsFiniteSet(lim), IsFiniteSet(noc)
    PROVE  ClosingsOf(lim, noc) \subseteq Code \X Backends /\ IsFiniteSet(ClosingsOf(lim, noc))
<1>1. IsFiniteSet({"conn_rate_limited"}) /\ IsFiniteSet({"conn_unregistered"})
  BY FS_Singleton
<1>3. /\ IsFiniteSet({"conn_rate_limited"} \X lim)
      /\ IsFiniteSet({"conn_unregistered"} \X noc)
  BY <1>1, FS_Product
<1>4. IsFiniteSet(ClosingsOf(lim, noc)) BY <1>3, FS_Union DEF ClosingsOf
<1>5. ClosingsOf(lim, noc) \subseteq Code \X Backends BY DEF ClosingsOf, Code
<1> QED BY <1>4, <1>5

\* What is closed and was not told is told now.
LEMMA Tells ==
    ASSUME NEW p, NEW cl, NEW to, NEW no, ToldOK(p, cl, to, no),
           NEW cm, cl \subseteq cm, cm \subseteq Code \X Backends, IsFiniteSet(cm), NEW q, q # "designated"
    PROVE  ToldOK(q, cm, to \cup (cm \ to), no \o SetToSeq(cm \ to))
<1> DEFINE S == cm \ to
<1>1. S \subseteq Code \X Backends /\ IsFiniteSet(S) BY FS_Subset
<1> DEFINE z == SetToSeq(S)
<1>2. z \in Seq(S) /\ IsInjective(z) /\ ToSet(z) = S BY <1>1, SetAsSequence
<1> HIDE DEF z
<1>3. z \in Seq(Code \X Backends) BY <1>1, <1>2
<1>4. no \in Seq(Code \X Backends) /\ ToSet(no) = to /\ IsInjective(no) /\ to \subseteq cl
  BY DEF ToldOK
<1>5. no \o z \in Seq(Code \X Backends) /\ ToSet(no \o z) = to \cup S
  BY <1>2, <1>3, <1>4, RangeOfConcat
<1>6. ToSet(no) \cap ToSet(z) = {} BY <1>2, <1>4
<1>7. IsInjective(no \o z) BY <1>2, <1>3, <1>4, <1>6, InjectiveConcat
<1>8. ToldOK(q, cm, to \cup S, no \o z) BY <1>4, <1>5, <1>7 DEF ToldOK
<1> QED BY <1>8 DEF z

LEMMA OtherPhase ==
    ASSUME NEW e, NEW p, NEW fu, NEW x, NEW po, SeatOK(e, p, fu, x, po), NEW q, q # "round"
    PROVE  SeatOK(e, q, fu, x, po)
BY DEF SeatOK

LEMMA EmptySeat ==
    /\ Idle \in SeatType /\ Asking \in SeatType
    /\ \A e, p, fu, po : SeatOK(e, p, fu, Idle, po) /\ SeatOK(e, p, fu, Asking, po)
    /\ Idle.at = "done" /\ Asking.at = "asking"
<1>1. Idle \in SeatType /\ Asking \in SeatType
  <2>1. <<>> \in Seq(Fut) /\ 0 \in Nat OBVIOUS
  <2>2. Idle \in SeatType BY <2>1 DEF Idle, SeatType
  <2>3. Asking = [at |-> "asking", turn |-> 0, used |-> 0, turnOf |-> <<>>, have |-> <<>>]
    BY DEF Idle, Asking
  <2> QED BY <2>1, <2>2, <2>3 DEF SeatType
<1>2. ToSet(<<>>) = {} BY DEF ToSet
<1>3. 0 <= Budget BY LookupsAssumption
<1>4. /\ Idle.at = "done" /\ Asking.at = "asking" /\ Idle.used = 0 /\ Asking.used = 0
      /\ Idle.turnOf = <<>> /\ Asking.turnOf = <<>> /\ Idle.have = <<>> /\ Asking.have = <<>>
  BY DEF Idle, Asking
<1> QED BY <1>1, <1>2, <1>3, <1>4 DEF SeatOK

LEMMA ToolSteps == ASSUME LookupsInv, SkipTool \/ CallTool PROVE LookupsInv'
<1>0. /\ UNCHANGED <<ext, round, futs, cache, line, seat, owner, pool>>
      /\ pc = "designated" /\ todo.keys # <<>>
  BY DEF SkipTool, CallTool, lookVars
<1>1. CallsType /\ SeatsType /\ EngineType /\ ClosedType /\ CacheOK(futs, cache)
      /\ AwaitedOK(pc, futs, seat) /\ PoolOK(futs, pool) /\ ToldOK(pc, Closings, told, notices)
  BY DEF LookupsInv
<1>2. todo.keys \in Seq(Keys) /\ Head(todo.keys) \in Keys /\ Tail(todo.keys) \in Seq(Keys)
      /\ todo.tries \in 0..1 /\ todo \in [keys : Seq(Keys), tries : 0..1]
  BY <1>0, <1>1 DEF EngineType
<1>3. /\ ClosedType' /\ Closings \subseteq Closings'
      /\ NextTool(limited', noconn')
         \/ (todo' = [todo EXCEPT !.tries = 1] /\ UNCHANGED <<pc, told, notices>>)
  <2>1. CASE SkipTool
    <3>1. UNCHANGED <<limited, noconn>> /\ NextTool(limited, noconn)
      BY <2>1 DEF SkipTool, lookVars
    <3> QED BY <1>1, <3>1 DEF ClosedType, Closings, ClosingsOf
  <2>2. CASE CallTool
    <3>1. PICK how \in Hows :
             /\ Marks(Head(todo.keys), how)
             /\ NextTool(Limited(Head(todo.keys), how), Noconn(Head(todo.keys), how))
                \/ (todo' = [todo EXCEPT !.tries = 1] /\ UNCHANGED <<pc, told, notices>>)
      BY <2>2 DEF CallTool
    <3>2. limited' = Limited(Head(todo.keys), how) /\ noconn' = Noconn(Head(todo.keys), how)
      BY <3>1 DEF Marks
    <3> QED BY <1>1, <1>2, <3>1, <3>2, MarksAre
  <2> QED BY <2>1, <2>2
<1>4. told = {} BY <1>0, <1>1 DEF ToldOK
<1>5. Closings' \subseteq Code \X Backends /\ IsFiniteSet(Closings')
  <2>1. /\ limited' \subseteq Backends /\ noconn' \subseteq Backends
        /\ IsFiniteSet(limited') /\ IsFiniteSet(noconn')
    BY <1>3 DEF ClosedType
  <2>2. /\ ClosingsOf(limited', noconn') \subseteq Code \X Backends
        /\ IsFiniteSet(ClosingsOf(limited', noconn'))
    BY <2>1, ClosingsAre
  <2> QED BY <2>2 DEF Closings
<1>6. /\ pc' \in {"designated", "between"} /\ todo' \in [keys : Seq(Keys), tries : 0..1]
      /\ ToldOK(pc', Closings', told', notices')
  <2>1. CASE UNCHANGED <<pc, told, notices>>
             /\ (todo' = [todo EXCEPT !.tries = 1]
                 \/ todo' = [keys |-> Tail(todo.keys), tries |-> 0])
    <3>1. todo' \in [keys : Seq(Keys), tries : 0..1] BY <1>2, <2>1
    <3>2. ToldOK(pc, Closings', told, notices) BY <1>0, <1>1, <1>3 DEF ToldOK
    <3> QED BY <1>0, <2>1, <3>1, <3>2
  <2>2. CASE /\ todo' = [keys |-> <<>>, tries |-> 0] /\ pc' = "between"
             /\ told' = TellsDesignated(limited', noconn')
             /\ notices' = notices \o SetToSeq(ClosingsOf(limited', noconn'))
    <3>1. ClosingsOf(limited', noconn') = Closings' \ told
          /\ told' = told \cup (Closings' \ told)
      BY <1>4, <2>2 DEF TellsDesignated, Closings, ClosingsOf
    <3>2. "between" # "designated" OBVIOUS
    <3>3. ToldOK("between", Closings', told \cup (Closings' \ told),
                 notices \o SetToSeq(Closings' \ told))
      BY <1>1, <1>3, <1>5, <3>2, Tells
    <3>4. ToldOK(pc', Closings', told', notices') BY <2>2, <3>1, <3>3
    <3>5. todo' \in [keys : Seq(Keys), tries : 0..1] BY <2>2
    <3> QED BY <2>2, <3>4, <3>5
  <2> QED BY <1>3, <2>1, <2>2 DEF NextTool
<1>7. AwaitedOK(pc', futs, seat)
  BY <1>0, <1>1, <1>6 DEF AwaitedOK
<1>8. \A s \in Seats : SeatOK(ext, pc', futs, seat[s], pool)
  <2>1. pc' # "round" BY <1>6
  <2> QED BY <2>1, OtherPhase DEF LookupsInv
<1>9. CallsType' /\ SeatsType' /\ EngineType'
  BY <1>0, <1>1, <1>6 DEF CallsType, SeatsType, EngineType
<1> QED BY <1>0, <1>1, <1>3, <1>6, <1>7, <1>8, <1>9 DEF LookupsInv

LEMMA RoundSteps == ASSUME LookupsInv, StartRound \/ EndRound \/ Leave PROVE LookupsInv'
<1>0. UNCHANGED <<ext, todo, futs, cache, limited, noconn, pool>>
  BY DEF StartRound, EndRound, Leave, lookVars
<1>1. CallsType /\ SeatsType /\ EngineType /\ ClosedType /\ CacheOK(futs, cache)
      /\ AwaitedOK(pc, futs, seat) /\ PoolOK(futs, pool) /\ ToldOK(pc, Closings, told, notices)
  BY DEF LookupsInv
<1>2. CallsType' /\ ClosedType' /\ Closings' = Closings
  BY <1>0, <1>1 DEF CallsType, ClosedType, Closings, ClosingsOf
<1>3. CASE StartRound
  <2>1. pc = "between" /\ pc' = "round" /\ seat' = [s \in Seats |-> Asking]
        /\ UNCHANGED <<told, notices>>
    BY <1>3 DEF StartRound
  <2>2. SeatsType' /\ \A s \in Seats : SeatOK(ext, pc', futs, seat'[s], pool)
    BY <2>1, EmptySeat DEF SeatsType
  <2>3. AwaitedOK(pc', futs, seat')
    <3>1. \A k \in Keys : \A n \in DOMAIN futs[k] : futs[k][n] \in Over
      BY <1>1, <2>1, NoneUnderWay
    <3> QED BY <2>1, <3>1 DEF AwaitedOK
  <2>4. ToldOK(pc', Closings, told, notices) BY <1>1, <2>1 DEF ToldOK
  <2>5. EngineType' BY <1>0, <1>1, <2>1 DEF EngineType
  <2> QED BY <1>0, <1>1, <1>2, <2>1, <2>2, <2>3, <2>4, <2>5 DEF LookupsInv
<1>4. CASE EndRound
  <2>1. /\ pc = "round" /\ \A s \in Seats : seat[s].at = "done"
        /\ pc' \in {"between", "over"} /\ seat' = [s \in Seats |-> Idle]
        /\ notices' = notices \o SetToSeq(Closings \ told)
        /\ told' = told \cup (Closings \ told)
    BY <1>4 DEF EndRound, Fresh
  <2>2. SeatsType' /\ \A s \in Seats : SeatOK(ext, pc', futs, seat'[s], pool)
    BY <2>1, EmptySeat DEF SeatsType
  <2>3. AwaitedOK(pc', futs, seat')
    <3>1. \A k \in Keys : \A n \in DOMAIN futs[k] : futs[k][n] \in Over
      BY <1>1, <2>1 DEF AwaitedOK, Awaited
    <3> QED BY <2>1, <3>1, EmptySeat DEF AwaitedOK
  <2>4. ToldOK(pc', Closings, told', notices')
    <3>1. Closings \subseteq Code \X Backends /\ IsFiniteSet(Closings)
      BY <1>1, ClosingsAre DEF ClosedType, Closings
    <3> QED BY <1>1, <2>1, <3>1, Tells
  <2>5. EngineType' BY <1>0, <1>1, <2>1 DEF EngineType
  <2> QED BY <1>0, <1>1, <1>2, <2>1, <2>2, <2>3, <2>4, <2>5 DEF LookupsInv
<1>5. CASE Leave
  <2>1. pc' = "over" /\ seat' = [s \in Seats |-> Idle] /\ UNCHANGED <<told, notices>>
    BY <1>5 DEF Leave
  <2>2. SeatsType' /\ \A s \in Seats : SeatOK(ext, pc', futs, seat'[s], pool)
    BY <2>1, EmptySeat DEF SeatsType
  <2>3. AwaitedOK(pc', futs, seat') BY <2>1, EmptySeat DEF AwaitedOK
  <2>4. ToldOK(pc', Closings, told, notices) BY <1>1, <2>1 DEF ToldOK
  <2>5. EngineType' BY <1>0, <1>1, <2>1 DEF EngineType
  <2> QED BY <1>0, <1>1, <1>2, <2>1, <2>2, <2>3, <2>4, <2>5 DEF LookupsInv
<1> QED BY <1>3, <1>4, <1>5
-----------------------------------------------------------------------------
(* The seats.                                                              *)

\* A seat's new state x and the pool are well, and the calls are as they were.
LEMMA SeatMoves ==
    ASSUME LookupsInv, NEW s \in Seats, pc = "round", NEW x \in SeatType,
           seat' = [seat EXCEPT ![s] = x],
           seat[s].at # "waiting" \/ (\A f \in ToSet(seat[s].turnOf) : StateOf(f) \in Over),
           UNCHANGED <<ext, pc, todo, futs, cache, limited, noconn, told, notices>>,
           pool \subseteq pool', PoolOK(futs, pool'), SeatOK(ext, pc, futs, x, pool')
    PROVE  LookupsInv'
<1>1. CallsType /\ SeatsType /\ EngineType /\ ClosedType /\ CacheOK(futs, cache)
      /\ AwaitedOK(pc, futs, seat) /\ ToldOK(pc, Closings, told, notices)
  BY DEF LookupsInv
<1>2. CallsType' /\ EngineType' /\ ClosedType' /\ Closings' = Closings
  BY <1>1 DEF CallsType, EngineType, ClosedType, Closings, ClosingsOf
<1>3. /\ SeatsType' /\ seat'[s] = x
      /\ \A r \in Seats : r # s => seat'[r] = seat[r]
  BY <1>1 DEF SeatsType
<1>4. AwaitedOK(pc, futs, seat')
  <2> SUFFICES ASSUME NEW k \in Keys, NEW n \in DOMAIN futs[k], futs[k][n] \notin Over
               PROVE  Awaited(seat', k, n)
    BY DEF AwaitedOK
  <2>1. PICK r \in Seats : seat[r].at = "waiting" /\ <<k, n>> \in ToSet(seat[r].turnOf)
    BY <1>1 DEF AwaitedOK, Awaited
  <2>2. r # s BY <2>1 DEF StateOf
  <2> QED BY <1>3, <2>1, <2>2 DEF Awaited
<1>5. \A r \in Seats : SeatOK(ext, pc, futs, seat[r], pool')
  BY DEF LookupsInv, SeatOK
<1>6. \A r \in Seats : SeatOK(ext, pc, futs, seat'[r], pool') BY <1>3, <1>5
<1> QED BY <1>1, <1>2, <1>3, <1>4, <1>6 DEF LookupsInv

\* A seat that is through has shared what it has.
LEMMA Shared ==
    ASSUME LookupsInv, NEW s \in Seats, pc = "round", Finishes(s),
           seat[s].at # "waiting" \/ (\A f \in ToSet(seat[s].turnOf) : StateOf(f) \in Over),
           UNCHANGED <<ext, pc, todo, futs, cache, limited, noconn, told, notices>>
    PROVE  LookupsInv'
<1> DEFINE x == [seat[s] EXCEPT !.at = "done", !.turnOf = <<>>]
<1>1. seat \in [Seats -> SeatType] /\ seat[s] \in SeatType /\ PoolOK(futs, pool)
      /\ SeatOK(ext, pc, futs, seat[s], pool)
  BY DEF LookupsInv, SeatsType
<1>2. seat' = [seat EXCEPT ![s] = x] BY DEF Finishes
<1>3. <<>> \in Seq(Fut) /\ ToSet(<<>>) = {} BY DEF ToSet
<1>4. x \in SeatType /\ x.have = seat[s].have /\ x.turnOf = <<>> /\ x.used = seat[s].used
  BY <1>1, <1>3 DEF SeatType
<1> HIDE DEF x
<1>5. pool' = pool \cup {f \in ToSet(seat[s].have) : StateOf(f) = "ok"}
  BY DEF Finishes, Shares
<1>6. PoolOK(futs, pool') BY <1>1, <1>5 DEF PoolOK, SeatOK, Ok, StateOf
<1>7. SeatOK(ext, pc, futs, x, pool')
  BY <1>1, <1>3, <1>4, <1>5 DEF SeatOK, Ok, StateOf
<1> QED BY <1>2, <1>4, <1>5, <1>6, <1>7, SeatMoves

\* A prefix has elements of the whole.
LEMMA FirstAre ==
    ASSUME NEW S, NEW q \in Seq(S)
    PROVE  FirstOf(q) \in Seq(S) /\ ToSet(FirstOf(q)) \subseteq ToSet(q)
<1> DEFINE m == IF Len(q) < Budget THEN Len(q) ELSE Budget
           z == SubSeq(q, 1, m)
<1>1. Len(q) \in Nat /\ DOMAIN q = 1..Len(q) BY LenProperties
<1>2. m \in 0..Len(q) BY <1>1, LookupsAssumption
<1> HIDE DEF m
<1>3. z \in Seq(S) /\ Len(z) = m /\ \A i \in 1..m : z[i] = q[i]
  BY <1>1, <1>2
<1>4. DOMAIN z = 1..m BY <1>3, LenProperties
<1> HIDE DEF z
<1>5. ToSet(z) \subseteq ToSet(q)
  <2>1. \A i \in 1..m : i \in 1..Len(q) BY <1>1, <1>2
  <2> QED BY <1>1, <1>3, <1>4, <2>1 DEF ToSet
<1> QED BY <1>3, <1>5 DEF z, m, FirstOf

LEMMA AnswerSteps ==
    ASSUME LookupsInv, NEW s \in Seats,
           Unread(s) \/ Summary(s) \/ BreaksOff(s) \/ Received(s) \/ TurnLost(s)
    PROVE  LookupsInv'
<1>0. seat \in [Seats -> SeatType] /\ seat[s] \in SeatType /\ PoolOK(futs, pool)
      /\ SeatOK(ext, pc, futs, seat[s], pool)
  BY DEF LookupsInv, SeatsType
<1>1. CASE Unread(s)
  <2> DEFINE x == [seat[s] EXCEPT !.turn = @ + 1]
  <2>1. /\ pc = "round" /\ seat[s].at = "asking" /\ seat' = [seat EXCEPT ![s] = x]
        /\ UNCHANGED <<ext, pc, todo, futs, cache, limited, noconn, told, notices, pool>>
    BY <1>1 DEF Unread, lookVars
  <2>2. x \in SeatType /\ x.at = seat[s].at /\ x.have = seat[s].have
        /\ x.turnOf = seat[s].turnOf /\ x.used = seat[s].used
    <3>1. seat[s].turn \in Nat BY <1>0 DEF SeatType
    <3>2. seat[s].turn + 1 \in Nat BY <3>1
    <3> DEFINE y == seat[s].turn + 1
    <3>3. x = [seat[s] EXCEPT !.turn = y] OBVIOUS
    <3> HIDE DEF x, y
    <3>4. y \in Nat BY <3>2 DEF y
    <3> QED BY <1>0, <3>3, <3>4 DEF SeatType
  <2> HIDE DEF x
  <2>3. SeatOK(ext, pc, futs, x, pool) BY <1>0, <2>2 DEF SeatOK
  <2> QED BY <1>0, <2>1, <2>2, <2>3, SeatMoves
<1>2. CASE Summary(s) \/ BreaksOff(s)
  <2>1. /\ pc = "round" /\ seat[s].at = "asking" /\ Finishes(s)
        /\ UNCHANGED <<ext, pc, todo, futs, cache, limited, noconn, told, notices>>
    BY <1>2 DEF Summary, BreaksOff, lookVars
  <2> QED BY <2>1, Shared
<1>3. CASE TurnLost(s)
  <2>1. /\ pc = "round" /\ Finishes(s)
        /\ \A f \in ToSet(seat[s].turnOf) : StateOf(f) \in Over
        /\ UNCHANGED <<ext, pc, todo, futs, cache, limited, noconn, told, notices>>
    BY <1>3 DEF TurnLost, AllHere, lookVars
  <2> QED BY <2>1, Shared
<1>4. CASE Received(s)
  <2> DEFINE h == FirstOf(seat[s].have \o seat[s].turnOf)
             x == [seat[s] EXCEPT !.at = "asking", !.turnOf = <<>>, !.have = h]
  <2>1. /\ pc = "round"
        /\ \A f \in ToSet(seat[s].turnOf) : StateOf(f) \in Over
        /\ UNCHANGED <<ext, pc, todo, futs, cache, limited, noconn, told, notices, pool>>
    BY <1>4 DEF Received, AllHere, lookVars
  <2>2. seat' = [seat EXCEPT ![s] = x]
    <3>1. seat' = [seat EXCEPT ![s].at = "asking", ![s].turnOf = <<>>, ![s].have = h]
      BY <1>4 DEF Received
    <3> QED BY <1>0, <3>1
  <2>3. seat[s].have \in Seq(Fut) /\ seat[s].turnOf \in Seq(Fut) BY <1>0 DEF SeatType
  <2>4. /\ h \in Seq(Fut) /\ ToSet(h) \subseteq ToSet(seat[s].have) \cup ToSet(seat[s].turnOf)
    <3> DEFINE z == seat[s].have \o seat[s].turnOf
    <3>1. z \in Seq(Fut) /\ ToSet(z) = ToSet(seat[s].have) \cup ToSet(seat[s].turnOf)
      BY <2>3, RangeOfConcat
    <3> HIDE DEF z
    <3>2. FirstOf(z) \in Seq(Fut) /\ ToSet(FirstOf(z)) \subseteq ToSet(z) BY <3>1, FirstAre
    <3> QED BY <3>1, <3>2 DEF z
  <2> HIDE DEF h
  <2>5. <<>> \in Seq(Fut) /\ ToSet(<<>>) = {} BY DEF ToSet
  <2>6. x \in SeatType /\ x.at = "asking" /\ x.have = h /\ x.turnOf = <<>>
        /\ x.used = seat[s].used
    BY <1>0, <2>4, <2>5 DEF SeatType
  <2> HIDE DEF x
  <2>7. SeatOK(ext, pc, futs, x, pool)
    BY <1>0, <2>1, <2>4, <2>5, <2>6 DEF SeatOK, StateOf
  <2> QED BY <1>0, <2>1, <2>2, <2>6, <2>7, SeatMoves
<1> QED BY <1>1, <1>2, <1>3, <1>4

LEMMA ResumeStep == ASSUME LookupsInv, NEW s \in Seats, Resume(s) PROVE LookupsInv'
<1>1. CallsType /\ SeatsType /\ EngineType /\ ClosedType /\ CacheOK(futs, cache)
      /\ AwaitedOK(pc, futs, seat) /\ ToldOK(pc, Closings, told, notices)
      /\ PoolOK(futs, pool) /\ \A r \in Seats : SeatOK(ext, pc, futs, seat[r], pool)
  BY DEF LookupsInv
<1>2. PICK k \in Keys :
        /\ cache' = cache \/ (Forgets(k) /\ cache' = [cache EXCEPT ![k] = 0])
        /\ UNCHANGED <<ext, pc, todo, futs, limited, noconn, told, notices, seat, pool>>
  BY DEF Resume
<1>3. cache' \in [Keys -> Nat] /\ CacheOK(futs, cache')
  <2>1. CASE cache' = cache BY <1>1, <2>1 DEF CallsType
  <2>2. CASE Forgets(k) /\ cache' = [cache EXCEPT ![k] = 0]
    <3>1. futs[k][cache[k]] = "raised" BY <2>2 DEF Forgets, Cached, StateOf
    <3>2. 0 \in Nat /\ cache \in [Keys -> Nat] /\ \A j \in Keys : Len(futs[j]) \in Nat
      BY <1>1 DEF CallsType
    <3>3. cache' \in [Keys -> Nat] /\ cache'[k] = 0 /\ \A j \in Keys : j # k => cache'[j] = cache[j]
      BY <2>2, <3>2
    <3>4. \A j \in Keys : cache'[j] <= Len(futs[j])
      BY <1>1, <3>2, <3>3 DEF CacheOK
    <3>5. \A j \in Keys : \A n \in DOMAIN futs[j] : futs[j][n] # "raised" => n = cache'[j]
      BY <1>1, <3>1, <3>3 DEF CacheOK
    <3> QED BY <3>3, <3>4, <3>5 DEF CacheOK
  <2> QED BY <1>2, <2>1, <2>2
<1>4. CallsType' /\ SeatsType' /\ EngineType' /\ ClosedType' /\ Closings' = Closings
  BY <1>1, <1>2, <1>3
  DEF CallsType, SeatsType, EngineType, ClosedType, Closings, ClosingsOf
<1> QED BY <1>1, <1>2, <1>3, <1>4 DEF LookupsInv

LEMMA TurnsAre ==
    ASSUME NEW q \in SetToAllKPermutations(Keys)
    PROVE  q \in Seq(Keys) /\ DOMAIN q = 1..Len(q) /\ Len(q) \in Nat
<1>1. PICK S \in SUBSET Keys : q \in SetToSeqs(S) BY DEF SetToAllKPermutations
<1>2. q \in [1..Cardinality(S) -> S] BY <1>1 DEF SetToSeqs
<1>3. Cardinality(S) \in Nat BY FS_Subset, FS_CardinalityType, LookupsAssumption
<1>4. q \in Seq(S) BY <1>2, <1>3
<1>5. q \in Seq(Keys) BY <1>4
<1>6. DOMAIN q = 1..Len(q) /\ Len(q) \in Nat BY <1>5, LenProperties
<1> QED BY <1>5, <1>6

LEMMA Appended ==
    ASSUME NEW S, NEW q \in Seq(S), NEW v \in S
    PROVE  /\ Append(q, v) \in Seq(S) /\ Len(q) \in Nat /\ Len(Append(q, v)) = Len(q) + 1
           /\ DOMAIN q = 1..Len(q) /\ DOMAIN Append(q, v) = 1..Len(q) + 1
           /\ \A i \in 1..Len(q) : Append(q, v)[i] = q[i]
           /\ Append(q, v)[Len(q) + 1] = v
BY AppendProperties, LenProperties

\* The calls that a turn makes, and what it awaits.
LEMMA CallsMade ==
    ASSUME CallsType, CacheOK(futs, cache), NEW s \in Seats, NEW q \in Seq(Keys), Starts(s, q)
    PROVE  /\ CallsType' /\ Later(futs, futs') /\ CacheOK(futs', cache')
           /\ \A k \in ToSet(q) : k \in Keys /\ IsCall(futs', <<k, FutOf(k)>>)
           /\ \A k \in Keys : \A n \in DOMAIN futs'[k] :
                 \/ n \in DOMAIN futs[k] /\ futs'[k][n] = futs[k][n]
                 \/ k \in ToSet(q) /\ n = FutOf(k) /\ futs'[k][n] = "queued"
<1> DEFINE N == Made(q)
<1>0. N = {k \in ToSet(q) : cache[k] = 0} BY DEF Made, Kept
<1>1. /\ futs' = [k \in Keys |-> IF k \in N THEN Append(futs[k], "queued") ELSE futs[k]]
      /\ cache' = [k \in Keys |-> IF k \in N THEN Len(futs[k]) + 1 ELSE cache[k]]
  BY DEF Starts
<1> HIDE DEF N
<1>2. futs \in [Keys -> Seq(States)] /\ cache \in [Keys -> Nat] BY DEF CallsType
<1>3. \A k \in Keys : futs[k] \in Seq(States) /\ cache[k] \in Nat /\ Len(futs[k]) \in Nat
                      /\ DOMAIN futs[k] = 1..Len(futs[k]) /\ cache[k] <= Len(futs[k])
  BY <1>2, LenProperties DEF CacheOK
<1>4. ToSet(q) \subseteq Keys
  <2>1. q \in [1..Len(q) -> Keys] /\ DOMAIN q = 1..Len(q) BY LenProperties
  <2> QED BY <2>1 DEF ToSet
<1>5. ASSUME NEW k \in Keys, k \in N
      PROVE  /\ futs'[k] \in Seq(States) /\ cache'[k] = Len(futs[k]) + 1 /\ FutOf(k) = Len(futs[k]) + 1
             /\ DOMAIN futs'[k] = 1..Len(futs[k]) + 1 /\ Len(futs'[k]) = Len(futs[k]) + 1
             /\ \A i \in 1..Len(futs[k]) : futs'[k][i] = futs[k][i] /\ futs[k][i] = "raised"
             /\ k \in ToSet(q) /\ futs'[k][Len(futs[k]) + 1] = "queued"
  <2>1. futs'[k] = Append(futs[k], "queued") /\ cache'[k] = Len(futs[k]) + 1 BY <1>1, <1>5
  <2>2. "queued" \in States BY DEF States
  <2>3. cache[k] = 0 /\ k \in ToSet(q) BY <1>0, <1>5
  <2>4. FutOf(k) = Len(futs[k]) + 1 BY <2>3 DEF FutOf, Kept
  <2>5. \A i \in 1..Len(futs[k]) : futs[k][i] = "raised"
    BY <1>3, <2>3 DEF CacheOK
  <2> QED BY <1>3, <2>1, <2>2, <2>3, <2>4, <2>5, Appended
<1>6. \A k \in Keys : k \notin N => futs'[k] = futs[k] /\ cache'[k] = cache[k]
  BY <1>1
<1>7. CallsType'
  <2>1. \A k \in Keys : futs'[k] \in Seq(States) /\ cache'[k] \in Nat BY <1>3, <1>5, <1>6
  <2>2. futs' = [k \in Keys |-> futs'[k]] /\ cache' = [k \in Keys |-> cache'[k]] BY <1>1
  <2> QED BY <2>1, <2>2 DEF CallsType
<1>8. Later(futs, futs')
  <2> SUFFICES ASSUME NEW k \in Keys, NEW n \in DOMAIN futs[k]
               PROVE  n \in DOMAIN futs'[k] /\ futs'[k][n] = futs[k][n]
    BY DEF Later
  <2>1. CASE k \in N
    <3>1. n \in 1..Len(futs[k]) /\ n \in 1..Len(futs[k]) + 1 BY <1>3
    <3> QED BY <1>5, <2>1, <3>1
  <2> QED BY <1>6, <2>1
<1>9. CacheOK(futs', cache')
  <2> SUFFICES ASSUME NEW k \in Keys
               PROVE  /\ cache'[k] <= Len(futs'[k])
                      /\ \A n \in DOMAIN futs'[k] : futs'[k][n] # "raised" => n = cache'[k]
    BY DEF CacheOK
  <2>1. CASE k \in N
    <3>1. \A n \in 1..Len(futs[k]) + 1 : n \in 1..Len(futs[k]) \/ n = Len(futs[k]) + 1
      BY <1>3
    <3>2. /\ cache'[k] = Len(futs[k]) + 1 /\ Len(futs'[k]) = Len(futs[k]) + 1
          /\ DOMAIN futs'[k] = 1..Len(futs[k]) + 1
          /\ \A i \in 1..Len(futs[k]) : futs'[k][i] = "raised"
      BY <1>5, <2>1
    <3>3. \A n \in DOMAIN futs'[k] : futs'[k][n] # "raised" => n = cache'[k]
      BY <3>1, <3>2
    <3>4. cache'[k] <= Len(futs'[k]) BY <1>3, <3>2
    <3> QED BY <3>3, <3>4
  <2>2. CASE k \notin N
    <3>1. futs'[k] = futs[k] /\ cache'[k] = cache[k] BY <1>6, <2>2
    <3> QED BY <3>1 DEF CacheOK
  <2> QED BY <2>1, <2>2
<1>10. ASSUME NEW k \in ToSet(q) PROVE k \in Keys /\ IsCall(futs', <<k, FutOf(k)>>)
  <2>1. k \in Keys BY <1>4
  <2>2. CASE k \in N
    <3>1. Len(futs[k]) + 1 \in 1..Len(futs[k]) + 1 BY <1>3, <2>1
    <3> QED BY <1>5, <2>1, <2>2, <3>1 DEF IsCall, Fut
  <2>3. CASE k \notin N
    <3>1. cache[k] # 0 BY <1>0, <2>3
    <3>2. FutOf(k) = cache[k] BY <3>1 DEF FutOf, Kept
    <3>3. cache[k] \in 1..Len(futs[k]) /\ cache[k] \in Nat BY <1>3, <2>1, <3>1
    <3> QED BY <1>3, <1>6, <2>1, <2>3, <3>2, <3>3 DEF IsCall, Fut
  <2> QED BY <2>2, <2>3
<1>11. ASSUME NEW k \in Keys, NEW n \in DOMAIN futs'[k]
       PROVE  \/ n \in DOMAIN futs[k] /\ futs'[k][n] = futs[k][n]
              \/ k \in ToSet(q) /\ n = FutOf(k) /\ futs'[k][n] = "queued"
  <2>1. CASE k \in N
    <3>1. \A i \in 1..Len(futs[k]) + 1 : i \in 1..Len(futs[k]) \/ i = Len(futs[k]) + 1
      BY <1>3
    <3> QED BY <1>3, <1>5, <2>1, <3>1
  <2> QED BY <1>6, <2>1
<1> QED BY <1>7, <1>8, <1>9, <1>10, <1>11

LEMMA AskStep == ASSUME LookupsInv, NEW s \in Seats, Ask(s) PROVE LookupsInv'
<1>1. CallsType /\ SeatsType /\ EngineType /\ ClosedType /\ CacheOK(futs, cache)
      /\ AwaitedOK(pc, futs, seat) /\ ToldOK(pc, Closings, told, notices)
      /\ PoolOK(futs, pool) /\ \A r \in Seats : SeatOK(ext, pc, futs, seat[r], pool)
  BY DEF LookupsInv
<1>2. PICK q \in SetToAllKPermutations(Keys) :
        /\ pc = "round" /\ seat[s].at = "asking" /\ (ext => Fits(s, q)) /\ Starts(s, q)
        /\ UNCHANGED <<ext, pc, todo, limited, noconn, told, notices, pool>>
  BY DEF Ask, Starts
<1>3. q \in Seq(Keys) /\ DOMAIN q = 1..Len(q) /\ Len(q) \in Nat BY <1>2, TurnsAre
<1>4. /\ CallsType' /\ Later(futs, futs') /\ CacheOK(futs', cache')
      /\ \A k \in ToSet(q) : k \in Keys /\ IsCall(futs', <<k, FutOf(k)>>)
      /\ \A k \in Keys : \A n \in DOMAIN futs'[k] :
            \/ n \in DOMAIN futs[k] /\ futs'[k][n] = futs[k][n]
            \/ k \in ToSet(q) /\ n = FutOf(k)
  BY <1>1, <1>2, <1>3, CallsMade
<1> DEFINE t == [i \in DOMAIN q |-> <<q[i], FutOf(q[i])>>]
           u == IF ext THEN seat[s].used + Len(q) ELSE seat[s].used
           v == seat[s].turn + 1
           x == [seat[s] EXCEPT !.at = "waiting", !.turn = v, !.used = u, !.turnOf = t]
<1>5. seat \in [Seats -> SeatType] /\ seat[s] \in SeatType /\ ext \in BOOLEAN
  BY <1>1 DEF SeatsType, EngineType
<1>6. seat' = [seat EXCEPT ![s] = x] BY <1>2, <1>5 DEF Starts
<1>7. t \in Seq(Fut) /\ ToSet(t) = {<<k, FutOf(k)>> : k \in ToSet(q)}
  <2>1. \A i \in DOMAIN q : t[i] \in Fut
    <3>1. \A i \in DOMAIN q : q[i] \in ToSet(q) BY DEF ToSet
    <3> QED BY <1>4, <3>1 DEF IsCall
  <2>2. DOMAIN t = DOMAIN q /\ \A i \in DOMAIN q : t[i] = <<q[i], FutOf(q[i])>> OBVIOUS
  <2>3. t = [i \in 1..Len(q) |-> t[i]] BY <1>3
  <2> HIDE DEF t
  <2>4. t \in [1..Len(q) -> Fut] BY <1>3, <2>1, <2>3
  <2>5. t \in Seq(Fut) BY <1>3, <2>4
  <2>6. ToSet(t) = {<<k, FutOf(k)>> : k \in ToSet(q)} BY <2>2 DEF ToSet
  <2> QED BY <2>5, <2>6
<1> HIDE DEF t
<1>8. u \in Nat /\ v \in Nat /\ (ext => u <= Budget)
  <2>1. seat[s].used \in Nat /\ seat[s].turn \in Nat BY <1>5 DEF SeatType
  <2> QED BY <1>2, <1>3, <2>1 DEF Fits
<1> HIDE DEF u, v
<1>9. x \in SeatType /\ x.at = "waiting" /\ x.used = u /\ x.turnOf = t /\ x.have = seat[s].have
  BY <1>5, <1>7, <1>8 DEF SeatType
<1> HIDE DEF x
<1>10. /\ SeatsType' /\ seat'[s] = x /\ \A r \in Seats : r # s => seat'[r] = seat[r]
  BY <1>5, <1>6, <1>9 DEF SeatsType
<1>11. AwaitedOK(pc, futs', seat')
  <2> SUFFICES ASSUME NEW k \in Keys, NEW n \in DOMAIN futs'[k], futs'[k][n] \notin Over
               PROVE  Awaited(seat', k, n)
    BY <1>2 DEF AwaitedOK
  <2>1. CASE k \in ToSet(q) /\ n = FutOf(k)
    BY <1>7, <1>9, <1>10, <2>1 DEF Awaited
  <2>2. CASE n \in DOMAIN futs[k] /\ futs'[k][n] = futs[k][n]
    <3>1. PICK r \in Seats : seat[r].at = "waiting" /\ <<k, n>> \in ToSet(seat[r].turnOf)
      BY <1>1, <1>2, <2>2 DEF AwaitedOK, Awaited
    <3>2. r # s BY <1>2, <3>1
    <3> QED BY <1>10, <3>1, <3>2 DEF Awaited
  <2> QED BY <1>4, <2>1, <2>2
<1>12. \A r \in Seats : SeatOK(ext, pc, futs', seat[r], pool) BY <1>1, <1>4, LaterKeeps
<1>13. SeatOK(ext, pc, futs', x, pool)
  <2>1. SeatOK(ext, pc, futs', seat[s], pool) BY <1>12
  <2>2. \A f \in ToSet(t) : IsCall(futs', f) BY <1>4, <1>7
  <2> QED BY <1>8, <1>9, <2>1, <2>2 DEF SeatOK
<1>14. \A r \in Seats : SeatOK(ext, pc, futs', seat'[r], pool) BY <1>10, <1>12, <1>13
<1>15. PoolOK(futs', pool) BY <1>1, <1>4, LaterPool
<1>16. EngineType' /\ ClosedType' /\ Closings' = Closings
  BY <1>1, <1>2 DEF EngineType, ClosedType, Closings, ClosingsOf
<1> QED BY <1>1, <1>2, <1>4, <1>10, <1>11, <1>14, <1>15, <1>16 DEF LookupsInv

-----------------------------------------------------------------------------
(* The invariant, and what follows.                                        *)

LEMMA LookupsInit == Init => LookupsInv
<1> SUFFICES ASSUME Init PROVE LookupsInv OBVIOUS
<1>1. futs = [k \in Keys |-> <<>>] /\ cache = [k \in Keys |-> 0] /\ limited = {} /\ noconn = {}
      /\ told = {} /\ notices = <<>> /\ seat = [s \in Seats |-> Idle] /\ pool = {}
      /\ ext \in BOOLEAN /\ pc \in {"between", "designated"}
      /\ todo = [keys |-> Designated, tries |-> 0]
  BY DEF Init
<1>2. <<>> \in Seq(States) /\ DOMAIN <<>> = {} /\ Len(<<>>) = 0 /\ 0 \in Nat
      /\ <<>> \in Seq(Code \X Backends) /\ ToSet(<<>>) = {} /\ IsInjective(<<>>)
  <2>1. <<>> \in Seq(States) /\ Len(<<>>) = 0 /\ 0 \in Nat /\ <<>> \in Seq(Code \X Backends)
    OBVIOUS
  <2>2. DOMAIN <<>> = {} OBVIOUS
  <2> QED BY <2>1, <2>2 DEF ToSet, IsInjective
<1>3. CallsType /\ CacheOK(futs, cache)
  <2>1. CallsType BY <1>1, <1>2 DEF CallsType
  <2>2. \A k \in Keys : DOMAIN futs[k] = {} /\ Len(futs[k]) = 0 /\ cache[k] = 0 BY <1>1, <1>2
  <2>3. \A k \in Keys : cache[k] <= Len(futs[k]) BY <2>2
  <2>4. \A k \in Keys : \A n \in DOMAIN futs[k] : futs[k][n] # "raised" => n = cache[k]
    BY <2>2
  <2> QED BY <2>1, <2>3, <2>4 DEF CacheOK
<1>4. SeatsType /\ \A s \in Seats : SeatOK(ext, pc, futs, seat[s], pool)
  BY <1>1, EmptySeat DEF SeatsType
<1>5. EngineType
  <2>1. todo \in [keys : Seq(Keys), tries : 0..1] BY <1>1, LookupsAssumption
  <2> QED BY <1>1, <2>1 DEF EngineType
<1>6. ClosedType /\ Closings = {}
  <2>1. IsFiniteSet({}) BY FS_EmptySet
  <2> QED BY <1>1, <2>1 DEF ClosedType, Closings, ClosingsOf
<1>7. AwaitedOK(pc, futs, seat)
  BY <1>1, <1>2, EmptySeat DEF AwaitedOK
<1>8. PoolOK(futs, pool) BY <1>1 DEF PoolOK
<1>9. ToldOK(pc, Closings, told, notices) BY <1>1, <1>2, <1>6 DEF ToldOK
<1> QED BY <1>3, <1>4, <1>5, <1>6, <1>7, <1>8, <1>9 DEF LookupsInv

LEMMA LookupsSame == ASSUME LookupsInv, UNCHANGED vars PROVE LookupsInv'
BY DEF LookupsInv, vars, lookVars, CallsType, SeatsType, EngineType, ClosedType, CacheOK,
       AwaitedOK, Awaited, SeatOK, PoolOK, ToldOK, IsCall, Ok, Closings, ClosingsOf

\* In every reachable state of the lookups, for any seats, tools, backends and
\* budgets: a call that has not raised is the one in the cache (_wrap_cached),
\* one under way is awaited until the deliberation is over, what a seat has is
\* over and what is shared was answered, and every closing of a backend
\* (_ConnGate) that counts as told was sent once.
THEOREM LookupsInvariant == Spec => []LookupsInv
<1>1. Init => LookupsInv BY LookupsInit
<1>2. LookupsInv /\ [Next]_vars => LookupsInv'
  <2> SUFFICES ASSUME LookupsInv, [Next]_vars PROVE LookupsInv' OBVIOUS
  <2>1. CASE SkipTool \/ CallTool BY <2>1, ToolSteps
  <2>2. CASE StartRound \/ EndRound \/ Leave BY <2>2, RoundSteps
  <2>3. CASE \E s \in Seats : SeatStep(s)
    <3>1. PICK s \in Seats : SeatStep(s) BY <2>3
    <3>2. CASE Ask(s) BY <3>2, AskStep
    <3>3. CASE Resume(s) BY <3>3, ResumeStep
    <3>4. CASE Unread(s) \/ Summary(s) \/ BreaksOff(s) \/ Received(s) \/ TurnLost(s)
      BY <3>4, AnswerSteps
    <3> QED BY <3>1, <3>2, <3>3, <3>4 DEF SeatStep
  <2>4. CASE \E k \in Keys : CallStep(k) BY <2>4, CallSteps
  <2>5. CASE UNCHANGED vars BY <2>5, LookupsSame
  <2> QED BY <2>1, <2>2, <2>3, <2>4, <2>5 DEF Next, Engine
<1> QED BY <1>1, <1>2, PTL DEF Spec

LEMMA OneCallLives ==
    ASSUME CacheOK(futs, cache) PROVE SharedCall
<1> SUFFICES ASSUME NEW k \in Keys
             PROVE  Cardinality({n \in DOMAIN futs[k] : futs[k][n] # "raised"}) <= 1
  BY DEF SharedCall
<1> DEFINE L == {n \in DOMAIN futs[k] : futs[k][n] # "raised"}
<1>1. L \subseteq {cache[k]} BY DEF CacheOK
<1>2. IsFiniteSet({cache[k]}) /\ Cardinality({cache[k]}) = 1 BY FS_Singleton
<1> HIDE DEF L
<1>3. Cardinality(L) <= Cardinality({cache[k]}) BY <1>1, <1>2, FS_Subset
<1>4. Cardinality(L) <= 1 BY <1>2, <1>3
<1> QED BY <1>4 DEF L

\* However calls, turns, refusals, errors and the cancel interleave: seats that
\* look up the same share one call, so that only one that raised is made again
\* (_wrap_cached); a closing of a backend is told once, by the end of its round
\* (_ConnGate.fresh); and what a seat received is in the evidence that all
\* seats see, never a failure, within the budget of an external seat's calls.
THEOREM LookupsAreSharedAlways == Spec => []LookupsAreShared
<1>1. LookupsInv => LookupsAreShared
  <2> SUFFICES ASSUME LookupsInv PROVE LookupsAreShared OBVIOUS
  <2>1. SharedCall BY OneCallLives DEF LookupsInv
  <2>2. ToldOnce BY DEF LookupsInv, ToldOK, ToldOnce
  <2>3. EvidenceIsKept
    BY DEF LookupsInv, SeatOK, PoolOK, Ok, EvidenceIsKept, StateOf
  <2> QED BY <2>1, <2>2, <2>3 DEF LookupsAreShared
<1> QED BY <1>1, LookupsInvariant, PTL

\* No step but a pass of the gate begins a call.
LEMMA OnlyPassBegins ==
    ASSUME LookupsInv, [Next]_vars, \A k \in Keys : ~Pass(k), NEW b \in Backends
    PROVE  Began(b) = {}
<1> SUFFICES ASSUME NEW k \in Keys, NEW n \in DOMAIN futs'[k],
                    futs'[k][n] = "called", futs[k][n] # "called"
             PROVE  FALSE
  BY DEF Began
<1>1. CallsType /\ CacheOK(futs, cache) BY DEF LookupsInv
<1>2. CASE futs' = futs BY <1>2
<1>3. CASE \E s \in Seats : Ask(s)
  <2>1. PICK s \in Seats, q \in SetToAllKPermutations(Keys) : Starts(s, q) BY <1>3 DEF Ask
  <2>2. q \in Seq(Keys) BY <2>1, TurnsAre
  <2>3. \/ n \in DOMAIN futs[k] /\ futs'[k][n] = futs[k][n]
        \/ futs'[k][n] = "queued"
    BY <1>1, <2>1, <2>2, CallsMade
  <2> QED BY <2>3
<1>4. CASE \E j \in Keys : Return(j) \/ Raise(j)
  <2>0. PICK j \in Keys : Return(j) \/ Raise(j) BY <1>4
  <2>1. PICK m \in DOMAIN futs[j], v \in {"ok", "fail", "raised"} :
           futs' = [futs EXCEPT ![j][m] = v]
    BY <2>0 DEF Return, Raise
  <2>2. futs[j] \in Seq(States) /\ futs \in [Keys -> Seq(States)] BY <1>1 DEF CallsType
  <2>3. futs'[j] = [futs[j] EXCEPT ![m] = v] /\ \A i \in Keys : i # j => futs'[i] = futs[i]
    BY <2>1, <2>2
  <2>4. k = j BY <2>3
  <2>5. DOMAIN futs'[k] = DOMAIN futs[k] BY <2>3, <2>4
  <2>6. futs'[k][n] = v \/ futs'[k][n] = futs[k][n] BY <2>3, <2>4, <2>5
  <2> QED BY <2>6
<1>5. \/ futs' = futs \/ (\E s \in Seats : Ask(s)) \/ (\E j \in Keys : Return(j) \/ Raise(j))
  <2>1. CASE Engine \/ Leave \/ UNCHANGED vars
    BY <2>1 DEF Engine, SkipTool, CallTool, StartRound, EndRound, Leave, vars, lookVars
  <2>2. CASE \E s \in Seats : SeatStep(s)
    BY <2>2 DEF SeatStep, Unread, Summary, BreaksOff, Resume, Received, TurnLost, lookVars
  <2>3. CASE \E j \in Keys : CallStep(j) BY <2>3 DEF CallStep
  <2> QED BY <2>1, <2>2, <2>3 DEF Next
<1> QED BY <1>2, <1>3, <1>4, <1>5

\* However many seats ask at once, a backend has at most AtOnce calls under way
\* when one begins, and none begins, the ones already in line included, once it
\* has refused one of the deliberation (_ConnGate.wrap).
THEOREM GateIsKept == Spec => GateHolds
<1> DEFINE Step == \A b \in Backends : Began(b) # {} =>
                      ~Closed(b) /\ Cardinality(InFlight(b)') <= AtOnce
<1>1. LookupsInv /\ [Next]_vars => Step
  <2> SUFFICES ASSUME LookupsInv, [Next]_vars, NEW b \in Backends, Began(b) # {}
               PROVE  ~Closed(b) /\ Cardinality(InFlight(b)') <= AtOnce
    OBVIOUS
  <2>1. PICK k \in Keys : Pass(k) BY OnlyPassBegins
  <2>2. PICK n \in DOMAIN futs[k] :
          /\ HasPlace(BackendOf[k])
          /\ futs' = [futs EXCEPT ![k][n] = Begins(BackendOf[k])]
    BY <2>1 DEF Pass
  <2>3. futs[k] \in Seq(States) /\ futs \in [Keys -> Seq(States)] BY DEF LookupsInv, CallsType
  <2>4. futs'[k] = [futs[k] EXCEPT ![n] = Begins(BackendOf[k])]
        /\ \A i \in Keys : i # k => futs'[i] = futs[i]
    BY <2>2, <2>3
  <2>5. DOMAIN futs'[k] = DOMAIN futs[k]
        /\ \A m \in DOMAIN futs[k] : futs'[k][m] = Begins(BackendOf[k]) \/ futs'[k][m] = futs[k][m]
    BY <2>4
  <2>6. PICK j \in Keys : BackendOf[j] = b
           /\ \E m \in DOMAIN futs'[j] : futs'[j][m] = "called" /\ futs[j][m] # "called"
    BY DEF Began
  <2>7. j = k BY <2>4, <2>6
  <2>8. Begins(b) = "called" BY <2>5, <2>6, <2>7
  <2>9. ~Closed(b) BY <2>8 DEF Begins
  <2>10. Cardinality(InFlight(b)') <= AtOnce
    <3>1. InFlight(b)' \subseteq InFlight(b) \cup {k} BY <2>4 DEF InFlight
    <3>2. IsFiniteSet(InFlight(b)) BY FS_Subset, LookupsAssumption DEF InFlight
    <3>3. /\ IsFiniteSet(InFlight(b) \cup {k})
          /\ Cardinality(InFlight(b) \cup {k}) \in
               {Cardinality(InFlight(b)), Cardinality(InFlight(b)) + 1}
      BY <3>2, FS_AddElement
    <3>4. /\ Cardinality(InFlight(b)') <= Cardinality(InFlight(b) \cup {k})
          /\ Cardinality(InFlight(b)') \in Nat /\ Cardinality(InFlight(b)) \in Nat
      BY <3>1, <3>2, <3>3, FS_Subset, FS_CardinalityType
    <3>5. Cardinality(InFlight(b)) < AtOnce BY <2>2, <2>6, <2>7 DEF HasPlace
    <3> DEFINE c == Cardinality(InFlight(b))
               d == Cardinality(InFlight(b) \cup {k})
               e == Cardinality(InFlight(b)')
    <3>6. c \in Nat /\ e \in Nat /\ d \in {c, c + 1} /\ e <= d /\ c < AtOnce /\ AtOnce \in Nat
      BY <3>3, <3>4, <3>5, LookupsAssumption
    <3> HIDE DEF c, d, e
    <3>7. e <= AtOnce BY <3>6
    <3> QED BY <3>7 DEF e
  <2> QED BY <2>9, <2>10
<1> QED BY <1>1, LookupsInvariant, PTL DEF Spec, GateHolds
=============================================================================

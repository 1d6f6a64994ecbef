------------------------- MODULE ReviewDrainProofs --------------------------
(***************************************************************************)
(* The drain flag and the gate of the card reviews, for any lifetimes and  *)
(* any number of callers: what a flag promises while it lives, when it is  *)
(* released, and who is admitted beside it.                                *)
(***************************************************************************)
EXTENDS ReviewDrain, TLAPS

-----------------------------------------------------------------------------
(* Types.                                                                  *)

Clock == {None} \cup (0..Horizon)

LEMMA GrownType ==
    ASSUME NEW a \in Clock
    PROVE  /\ Grown(a, Horizon) \in Clock
           /\ Grown(a, Horizon) = None <=> a = None
BY DrainAssumption, NoneAssumption DEF Clock, Grown, Min2

\* What has run longer has run longer a unit later.
LEMMA GrownOrder ==
    ASSUME NEW a \in 0..Horizon, NEW b \in 0..Horizon, a <= b
    PROVE  /\ Grown(a, Horizon) \in 0..Horizon /\ Grown(b, Horizon) \in 0..Horizon
           /\ Grown(a, Horizon) <= Grown(b, Horizon)
           /\ Grown(a, Horizon) # None
BY DrainAssumption, NoneAssumption DEF Grown, Min2

\* A read keeps everything of a flag but its idle clock.
LEMMA ReadType ==
    ASSUME NEW st \in Flags, memory \in Clock
    PROVE  /\ Read(st) \in Flags /\ Read(st) # None
           /\ Read(st).scope = st.scope /\ Read(st).by = st.by
           /\ Read(st).hold = st.hold /\ Read(st).ttl = st.ttl
           /\ Read(st).ui = None <=> st.ui = None
           /\ st.ui # None => /\ Read(st).ui \in IdleClocks
                              /\ Read(st).ui.grace = st.ui.grace
                              /\ Read(st).ui.left = st.ui.left
           /\ ~Judges(st) => Read(st) = st
           /\ Judges(st) => Read(st).ui.idle = IdleClock(st)
<1>1. CASE ~Judges(st)
  BY <1>1, NoneAssumption DEF Read, Flags
<1>2. CASE Judges(st)
  <2>1. st.ui # None /\ st.ui \in IdleClocks
    BY <1>2 DEF Judges, Flags
  <2>2. IdleClock(st) \in Clock
    BY <2>1, DrainAssumption DEF IdleClock, IdleClocks, Clock
  <2>3. [st.ui EXCEPT !.idle = IdleClock(st)] \in IdleClocks
    BY <2>1, <2>2 DEF IdleClocks, Clock
  <2>4. Read(st) = [st EXCEPT !.ui = [st.ui EXCEPT !.idle = IdleClock(st)]]
    BY <1>2 DEF Read
  <2>5. [st EXCEPT !.ui = [st.ui EXCEPT !.idle = IdleClock(st)]] \in Flags
    BY <2>3 DEF Flags
  <2>6. Read(st).ui = [st.ui EXCEPT !.idle = IdleClock(st)]
    BY <2>4 DEF Flags
  <2>7. Read(st) \in Flags /\ Read(st) # None
    BY <2>4, <2>5, NoneAssumption
  <2>8. /\ Read(st).scope = st.scope /\ Read(st).by = st.by
        /\ Read(st).hold = st.hold /\ Read(st).ttl = st.ttl
    BY <2>4 DEF Flags
  <2>9. /\ Read(st).ui \in IdleClocks /\ Read(st).ui # None
        /\ Read(st).ui.grace = st.ui.grace /\ Read(st).ui.left = st.ui.left
        /\ Read(st).ui.idle = IdleClock(st)
    BY <2>1, <2>3, <2>6, NoneAssumption DEF IdleClocks
  <2>10. QED BY <1>2, <2>1, <2>7, <2>8, <2>9
<1>3. QED BY <1>1, <1>2

\* What set_on starts from: the new scope and owner over the lifetimes of cur.
Base(cur, r) ==
    [scope |-> r.scope, by |-> r.by,
     hold |-> r.hold \/ (cur # None /\ cur.hold),
     ttl |-> IF cur = None THEN None ELSE cur.ttl,
     ui |-> IF cur = None THEN None ELSE cur.ui]

LEMMA RequestType ==
    ASSUME NEW r \in Requests
    PROVE  /\ r.scope \in Scopes /\ r.by \in Callers /\ r.hold \in BOOLEAN
           /\ r.ttl = None \/ r.ttl \in 1..Horizon
           /\ r.ui = None \/ (r.ui \in Idles /\ r.ui[2] \in 1..Horizon /\ r.ui[1] \in 1..r.ui[2])
           /\ r.ttl = None \/ r.ui = None
           /\ r.ttl # None /\ ~r.hold => r.ttl <= TtlMax
           /\ r.ttl = None /\ r.ui = None => r.hold
BY DrainAssumption DEF Requests

LEMMA NewTtlType ==
    ASSUME NEW st \in Flags, NEW r \in Requests
    PROVE  /\ NewTtl(st, r) \in {None} \cup TtlClocks
           /\ r.ttl # None => NewTtl(st, r) # None
<1>1. st.ttl \in {None} \cup TtlClocks
  BY DEF Flags
<1>2. CASE r.ttl = None
  BY <1>1, <1>2 DEF NewTtl
<1>3. CASE r.ttl # None
  <2>1. r.ttl \in 1..Horizon
    BY <1>3, RequestType
  <2>2. TtlAlive(st) => st.ttl.left \in 0..Horizon
    BY <1>1 DEF TtlAlive, TtlClocks
  <2>3. NewTtl(st, r) \in TtlClocks
    BY <1>3, <2>1, <2>2, DrainAssumption DEF NewTtl, TtlClocks, Max2
  <2>4. QED BY <2>3, NoneAssumption
<1>4. QED BY <1>2, <1>3

\* The idle clock of a flag goes on under a request, and no other begins.
LEMMA NewIdleType ==
    ASSUME NEW st \in Flags, NEW r \in Requests
    PROVE  /\ NewIdle(st, r) \in {None} \cup IdleClocks
           /\ r.ui # None => NewIdle(st, r) # None
           /\ NewIdle(st, r) # None /\ NewIdle(st, r).idle # None => st.ui # None
           /\ st.ui # None => /\ NewIdle(st, r) # None
                              /\ NewIdle(st, r).idle = st.ui.idle
                              /\ NewIdle(st, r).grace >= st.ui.grace
                              /\ NewIdle(st, r).left >= st.ui.left
<1>1. st.ui \in {None} \cup IdleClocks
  BY DEF Flags
<1>2. CASE r.ui = None
  BY <1>1, <1>2 DEF NewIdle, IdleClocks
<1>3. CASE r.ui # None
  <2>1. r.ui[2] \in 1..Horizon /\ r.ui[1] \in 1..Horizon
    BY <1>3, RequestType, DrainAssumption
  <2>2. CASE st.ui = None
    <3>1. NewIdle(st, r) = [grace |-> r.ui[1], left |-> r.ui[2], idle |-> None]
      BY <1>3, <2>2 DEF NewIdle
    <3>2. NewIdle(st, r) \in IdleClocks /\ NewIdle(st, r).idle = None
      BY <2>1, <3>1, DrainAssumption DEF IdleClocks
    <3>3. QED BY <2>2, <3>2, NoneAssumption
  <2>3. CASE st.ui # None
    <3>1. st.ui \in IdleClocks
      BY <1>1, <2>3
    <3>2. NewIdle(st, r) = [st.ui EXCEPT !.grace = Max2(@, r.ui[1]), !.left = Max2(@, r.ui[2])]
      BY <1>3, <2>3 DEF NewIdle
    <3>3. /\ Max2(st.ui.grace, r.ui[1]) \in 1..Horizon /\ Max2(st.ui.grace, r.ui[1]) >= st.ui.grace
          /\ Max2(st.ui.left, r.ui[2]) \in 0..Horizon /\ Max2(st.ui.left, r.ui[2]) >= st.ui.left
      BY <2>1, <3>1, DrainAssumption DEF IdleClocks, Max2
    <3>4. /\ NewIdle(st, r) \in IdleClocks
          /\ NewIdle(st, r).idle = st.ui.idle
          /\ NewIdle(st, r).grace = Max2(st.ui.grace, r.ui[1])
          /\ NewIdle(st, r).left = Max2(st.ui.left, r.ui[2])
      BY <3>1, <3>2, <3>3 DEF IdleClocks
    <3>5. QED BY <2>3, <3>3, <3>4, NoneAssumption
  <2>4. QED BY <2>2, <2>3
<1>4. QED BY <1>2, <1>3

LEMMA MergedType ==
    ASSUME NEW cur \in {None} \cup Flags, NEW r \in Requests
    PROVE  /\ Merged(cur, r) \in Flags /\ Merged(cur, r) # None
           /\ Merged(cur, r).by = r.by
           /\ Merged(cur, r).hold = Base(cur, r).hold
           /\ r.ttl = None /\ r.ui = None => Merged(cur, r).ttl = None /\ Merged(cur, r).ui = None
           /\ r.ttl # None \/ r.ui # None =>
                /\ Merged(cur, r).ttl = NewTtl(Base(cur, r), r)
                /\ Merged(cur, r).ui = NewIdle(Base(cur, r), r)
           /\ r.ttl # None => Merged(cur, r).ttl # None
           /\ r.ui # None => Merged(cur, r).ui # None
           \* The clock of cur goes on, and no other.
           /\ Merged(cur, r).ui # None /\ Merged(cur, r).ui.idle # None =>
                cur # None /\ cur.ui # None
           /\ Merged(cur, r).ui # None /\ cur # None /\ cur.ui # None =>
                Merged(cur, r).ui.idle = cur.ui.idle
<1> DEFINE st == Base(cur, r)
<1>1. /\ st \in Flags /\ st.by = r.by /\ st.scope = r.scope
      /\ st.hold \in BOOLEAN /\ st.ttl \in {None} \cup TtlClocks /\ st.ui \in {None} \cup IdleClocks
  BY RequestType DEF Base, Flags
<1>2. CASE r.ttl = None /\ r.ui = None
  <2>1. Merged(cur, r) = [st EXCEPT !.ttl = None, !.ui = None]
    BY <1>2 DEF Merged, Base
  <2> HIDE DEF st
  <2>2. QED BY <1>1, <1>2, <2>1, NoneAssumption DEF Flags, st
<1>3. CASE ~(r.ttl = None /\ r.ui = None)
  <2>1. Merged(cur, r) = [st EXCEPT !.ttl = NewTtl(st, r), !.ui = NewIdle(st, r)]
    BY <1>3 DEF Merged, Base
  <2> HIDE DEF st
  <2>2. NewTtl(st, r) \in {None} \cup TtlClocks /\ (r.ttl # None => NewTtl(st, r) # None)
    BY <1>1, NewTtlType
  <2>3. /\ NewIdle(st, r) \in {None} \cup IdleClocks
        /\ r.ui # None => NewIdle(st, r) # None
        /\ NewIdle(st, r) # None /\ NewIdle(st, r).idle # None => st.ui # None
        /\ st.ui # None => NewIdle(st, r) # None /\ NewIdle(st, r).idle = st.ui.idle
    BY <1>1, NewIdleType
  <2>4. Merged(cur, r) \in Flags
    BY <1>1, <2>1, <2>2, <2>3 DEF Flags
  <2>5. /\ Merged(cur, r).by = r.by /\ Merged(cur, r).hold = st.hold
        /\ Merged(cur, r).ttl = NewTtl(st, r) /\ Merged(cur, r).ui = NewIdle(st, r)
    BY <1>1, <2>1 DEF Flags
  <2>6. st.ui # None => cur # None /\ cur.ui # None
    BY DEF st, Base
  <2>7. cur # None => st.ui = cur.ui
    BY DEF st, Base
  <2>8. QED BY <1>3, <2>2, <2>3, <2>4, <2>5, <2>6, <2>7, NoneAssumption DEF st
<1>4. QED BY <1>2, <1>3

-----------------------------------------------------------------------------
(* The inductive invariant.                                                *)

\* The clocks of a flag "until the deliberations are over": the one on file, or
\* the one remembered while it cannot be written, has run at least since this
\* process saw the last of them go, and, unless a stop of it was lost, at most
\* since any read saw one.  Only a clock on file can have lost its stop.
ClockOK(f, m, sn) ==
    /\ f # None /\ f.ui # None =>
          /\ sn.quiet # None =>
                IF f.ui.idle # None THEN f.ui.idle >= sn.quiet
                ELSE m # None /\ m >= sn.quiet
          /\ ~sn.lost => /\ f.ui.idle # None => f.ui.idle <= sn.busy
                         /\ m # None => m <= sn.busy
    /\ sn.lost => f # None /\ f.ui # None /\ f.ui.idle # None

ClockInv == ClockOK(flag, memory, seen)

IInv == TypeOK /\ ClockInv

Seen == [busy : 0..Horizon, quiet : Clock, lost : BOOLEAN]

\* Of a flag that is on file something is a lifetime or a person's hold.
Held(f) == f # None => f.hold \/ f.ttl # None \/ f.ui # None

\* The parts of the invariant that are about the flag and its clocks.
FlagOK == /\ flag \in {None} \cup Flags /\ memory \in Clock /\ seen \in Seen /\ Held(flag)
          /\ ClockInv

RestOK == load \in Loads /\ calls \in [glm : 0..Concurrency, external : 0..MaxInflight]

LEMMA InvParts == IInv <=> FlagOK /\ RestOK
BY DEF IInv, TypeOK, FlagOK, RestOK, Seen, Clock, Held

LEMMA SawType ==
    ASSUME seen \in Seen, NEW f, NEW anew \in BOOLEAN, NEW failed \in BOOLEAN
    PROVE  /\ Saw(f, anew, failed) \in Seen
           /\ Saw(f, anew, failed).busy = (IF Judged /\ Busy THEN 0 ELSE seen.busy)
           /\ anew \/ f = None \/ (Judged /\ Busy) => Saw(f, anew, failed).quiet = None
           /\ ~anew /\ f # None /\ ~(Judged /\ Busy) =>
                Saw(f, anew, failed).quiet =
                   (IF Judged /\ ~Busy /\ seen.quiet = None THEN 0 ELSE seen.quiet)
           /\ Saw(f, anew, failed).lost <=>
                /\ f # None /\ f.ui # None /\ f.ui.idle # None
                /\ seen.lost \/ (Judged /\ Busy /\ failed)
<1>1. seen.busy \in 0..Horizon /\ seen.quiet \in Clock /\ seen.lost \in BOOLEAN
  BY DEF Seen
<1>2. 0 \in 0..Horizon
  BY DrainAssumption
<1>3. QED BY <1>1, <1>2 DEF Saw, Seen, Clock

\* A read leaves the flag, the flag with its clock moved, or none.
LEMMA ReadingCases ==
    ASSUME flag \in {None} \cup Flags, memory \in Clock, seen \in Seen, Reading
    PROVE  \E failed \in BOOLEAN :
             /\ \/ flag' = None
                \/ flag # None /\ flag' = flag /\ (failed \/ Read(flag) = flag)
                \/ flag # None /\ flag' = Read(flag) /\ ~failed
             /\ memory' = MemoryAfter
             /\ seen' = Saw(flag', FALSE, failed)
             /\ flag # None /\ flag' = None => ~Live(flag)
<1>1. PICK written \in BOOLEAN, removed \in BOOLEAN :
        flag' = FileAfter(written, removed) /\ seen' = Saw(flag', FALSE, ~written)
  BY DEF Reading
<1>2. memory' = MemoryAfter
  BY DEF Reading
<1>3. CASE flag = None
  BY <1>1, <1>2, <1>3 DEF FileAfter
<1>4. CASE flag # None
  <2>1. Read(flag) # None /\ flag \in Flags
    BY <1>4, ReadType
  <2>2. CASE ~Live(flag) /\ removed
    BY <1>1, <1>2, <1>4, <2>2 DEF FileAfter
  <2>3. CASE ~(~Live(flag) /\ removed)
    <3>1. flag' = IF written THEN Read(flag) ELSE flag
      BY <1>1, <1>4, <2>3 DEF FileAfter
    <3>2. flag' # None
      BY <1>4, <2>1, <3>1
    <3>3. CASE written
      BY <1>1, <1>2, <1>4, <3>1, <3>2, <3>3
    <3>4. CASE ~written
      BY <1>1, <1>2, <1>4, <3>1, <3>2, <3>4
    <3>5. QED BY <3>3, <3>4
  <2>4. QED BY <2>2, <2>3
<1>5. QED BY <1>3, <1>4

\* What a read makes of a flag f that it keeps, of the memory and of what was
\* seen: a stop that is not written leaves the clock, but lost.
LEMMA ReadClock ==
    ASSUME FlagOK, load \in Loads, flag # None, NEW f, NEW failed \in BOOLEAN,
           (f = flag /\ (failed \/ Read(flag) = flag)) \/ (f = Read(flag) /\ ~failed),
           NEW m, m = MemoryAfter, NEW sn, sn = Saw(f, FALSE, failed)
    PROVE  /\ f \in Flags /\ m \in Clock /\ sn \in Seen /\ Held(f)
           /\ ClockOK(f, m, sn)
<1>1. /\ flag \in Flags /\ memory \in Clock /\ seen \in Seen
      /\ Held(flag) /\ ClockOK(flag, memory, seen)
  BY DEF FlagOK, ClockInv
<1>2. /\ f \in Flags /\ f # None /\ (f.ui = None <=> flag.ui = None)
      /\ f.hold = flag.hold /\ f.ttl = flag.ttl
  BY <1>1, ReadType
<1>3. sn \in Seen /\ Held(f)
  <2>1. sn \in Seen
    BY <1>1, SawType
  <2>2. QED BY <1>1, <1>2, <2>1 DEF Held
<1>4. CASE ~Judged
  <2>1. f = flag /\ m = memory
    BY <1>1, <1>4, ReadType DEF Judged, MemoryAfter
  <2>2. /\ sn.busy = seen.busy /\ sn.quiet = seen.quiet
        /\ sn.lost <=> f # None /\ f.ui # None /\ f.ui.idle # None /\ seen.lost
    BY <1>1, <1>2, <1>4, SawType
  <2>3. ClockOK(f, m, sn)
    BY <1>1, <2>1, <2>2 DEF ClockOK
  <2>4. QED BY <1>1, <1>2, <1>3, <2>1, <2>3
<1>5. CASE Judged
  <2>1. /\ Judges(flag) /\ flag.ui # None /\ flag.ui \in IdleClocks
        /\ Read(flag).ui.idle = IdleClock(flag) /\ Read(flag).ui \in IdleClocks
        /\ m = IdleClock(flag) /\ f.ui \in IdleClocks /\ f.ui # None
    BY <1>1, <1>2, <1>5, ReadType DEF Judged, Judges, MemoryAfter, Flags
  <2>2. /\ flag.ui.idle \in Clock /\ seen.busy \in 0..Horizon /\ seen.quiet \in Clock
        /\ memory \in Clock /\ m \in Clock
    BY <1>1, <2>1 DEF IdleClocks, Clock, Seen
  <2>3. CASE Busy
    <3>1. IdleClock(flag) = None
      BY <2>3 DEF IdleClock
    <3>2. /\ sn.busy = 0 /\ sn.quiet = None
          /\ sn.lost <=> f.ui.idle # None /\ (seen.lost \/ failed)
      BY <1>1, <1>2, <1>5, <2>1, <2>3, SawType
    <3>3. f.ui.idle # None => sn.lost
      BY <2>1, <3>1, <3>2
    <3>4. ClockOK(f, m, sn)
      BY <1>2, <2>1, <3>1, <3>2, <3>3 DEF ClockOK
    <3>5. QED BY <1>2, <1>3, <2>2, <3>4
  <2>4. CASE ~Busy
    <3>1. /\ sn.busy = seen.busy
          /\ sn.quiet = IF seen.quiet = None THEN 0 ELSE seen.quiet
          /\ sn.lost <=> f.ui.idle # None /\ seen.lost
      BY <1>1, <1>2, <1>5, <2>1, <2>4, SawType
    <3>2. IdleClock(flag) = IF flag.ui.idle # None THEN flag.ui.idle
                            ELSE IF memory = None THEN 0 ELSE memory
      BY <2>4 DEF IdleClock
    <3>3. f.ui.idle = IdleClock(flag) \/ (f.ui.idle = None /\ flag.ui.idle = None)
      BY <2>1, <3>2
    <3>4. seen.lost => flag.ui.idle # None
      BY <1>1 DEF ClockOK
    <3>5. IdleClock(flag) \in 0..Horizon /\ IdleClock(flag) # None
      BY <2>2, <3>2, DrainAssumption, NoneAssumption DEF Clock
    <3>6. seen.quiet # None => IdleClock(flag) >= seen.quiet
      BY <1>1, <2>1, <3>2 DEF ClockOK
    <3>7. ~seen.lost => IdleClock(flag) <= seen.busy
      BY <1>1, <2>1, <2>2, <3>2 DEF ClockOK
    <3>8. sn.lost <=> seen.lost
      BY <3>1, <3>3, <3>4, <3>5
    <3>9. sn.quiet # None =>
            /\ m # None /\ m >= sn.quiet
            /\ f.ui.idle # None => f.ui.idle >= sn.quiet
      <4>1. IdleClock(flag) >= 0
        BY <3>5
      <4>2. IdleClock(flag) >= sn.quiet \/ sn.quiet = None
        BY <3>1, <3>6, <4>1
      <4>3. QED BY <2>1, <3>3, <3>5, <4>2
    <3>10. ~sn.lost => m <= sn.busy /\ (f.ui.idle # None => f.ui.idle <= sn.busy)
      BY <2>1, <3>1, <3>3, <3>7, <3>8
    <3>11. sn.lost => f.ui.idle # None
      BY <3>1
    <3>12. ClockOK(f, m, sn)
      BY <1>2, <2>1, <3>9, <3>10, <3>11 DEF ClockOK
    <3>13. QED BY <1>2, <1>3, <2>2, <3>12
  <2>5. QED BY <2>3, <2>4
<1>6. QED BY <1>4, <1>5

LEMMA MemoryType ==
    ASSUME flag \in {None} \cup Flags, memory \in Clock
    PROVE  MemoryAfter \in Clock
<1>1. CASE Judged
  <2>1. flag \in Flags /\ flag.ui # None
    BY <1>1 DEF Judged, Judges
  <2>2. Read(flag).ui \in IdleClocks
    BY <2>1, ReadType
  <2>3. QED BY <1>1, <2>2 DEF MemoryAfter, IdleClocks, Clock
<1>2. CASE ~Judged
  BY <1>2 DEF MemoryAfter
<1>3. QED BY <1>1, <1>2

\* Without a flag only what was seen counts.
LEMMA NoFlagOK ==
    ASSUME flag' = None, memory' \in Clock, seen' \in Seen, ~seen'.lost
    PROVE  FlagOK'
BY DEF FlagOK, ClockInv, ClockOK, Held

LEMMA ReadingKeepsFlag ==
    ASSUME FlagOK, load \in Loads, Reading
    PROVE  FlagOK'
<1>1. flag \in {None} \cup Flags /\ memory \in Clock /\ seen \in Seen
  BY DEF FlagOK
<1>2. PICK failed \in BOOLEAN :
        /\ \/ flag' = None
           \/ flag # None /\ flag' = flag /\ (failed \/ Read(flag) = flag)
           \/ flag # None /\ flag' = Read(flag) /\ ~failed
        /\ memory' = MemoryAfter
        /\ seen' = Saw(flag', FALSE, failed)
  BY <1>1, ReadingCases
<1>3. CASE flag' = None
  <2>1. memory' \in Clock
    BY <1>1, <1>2, MemoryType
  <2>2. seen' \in Seen /\ ~seen'.lost
    BY <1>1, <1>2, <1>3, SawType
  <2>3. QED BY <1>3, <2>1, <2>2, NoFlagOK
<1>4. CASE flag' # None
  <2>1. /\ flag' \in Flags /\ memory' \in Clock /\ seen' \in Seen /\ Held(flag')
        /\ ClockOK(flag', memory', seen')
    BY <1>2, <1>4, ReadClock
  <2>2. QED BY <2>1 DEF FlagOK, ClockInv
<1>5. QED BY <1>3, <1>4

\* What a reader is told is what the file says, with the clock of this moment.
LEMMA ViewType ==
    ASSUME flag \in {None} \cup Flags, memory \in Clock
    PROVE  /\ View \in {None} \cup Flags
           /\ View # None => flag \in Flags /\ flag # None /\ View = Read(flag) /\ Live(flag)
           /\ View = None => flag = None \/ ~Live(flag)
BY ReadType DEF View

LEMMA SetOnKeepsFlag ==
    ASSUME FlagOK, load \in Loads, NEW r \in Requests, SetOn(r)
    PROVE  FlagOK'
<1> DEFINE anew == NewClock(View, r)
<1>1. flag \in {None} \cup Flags /\ memory \in Clock /\ seen \in Seen
  BY DEF FlagOK
<1>2. View \in {None} \cup Flags
  BY <1>1, ViewType
<1>3. /\ flag' = Merged(View, r)
      /\ memory' = IF anew THEN None ELSE MemoryAfter
      /\ seen' = Saw(flag', anew, FALSE)
      /\ anew \in BOOLEAN
  BY DEF SetOn, NewClock
<1>4. flag' \in Flags /\ flag' # None /\ memory' \in Clock /\ seen' \in Seen
  <2>1. flag' \in Flags /\ flag' # None
    BY <1>2, <1>3, MergedType
  <2>2. MemoryAfter \in Clock
    BY <1>1, MemoryType
  <2> HIDE DEF anew
  <2>3. seen' \in Seen
    BY <1>1, <1>3, SawType
  <2>4. QED BY <1>3, <2>1, <2>2, <2>3 DEF Clock
<1>5. Held(flag')
  BY <1>2, <1>3, RequestType, MergedType DEF Held, Base
\* Only the clock of the flag that was living goes on.
<1>6. flag'.ui # None /\ flag'.ui.idle # None =>
        /\ View # None /\ View.ui # None /\ flag'.ui.idle = View.ui.idle
  BY <1>2, <1>3, MergedType
<1>7. ~anew /\ flag'.ui # None => View # None /\ View.ui # None /\ flag'.ui.idle = View.ui.idle
  BY <1>2, <1>3, MergedType DEF NewClock
<1> DEFINE m == MemoryAfter
           sn == Saw(View, FALSE, FALSE)
<1>8. View # None => /\ ClockOK(View, m, sn) /\ m \in Clock /\ sn \in Seen
                     /\ flag # None
  <2>1. View # None => flag # None /\ View = Read(flag)
    BY <1>1, ViewType
  <2>2. QED BY <2>1, ReadClock
<1>9. View # None => /\ seen'.busy = sn.busy
                     /\ ~anew => seen'.quiet = sn.quiet
                     /\ flag'.ui # None /\ flag'.ui.idle # None /\ View.ui # None
                        /\ flag'.ui.idle = View.ui.idle => (seen'.lost <=> sn.lost)
  <2> HIDE DEF anew
  <2>1. seen' = Saw(flag', anew, FALSE) /\ flag' # None /\ anew \in BOOLEAN
    BY <1>3, <1>4
  <2>2. seen'.busy = sn.busy
    <3> DEFINE b == IF Judged /\ Busy THEN 0 ELSE seen.busy
    <3>1. seen'.busy = b
      BY <1>1, <2>1, SawType
    <3>2. sn.busy = b
      BY <1>1, SawType
    <3> HIDE DEF b, sn
    <3>3. QED BY <3>1, <3>2
  <2>3. ASSUME View # None, ~anew
        PROVE  seen'.quiet = sn.quiet
    <3>1. CASE Judged /\ Busy
      <4>1. seen'.quiet = None
        BY <1>1, <2>1, <3>1, SawType
      <4>2. sn.quiet = None
        BY <1>1, <3>1, SawType
      <4>3. QED BY <4>1, <4>2
    <3>2. CASE ~(Judged /\ Busy)
      <4>1. seen'.quiet = IF Judged /\ ~Busy /\ seen.quiet = None THEN 0 ELSE seen.quiet
        BY <1>1, <2>1, <2>3, <3>2, SawType
      <4>2. sn.quiet = IF Judged /\ ~Busy /\ seen.quiet = None THEN 0 ELSE seen.quiet
        BY <1>1, <2>3, <3>2, SawType
      <4>3. QED BY <4>1, <4>2
    <3>3. QED BY <3>1, <3>2
  <2>4. seen'.lost <=> /\ flag'.ui # None /\ flag'.ui.idle # None
                       /\ seen.lost
    BY <1>1, <2>1, SawType
  <2>5. View # None => (sn.lost <=> /\ View.ui # None /\ View.ui.idle # None
                                    /\ seen.lost)
    BY <1>1, SawType
  <2>6. QED BY <2>2, <2>3, <2>4, <2>5
<1> HIDE DEF anew, m, sn
<1>10. ~seen'.lost \/ (flag'.ui # None /\ flag'.ui.idle # None)
  BY <1>1, <1>3, SawType
<1>11. CASE flag'.ui = None
  BY <1>4, <1>5, <1>10, <1>11 DEF FlagOK, ClockInv, ClockOK
<1>12. CASE flag'.ui # None /\ anew
  <2>1. memory' = None /\ seen'.quiet = None
    BY <1>1, <1>3, <1>12, SawType
  <2>2. ~seen'.lost /\ flag'.ui.idle # None => flag'.ui.idle <= seen'.busy
    BY <1>6, <1>8, <1>9, <1>12 DEF ClockOK
  <2>3. ClockOK(flag', memory', seen')
    BY <1>4, <1>10, <1>12, <2>1, <2>2 DEF ClockOK
  <2>4. QED BY <1>4, <1>5, <2>3 DEF FlagOK, ClockInv
<1>13. CASE flag'.ui # None /\ ~anew
  <2>1. /\ View # None /\ View.ui # None /\ flag'.ui.idle = View.ui.idle
        /\ memory' = m /\ seen'.quiet = sn.quiet /\ seen'.busy = sn.busy
    BY <1>3, <1>7, <1>9, <1>13 DEF m
  <2>2. seen'.lost <=> sn.lost
    <3>1. CASE flag'.ui.idle # None
      BY <1>9, <1>13, <2>1, <3>1
    <3>2. CASE flag'.ui.idle = None
      BY <1>8, <1>10, <2>1, <3>2 DEF ClockOK
    <3>3. QED BY <3>1, <3>2
  <2>3. ClockOK(flag', memory', seen')
    BY <1>4, <1>8, <1>13, <2>1, <2>2 DEF ClockOK
  <2>4. QED BY <1>4, <1>5, <2>3 DEF FlagOK, ClockInv
<1>14. QED BY <1>11, <1>12, <1>13

LEMMA SetOffKeepsFlag ==
    ASSUME FlagOK, NEW by, NEW force, SetOff(by, force)
    PROVE  FlagOK'
<1>1. flag \in {None} \cup Flags /\ memory \in Clock /\ seen \in Seen
  BY DEF FlagOK
<1>2. flag' = None /\ memory' = MemoryAfter /\ seen' = Saw(None, FALSE, FALSE)
  BY DEF SetOff
<1>3. memory' \in Clock
  BY <1>1, <1>2, MemoryType
<1>4. seen' \in Seen /\ ~seen'.lost
  BY <1>1, <1>2, SawType
<1>5. QED BY <1>2, <1>3, <1>4, NoFlagOK

\* The clock changes the lifetimes of a flag, and removes none.
LEMMA TickFlag ==
    ASSUME NEW st \in Flags, Tick, flag = st
    PROVE  /\ flag' \in Flags /\ flag' # None
           /\ flag'.by = st.by /\ flag'.hold = st.hold
           /\ st.ttl # None => flag'.ttl # None
           /\ st.ui = None => flag'.ui = None
           /\ st.ui # None => flag'.ui # None /\ flag'.ui.idle = Grown(st.ui.idle, Horizon)
<1> DEFINE ttl == AgedTtl(st.ttl)
           ui == AgedIdle(st.ui)
<1>1. st # None
  BY NoneAssumption
<1>2. flag' = [st EXCEPT !.ttl = ttl, !.ui = ui]
  BY <1>1 DEF Tick
<1>3. ttl \in {None} \cup TtlClocks /\ (st.ttl # None => ttl # None)
  <2>1. CASE st.ttl = None
    BY <2>1 DEF AgedTtl
  <2>2. CASE st.ttl # None
    <3>1. st.ttl \in TtlClocks
      BY <2>2 DEF Flags
    <3>2. Max2(st.ttl.left - 1, 0) \in 0..Horizon /\ Min2(st.ttl.age + 1, TtlMax) \in 0..TtlMax
      BY <3>1, DrainAssumption DEF TtlClocks, Max2, Min2
    <3>3. ttl \in TtlClocks
      BY <2>2, <3>2 DEF TtlClocks, AgedTtl
    <3>4. QED BY <3>3, NoneAssumption
  <2>3. QED BY <2>1, <2>2
<1>4. /\ ui \in {None} \cup IdleClocks
      /\ st.ui = None => ui = None
      /\ st.ui # None => ui # None /\ ui.idle = Grown(st.ui.idle, Horizon)
  <2>1. CASE st.ui = None
    BY <2>1 DEF AgedIdle
  <2>2. CASE st.ui # None
    <3>1. st.ui \in IdleClocks /\ st.ui.idle \in Clock
      BY <2>2 DEF Flags, IdleClocks, Clock
    <3>2. Max2(st.ui.left - 1, 0) \in 0..Horizon /\ Grown(st.ui.idle, Horizon) \in Clock
      BY <3>1, DrainAssumption, GrownType DEF IdleClocks, Max2
    <3>3. /\ ui \in IdleClocks
          /\ ui.idle = Grown(st.ui.idle, Horizon)
      BY <2>2, <3>1, <3>2 DEF IdleClocks, Clock, AgedIdle
    <3>4. QED BY <2>2, <3>3, NoneAssumption
  <2>3. QED BY <2>1, <2>2
<1> HIDE DEF ttl, ui
<1>5. /\ flag' \in Flags /\ flag'.ttl = ttl /\ flag'.ui = ui
      /\ flag'.by = st.by /\ flag'.hold = st.hold
  BY <1>2, <1>3, <1>4 DEF Flags
<1>6. QED BY <1>3, <1>4, <1>5, NoneAssumption

LEMMA TickKeepsFlag ==
    ASSUME FlagOK, Tick
    PROVE  FlagOK'
<1>1. /\ flag \in {None} \cup Flags /\ memory \in Clock /\ seen \in Seen
      /\ Held(flag) /\ ClockOK(flag, memory, seen)
  BY DEF FlagOK, ClockInv
<1>2. /\ memory' = Grown(memory, Horizon)
      /\ seen' = [seen EXCEPT !.busy = Grown(@, Horizon), !.quiet = Grown(@, Horizon)]
  BY DEF Tick
<1>3. /\ seen.busy \in 0..Horizon /\ seen.quiet \in Clock /\ seen.lost \in BOOLEAN
      /\ seen'.busy = Grown(seen.busy, Horizon) /\ seen'.quiet = Grown(seen.quiet, Horizon)
      /\ seen'.lost = seen.lost
  BY <1>1, <1>2 DEF Seen
<1>4. memory' \in Clock /\ seen'.busy \in 0..Horizon /\ seen'.quiet \in Clock
  BY <1>1, <1>2, <1>3, GrownType, GrownOrder
<1>5. seen' \in Seen
  BY <1>1, <1>2, <1>3, <1>4 DEF Seen
<1>6. CASE flag = None
  <2>1. flag' = None
    BY <1>6 DEF Tick
  <2>2. ~seen'.lost
    BY <1>1, <1>3, <1>6 DEF ClockOK
  <2>3. QED BY <1>4, <1>5, <2>1, <2>2, NoFlagOK
<1>7. CASE flag # None
  <2>1. flag \in Flags
    BY <1>1, <1>7
  <2>2. /\ flag' \in Flags /\ flag' # None /\ flag'.hold = flag.hold
        /\ flag.ttl # None => flag'.ttl # None
        /\ flag.ui = None => flag'.ui = None
        /\ flag.ui # None => flag'.ui # None /\ flag'.ui.idle = Grown(flag.ui.idle, Horizon)
    BY <2>1, TickFlag
  <2>3. Held(flag')
    BY <1>1, <1>7, <2>2 DEF Held
  \* The clocks grow together, so their order stays.
  <2>4. ClockOK(flag', memory', seen')
    <3>1. CASE flag.ui = None
      BY <1>1, <1>3, <2>2, <3>1 DEF ClockOK
    <3>2. CASE flag.ui # None
      <4>1. /\ flag'.ui # None /\ flag'.ui.idle = Grown(flag.ui.idle, Horizon)
            /\ flag.ui.idle \in Clock
        BY <2>1, <2>2, <3>2 DEF Flags, IdleClocks, Clock
      <4>2. seen'.quiet # None =>
              IF flag'.ui.idle # None THEN flag'.ui.idle >= seen'.quiet
              ELSE memory' # None /\ memory' >= seen'.quiet
        <5>1. CASE seen'.quiet = None
          BY <5>1
        <5>2. CASE seen'.quiet # None
          <6>1. seen.quiet # None /\ seen.quiet \in 0..Horizon
            BY <1>3, <5>2, GrownType DEF Clock
          <6>2. CASE flag.ui.idle # None
            <7>1. flag.ui.idle \in 0..Horizon /\ seen.quiet <= flag.ui.idle
              BY <1>1, <1>3, <1>7, <3>2, <4>1, <6>1, <6>2 DEF ClockOK, Clock
            <7>2. QED BY <1>3, <4>1, <6>1, <7>1, GrownOrder
          <6>3. CASE flag.ui.idle = None
            <7>1. memory # None /\ memory \in 0..Horizon /\ seen.quiet <= memory
              BY <1>1, <1>3, <1>7, <3>2, <6>1, <6>3 DEF ClockOK, Clock
            <7>2. flag'.ui.idle = None
              BY <4>1, <6>3 DEF Grown
            <7>3. QED BY <1>2, <1>3, <6>1, <7>1, <7>2, GrownOrder
          <6>4. QED BY <6>2, <6>3
        <5>3. QED BY <5>1, <5>2
      <4>3. ~seen'.lost => /\ flag'.ui.idle # None => flag'.ui.idle <= seen'.busy
                           /\ memory' # None => memory' <= seen'.busy
        <5>1. ~seen'.lost /\ flag'.ui.idle # None =>
                flag.ui.idle \in 0..Horizon /\ flag.ui.idle <= seen.busy
          BY <1>1, <1>3, <1>7, <3>2, <4>1, GrownType DEF ClockOK, Clock
        <5>2. ~seen'.lost /\ memory' # None => memory \in 0..Horizon /\ memory <= seen.busy
          BY <1>1, <1>2, <1>3, <1>7, <3>2, GrownType DEF ClockOK, Clock
        <5>3. QED BY <1>2, <1>3, <4>1, <5>1, <5>2, GrownOrder
      <4>4. seen'.lost => flag'.ui.idle # None
        BY <1>1, <1>3, <1>7, <3>2, <4>1, GrownType DEF ClockOK
      <4>5. QED BY <2>2, <4>1, <4>2, <4>3, <4>4 DEF ClockOK
    <3>3. QED BY <3>1, <3>2
  <2>5. QED BY <1>4, <1>5, <2>2, <2>3, <2>4 DEF FlagOK, ClockInv
<1>8. QED BY <1>6, <1>7

LEMMA RestartKeepsFlag ==
    ASSUME FlagOK, Restart
    PROVE  FlagOK'
<1>1. /\ flag' = flag /\ memory' = None /\ seen' = [seen EXCEPT !.quiet = None]
      /\ flag \in {None} \cup Flags /\ seen \in Seen /\ Held(flag)
      /\ ClockOK(flag, memory, seen)
  BY DEF Restart, FlagOK, ClockInv
<1>2. /\ seen' \in Seen /\ seen'.quiet = None
      /\ seen'.busy = seen.busy /\ seen'.lost = seen.lost
  BY <1>1 DEF Seen, Clock
<1>3. ClockOK(flag', memory', seen')
  BY <1>1, <1>2 DEF ClockOK
<1>4. QED BY <1>1, <1>2, <1>3 DEF FlagOK, ClockInv, Clock

LEMMA StillKeepsFlag ==
    ASSUME FlagOK, UNCHANGED <<flag, memory, seen>>
    PROVE  FlagOK'
BY DEF FlagOK, ClockInv, Held, ClockOK

LEMMA InitInv == Init => IInv
<1> SUFFICES ASSUME Init PROVE IInv
  OBVIOUS
<1>1. load \in Loads /\ calls \in [glm : 0..Concurrency, external : 0..MaxInflight]
  BY DrainAssumption DEF Init, Loads
<1>2. /\ flag = None /\ memory = None /\ seen \in Seen /\ ~seen.lost
  BY DrainAssumption DEF Init, Seen, Clock
<1>3. FlagOK
  BY <1>2 DEF FlagOK, ClockInv, ClockOK, Held, Clock
<1>4. QED BY <1>1, <1>3, InvParts DEF RestOK

\* Seats are taken below their bounds and given back above none.
LEMMA NextKeepsRest ==
    ASSUME IInv, [Next]_vars
    PROVE  RestOK'
<1>1. /\ load \in Loads /\ calls \in [glm : 0..Concurrency, external : 0..MaxInflight]
      /\ calls.glm \in 0..Concurrency /\ calls.external \in 0..MaxInflight
  BY DEF IInv, TypeOK
<1>2. CASE UNCHANGED <<load, calls>>
  BY <1>1, <1>2 DEF RestOK
<1>3. CASE Acquire
  <2>1. Limit <= Concurrency
    BY DrainAssumption DEF Limit
  <2>2. Limit \in Nat
    BY DrainAssumption DEF Limit
  <2>3. calls.glm + 1 \in 0..Concurrency
    BY <1>1, <1>3, <2>1, <2>2, DrainAssumption DEF Acquire
  <2>4. QED BY <1>1, <1>3, <2>3 DEF Acquire, RestOK
<1>4. CASE Release
  BY <1>1, <1>4, DrainAssumption DEF Release, RestOK
<1>5. CASE ExternalBegin
  BY <1>1, <1>5, DrainAssumption DEF ExternalBegin, ExternalFits, RestOK
<1>6. CASE ExternalEnd
  BY <1>1, <1>6, DrainAssumption DEF ExternalEnd, RestOK
<1>7. CASE LoadChange
  BY <1>1, <1>7 DEF LoadChange, RestOK
<1>8. CASE Restart
  BY <1>1, <1>8, DrainAssumption DEF Restart, RestOK
<1>9. QED
  BY <1>2, <1>3, <1>4, <1>5, <1>6, <1>7, <1>8
  DEF Next, SetOnSome, SetOn, SetOffSome, SetOff, Look, Tick, vars

LEMMA NextKeepsFlag ==
    ASSUME IInv, [Next]_vars
    PROVE  FlagOK'
<1>1. FlagOK /\ load \in Loads
  BY InvParts DEF RestOK
<1>2. CASE SetOnSome
  BY <1>1, <1>2, SetOnKeepsFlag DEF SetOnSome
<1>3. CASE SetOffSome
  BY <1>1, <1>3, SetOffKeepsFlag DEF SetOffSome
<1>4. CASE Reading
  BY <1>1, <1>4, ReadingKeepsFlag
<1>5. CASE Tick
  BY <1>1, <1>5, TickKeepsFlag
<1>6. CASE Restart
  BY <1>1, <1>6, RestartKeepsFlag
<1>7. CASE UNCHANGED <<flag, memory, seen>>
  BY <1>1, <1>7, StillKeepsFlag
<1>8. QED
  BY <1>2, <1>3, <1>4, <1>5, <1>6, <1>7
  DEF Next, Look, Acquire, Release, ExternalBegin, ExternalEnd, LoadChange, vars

\* The flag, its clocks, the load and the seats are what they may be, and the
\* clocks say what was seen (ClockOK).
THEOREM DrainInvariant == Spec => []IInv
<1>1. IInv /\ [Next]_vars => IInv'
  <2> SUFFICES ASSUME IInv, [Next]_vars PROVE IInv'
    OBVIOUS
  <2>1. FlagOK' /\ RestOK'
    BY NextKeepsFlag, NextKeepsRest
  <2>2. QED BY <2>1 DEF IInv, TypeOK, FlagOK, RestOK, Seen, Clock, Held
<1>2. QED BY <1>1, InitInv, PTL DEF Spec

-----------------------------------------------------------------------------
\* Its clock runs although it cannot be written (ReviewDrain!GraceEnds): the
\* clock of the next read is at least what this process has seen.
LEMMA QuietIsOver == IInv => GraceEnds
<1> SUFFICES ASSUME IInv, flag # None, flag.ui # None, ~Busy, seen.quiet # None,
                    seen.quiet >= flag.ui.grace
             PROVE  View = None \/ TtlAlive(flag)
  BY DEF GraceEnds
<1>1. /\ flag \in Flags /\ memory \in Clock /\ seen.quiet \in 0..Horizon
      /\ flag.ui \in IdleClocks /\ ClockOK(flag, memory, seen)
  BY DEF IInv, TypeOK, ClockInv, Flags, Clock
<1>2. CASE ~Judges(flag)
  BY <1>2 DEF View, Live
<1>3. CASE Judges(flag)
  <2>1. Read(flag).ui.idle = IdleClock(flag)
    BY <1>1, <1>3, ReadType
  <2>2. IdleClock(flag) = IF flag.ui.idle # None THEN flag.ui.idle
                          ELSE IF memory = None THEN 0 ELSE memory
    BY DEF IdleClock
  <2>3. IdleClock(flag) \in 0..Horizon /\ IdleClock(flag) >= seen.quiet
    BY <1>1, <2>2 DEF ClockOK, IdleClocks, Clock
  <2>4. ~(Read(flag).ui.idle < flag.ui.grace)
    BY <1>1, <2>1, <2>3 DEF IdleClocks
  <2>5. QED BY <2>4 DEF View, Live
<1>4. QED BY <1>2, <1>3

\* A flag "until the deliberations are over" is over when they have been for
\* its grace, unless a ttl keeps it.
THEOREM GraceDoesEnd == Spec => []GraceEnds
BY DrainInvariant, QuietIsOver, PTL

-----------------------------------------------------------------------------
(* What a step may do to a flag (ReviewDrain!FlagIsKept).                  *)

\* A step that leaves a flag is a request, the clock, or leaves the flag as it
\* is or as a read finds it.
LEMMA FlagSteps ==
    ASSUME IInv, Next, flag # None, flag' # None
    PROVE  \/ \E r \in Requests : SetOn(r)
           \/ Tick
           \/ flag' = flag
           \/ flag' = Read(flag)
<1>1. flag \in {None} \cup Flags /\ memory \in Clock /\ seen \in Seen
  BY InvParts DEF FlagOK
<1>2. CASE Reading
  BY <1>1, <1>2, ReadingCases
<1>3. CASE SetOffSome
  BY <1>3 DEF SetOffSome, SetOff
<1>4. CASE LoadChange \/ Release \/ ExternalEnd \/ Restart
  BY <1>4 DEF LoadChange, Release, ExternalEnd, Restart
<1>5. QED BY <1>2, <1>3, <1>4 DEF Next, SetOnSome, Look, Acquire, ExternalBegin

\* A living ttl lives on under a request, and longer.
LEMMA TtlGrows ==
    ASSUME NEW cur \in Flags, NEW r \in Requests, TtlAlive(cur),
           r.ttl # None \/ r.ui # None
    PROVE  /\ TtlAlive(Merged(cur, r))
           /\ Merged(cur, r).ttl.left >= cur.ttl.left
           /\ Merged(cur, r).ttl.age <= cur.ttl.age
<1> DEFINE new == Merged(cur, r)
           st == Base(cur, r)
<1>1. /\ new.hold = st.hold /\ new.ttl = NewTtl(st, r)
      /\ cur # None
  BY MergedType, NoneAssumption
<1>2. /\ st.ttl = cur.ttl /\ st.hold = (r.hold \/ cur.hold)
  BY <1>1 DEF Base
<1>3. /\ cur.ttl # None /\ cur.ttl \in TtlClocks /\ cur.ttl.left > 0
      /\ cur.hold \/ (cur.ttl.left <= TtlMax /\ cur.ttl.age < TtlMax)
  BY DEF TtlAlive, Flags
<1>4. TtlAlive(st)
  BY <1>2, <1>3 DEF TtlAlive
<1> HIDE DEF new, st
<1>5. CASE r.ttl = None
  <2>1. new.ttl = cur.ttl
    BY <1>1, <1>2, <1>5 DEF NewTtl
  <2>2. TtlAlive(new)
    BY <1>1, <1>2, <1>3, <2>1 DEF TtlAlive
  <2>3. QED BY <1>3, <2>1, <2>2 DEF TtlClocks, new
<1>6. CASE r.ttl # None
  <2>1. new.ttl = [left |-> Max2(cur.ttl.left, r.ttl), age |-> 0]
    BY <1>1, <1>2, <1>4, <1>6 DEF NewTtl
  <2>2. r.ttl \in 1..Horizon /\ (r.hold \/ r.ttl <= TtlMax)
    BY <1>6, RequestType
  <2>3. /\ new.ttl # None /\ new.ttl.left >= cur.ttl.left /\ new.ttl.age = 0
        /\ new.ttl.left = cur.ttl.left \/ new.ttl.left = r.ttl
    <3>1. new.ttl.left = Max2(cur.ttl.left, r.ttl) /\ new.ttl.age = 0
      BY <2>1
    <3>2. new.ttl \in TtlClocks
      BY <1>3, <2>1, <2>2, DrainAssumption DEF TtlClocks, Max2
    <3>3. QED BY <1>3, <2>2, <3>1, <3>2, NoneAssumption DEF Max2, TtlClocks
  <2>4. TtlAlive(new)
    <3>1. new.ttl # None /\ new.ttl.left > 0 /\ new.ttl.age < TtlMax
      BY <1>3, <2>2, <2>3, DrainAssumption DEF TtlClocks
    <3>2. new.hold \/ new.ttl.left <= TtlMax
      <4>1. CASE r.hold \/ cur.hold
        BY <1>1, <1>2, <4>1
      <4>2. CASE ~(r.hold \/ cur.hold)
        BY <1>3, <2>2, <2>3, <4>2
      <4>3. QED BY <4>1, <4>2
    <3>3. QED BY <3>1, <3>2 DEF TtlAlive
  <2>5. QED BY <1>3, <2>3, <2>4 DEF TtlClocks, new
<1>7. QED BY <1>5, <1>6

LEMMA LifetimesKept ==
    ASSUME IInv, Next
    PROVE  LifetimesStep
<1> SUFFICES ASSUME View # None, flag' # None, ~Lifeless(View), ~Lifeless(flag'), ~Tick
             PROVE  /\ TtlAlive(View) => /\ TtlAlive(flag')
                                         /\ flag'.ttl.left >= View.ttl.left
                                         /\ flag'.ttl.age <= View.ttl.age
                    /\ Judges(View) => /\ Judges(flag')
                                       /\ flag'.ui.grace >= View.ui.grace
                                       /\ flag'.ui.left >= View.ui.left
  BY DEF LifetimesStep
<1>1. flag \in {None} \cup Flags /\ memory \in Clock
  BY InvParts DEF FlagOK
<1>2. flag \in Flags /\ flag # None /\ View = Read(flag) /\ View \in Flags
  BY <1>1, ViewType
<1>3. /\ View.ttl = flag.ttl /\ View.hold = flag.hold
      /\ View.ui = None <=> flag.ui = None
      /\ flag.ui # None => View.ui.grace = flag.ui.grace /\ View.ui.left = flag.ui.left
  BY <1>1, <1>2, ReadType
<1>4. CASE flag' = flag \/ flag' = Read(flag)
  <2>1. /\ flag'.ttl = View.ttl /\ flag'.hold = View.hold
        /\ flag'.ui = None <=> View.ui = None
        /\ View.ui # None => flag'.ui.grace = View.ui.grace /\ flag'.ui.left = View.ui.left
    BY <1>2, <1>3, <1>4
  <2>2. TtlAlive(View) => /\ TtlAlive(flag') /\ View.ttl \in TtlClocks
                          /\ View.ttl.left \in Nat /\ View.ttl.age \in Int
    BY <1>2, <2>1, DrainAssumption DEF TtlAlive, Flags, TtlClocks
  <2>3. Judges(View) => /\ Judges(flag') /\ View.ui \in IdleClocks
                        /\ View.ui.grace \in Nat /\ View.ui.left \in Nat
    BY <1>2, <2>1, DrainAssumption DEF Judges, Flags, IdleClocks
  <2>4. QED BY <2>1, <2>2, <2>3 DEF TtlAlive, Judges
<1>5. ASSUME NEW r \in Requests, SetOn(r)
      PROVE  /\ TtlAlive(View) => /\ TtlAlive(flag')
                                  /\ flag'.ttl.left >= View.ttl.left
                                  /\ flag'.ttl.age <= View.ttl.age
             /\ Judges(View) => /\ Judges(flag')
                                /\ flag'.ui.grace >= View.ui.grace
                                /\ flag'.ui.left >= View.ui.left
  <2>1. flag' = Merged(View, r)
    BY <1>5 DEF SetOn
  <2>2. r.ttl # None \/ r.ui # None
    BY <1>2, <2>1, MergedType DEF Lifeless
  <2>3. TtlAlive(View) => /\ TtlAlive(flag')
                          /\ flag'.ttl.left >= View.ttl.left
                          /\ flag'.ttl.age <= View.ttl.age
    BY <1>2, <2>1, <2>2, TtlGrows
  <2>4. ASSUME Judges(View)
        PROVE  /\ Judges(flag')
               /\ flag'.ui.grace >= View.ui.grace
               /\ flag'.ui.left >= View.ui.left
    <3> DEFINE st == Base(View, r)
    <3>1. flag'.ui = NewIdle(st, r)
      BY <1>2, <2>1, <2>2, MergedType
    <3>2. st \in Flags /\ st.ui = View.ui
      BY <1>2, RequestType DEF Base, Flags
    <3>3. View.ui # None /\ View.ui \in IdleClocks /\ View.ui.left > 0
      BY <1>2, <2>4 DEF Judges, Flags
    <3> HIDE DEF st
    <3>4. /\ NewIdle(st, r) # None /\ NewIdle(st, r) \in {None} \cup IdleClocks
          /\ NewIdle(st, r).grace >= st.ui.grace /\ NewIdle(st, r).left >= st.ui.left
      BY <3>2, <3>3, NewIdleType
    <3>5. QED BY <3>1, <3>2, <3>3, <3>4, DrainAssumption DEF Judges, IdleClocks
  <2>5. QED BY <2>3, <2>4
<1>6. QED BY <1>2, <1>4, <1>5, FlagSteps

LEMMA OwnerKept ==
    ASSUME IInv, Next
    PROVE  OwnerStep
<1> SUFFICES ASSUME View # None, flag' # None
             PROVE  (flag'.by # flag.by => flag'.hold) /\ (flag.hold => flag'.hold)
  BY DEF OwnerStep
<1>1. flag \in {None} \cup Flags /\ memory \in Clock
  BY InvParts DEF FlagOK
<1>2. flag \in Flags /\ flag # None /\ View = Read(flag) /\ View \in Flags
  BY <1>1, ViewType
<1>3. View.by = flag.by /\ View.hold = flag.hold
  BY <1>1, <1>2, ReadType
<1>4. CASE flag' = flag \/ flag' = Read(flag)
  BY <1>2, <1>3, <1>4
<1>5. CASE Tick
  <2>1. flag'.by = flag.by /\ flag'.hold = flag.hold
    BY <1>2, <1>5, TickFlag
  <2>2. QED BY <2>1
<1>6. ASSUME NEW r \in Requests, SetOn(r)
      PROVE  (flag'.by # flag.by => flag'.hold) /\ (flag.hold => flag'.hold)
  <2>1. flag' = Merged(View, r) /\ (~r.hold => ~View.hold /\ View.by = r.by)
    BY <1>6 DEF SetOn, Accepts
  <2>2. flag'.by = r.by /\ flag'.hold = Base(View, r).hold
    BY <1>2, <2>1, MergedType
  <2>3. Base(View, r).hold = (r.hold \/ View.hold)
    BY DEF Base
  <2>4. QED BY <1>3, <2>1, <2>2, <2>3
<1>7. QED BY <1>2, <1>4, <1>5, <1>6, FlagSteps

\* What removes a flag and nobody took down: a read that finds it over.
LEMMA GraceKept ==
    ASSUME IInv, Next
    PROVE  GraceStep
<1> SUFFICES ASSUME flag # None, flag' = None, ~SetOffSome, Judges(flag), ~seen.lost
             PROVE  ~Busy /\ seen.busy >= flag.ui.grace
  BY DEF GraceStep
<1>1. /\ flag \in Flags /\ memory \in Clock /\ seen \in Seen /\ seen.busy \in 0..Horizon
      /\ ClockOK(flag, memory, seen)
  BY InvParts DEF FlagOK, ClockInv, Seen
<1>2. flag.ui # None /\ flag.ui \in IdleClocks
  BY <1>1 DEF Judges, Flags
<1>3. ~Live(flag)
  <2>1. CASE Reading
    BY <1>1, <2>1, ReadingCases
  <2>2. ~SetOnSome
    <3>1. View \in {None} \cup Flags
      BY <1>1, ViewType
    <3>2. QED BY <3>1, MergedType DEF SetOnSome, SetOn
  <2>3. ~Tick
    BY <1>1, TickFlag
  <2>4. ~(LoadChange \/ Release \/ ExternalEnd \/ Restart)
    BY DEF LoadChange, Release, ExternalEnd, Restart
  <2>5. QED BY <2>1, <2>2, <2>3, <2>4 DEF Next, Look, Acquire, ExternalBegin
<1>4. /\ ~Busy /\ ~(Read(flag).ui.idle < flag.ui.grace)
  BY <1>2, <1>3 DEF Live
<1>5. Read(flag).ui.idle = IF flag.ui.idle # None THEN flag.ui.idle
                           ELSE IF memory = None THEN 0 ELSE memory
  BY <1>1, <1>4, ReadType DEF IdleClock
<1>6. Read(flag).ui.idle \in 0..Horizon /\ (Read(flag).ui.idle <= seen.busy \/ Read(flag).ui.idle = 0)
  BY <1>1, <1>2, <1>5, DrainAssumption DEF ClockOK, IdleClocks, Clock
<1>7. QED BY <1>1, <1>2, <1>4, <1>6, DrainAssumption DEF IdleClocks

LEMMA AdmissionKept ==
    ASSUME IInv, Next
    PROVE  AdmissionStep
<1>1. /\ calls \in [glm : 0..Concurrency, external : 0..MaxInflight]
      /\ calls.glm \in 0..Concurrency /\ calls.external \in 0..MaxInflight
  BY DEF IInv, TypeOK
<1>2. CASE Acquire
  <2>1. /\ calls'.glm = calls.glm + 1 /\ calls'.external = calls.external
        /\ calls.glm < Limit
    BY <1>1, <1>2 DEF Acquire
  <2>2. /\ Limit \in Nat /\ (Draining => Limit = 0)
        /\ Limit <= IF load.human > 0 THEN WithDelib ELSE Concurrency
    BY DrainAssumption DEF Limit
  <2>3. QED BY <1>1, <2>1, <2>2, DrainAssumption DEF AdmissionStep
<1>3. CASE ExternalBegin
  BY <1>1, <1>3, DrainAssumption DEF ExternalBegin, ExternalFits, AdmissionStep
<1>4. CASE Release \/ ExternalEnd \/ Restart
  BY <1>1, <1>4, DrainAssumption DEF Release, ExternalEnd, Restart, AdmissionStep
<1>5. CASE UNCHANGED calls
  BY <1>1, <1>5, DrainAssumption DEF AdmissionStep
<1>6. QED
  BY <1>2, <1>3, <1>4, <1>5
  DEF Next, SetOnSome, SetOn, SetOffSome, SetOff, Look, LoadChange, Tick

\* Of every flag, whoever set it: lifetimes only grow, its owner stays, it is
\* not released before its grace, and while it holds nobody is admitted.
THEOREM FlagsAreKept == Spec => FlagIsKept
<1>1. IInv /\ [Next]_vars => /\ [LifetimesStep]_vars /\ [OwnerStep]_vars
                             /\ [GraceStep]_vars /\ [AdmissionStep]_vars
  BY LifetimesKept, OwnerKept, GraceKept, AdmissionKept
<1>2. Spec => /\ [][LifetimesStep]_vars /\ [][OwnerStep]_vars
              /\ [][GraceStep]_vars /\ [][AdmissionStep]_vars
  BY <1>1, DrainInvariant, PTL DEF Spec
<1>3. QED
  BY <1>2 DEF FlagIsKept, LifetimesGrow, OwnerIsKept, GraceIsKept, AdmissionIsBounded
=============================================================================

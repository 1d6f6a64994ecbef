---------------------------- MODULE ReviewDrain -----------------------------
(***************************************************************************)
(* The drain flag and the gate of the card reviews (src/review_gate.py,    *)
(* DrainState and ReviewGate).  The flag is one file, and nothing but the  *)
(* readers of it watches the time: a read judges whether the flag is live, *)
(* moves its idle clock and removes it when its lifetimes are over.  A     *)
(* request that cannot get a seat of the gate is turned away at once.      *)
(*                                                                         *)
(* Every method runs under the lock of the file: an action each.  Times    *)
(* are kept as what is left or what has passed, in units of the clock,     *)
(* which does not go back here; the file is never broken or unreadable.    *)
(***************************************************************************)
EXTENDS Integers

CONSTANTS
    Callers,        \* those who set the flag ("by")
    TtlMax,         \* DRAIN_TTL_MAX_S
    Ttls,           \* ttl_s of the requests; beyond TtlMax only with hold
    Idles,          \* until_idle of the requests: <<grace_s, max_s>>
    Concurrency,    \* CARD_REVIEW_CONCURRENCY
    WithDelib,      \* CARD_REVIEW_CONCURRENCY_WITH_DELIB
    MaxInflight,    \* EXTERNAL_LLM_MAX_INFLIGHT
    Horizon,        \* bound: where what has passed is not counted any further
    None

\* No lifetime is longer than the clocks count.
ASSUME DrainAssumption ==
    /\ Horizon \in Nat /\ TtlMax \in 1..Horizon
    /\ Ttls \subseteq 1..Horizon
    /\ \A i \in Idles : i[2] \in 1..Horizon /\ i[1] \in 1..i[2]
    /\ WithDelib \in 1..Concurrency /\ Concurrency \in Nat
    /\ MaxInflight \in Nat

Scopes == {"all", "panels"}

\* The values of a flag's two lifetimes, and of the flag.
TtlClocks == [left : 0..Horizon, age : 0..TtlMax]
IdleClocks == [grace : 1..Horizon, left : 0..Horizon, idle : {None} \cup (0..Horizon)]
Flags == [scope : Scopes, by : Callers, hold : BOOLEAN,
          ttl : {None} \cup TtlClocks, ui : {None} \cup IdleClocks]

ASSUME NoneAssumption == None \notin Nat \cup TtlClocks \cup IdleClocks \cup Flags

VARIABLES
    flag,       \* the file: None or [scope, by, hold, ttl, ui]
    memory,     \* _idle of this process, for the idle clock on file
    load,       \* the deliberations: [human, other]
    calls,      \* running reviews: [glm, external]
    seen        \* history: [busy, quiet, lost], see below

vars == <<flag, memory, load, calls, seen>>

\* ttl = None or [left |-> until - now, age |-> now - ttl_since];
\* ui = None or [grace, left |-> set_idle_at + max_s - now, idle |-> None or
\* now - idle_since].  memory = None (nothing about this idle clock, or that it
\* is stopped) or now - idle_since.  seen.busy: time since a read last saw a
\* deliberation; seen.quiet: None or time since this process first saw none, for
\* the idle clock on file; seen.lost: that clock runs, because a write failed,
\* although a read had stopped it.

Max2(x, y) == IF x > y THEN x ELSE y
Min2(x, y) == IF x < y THEN x ELSE y

TtlAlive(st) ==
    /\ st.ttl # None /\ st.ttl.left > 0
    /\ st.hold \/ (st.ttl.left <= TtlMax /\ st.ttl.age < TtlMax)

\* _delib_sum: whoever runs or waits counts.
Busy == load.human + load.other > 0

-----------------------------------------------------------------------------
(* A read.                                                                 *)

\* Mutant: a deliberation that comes back does not stop the idle clock.
KeepClock(st) ==
    CASE st.ui.idle # None -> st.ui.idle
      [] st.ui.idle = None /\ Busy -> None
      [] OTHER -> IF memory = None THEN 0 ELSE memory

\* Mutant: a clock that could not be written is forgotten.
NoMemory(st) == IF Busy THEN None ELSE IF st.ui.idle # None THEN st.ui.idle ELSE 0

\* The idle clock a read leaves: stopped by a deliberation, else begun, where
\* this process remembers it to have begun.
IdleClock(st) ==
    CASE Busy -> None
      [] ~Busy /\ st.ui.idle # None -> st.ui.idle
      [] OTHER -> IF memory = None THEN 0 ELSE memory

\* Whether _live looks at the deliberations: the cap is not reached.
Judges(st) == st.ui # None /\ st.ui.left > 0

Judged == flag # None /\ Judges(flag)

\* What _live makes of the record, before it is written back.
Read(st) == IF Judges(st) THEN [st EXCEPT !.ui.idle = IdleClock(st)] ELSE st

\* _live: until the last of its lifetimes ends; with none, a person's hold.
Live(st) ==
    IF st.ttl = None /\ st.ui = None THEN st.hold
    ELSE \/ TtlAlive(st)
         \/ Judges(st) /\ (Busy \/ Read(st).ui.idle < st.ui.grace)

\* What a reader of the file is told at this moment.
View == IF flag # None /\ Live(flag) THEN Read(flag) ELSE None

\* _current: what changes of the idle clock is written (or not: the disk may
\* be full), a flag that is over is removed (or not).
FileAfter(written, removed) ==
    CASE flag = None -> None
      [] flag # None /\ ~Live(flag) /\ removed -> None
      [] OTHER -> IF written THEN Read(flag) ELSE flag

MemoryAfter == IF Judged THEN Read(flag).ui.idle ELSE memory

\* What a read has seen; f is the file after the operation, anew whether its
\* idle clock is another one, failed whether the read could not write.
Saw(f, anew, failed) ==
    [busy |-> IF Judged /\ Busy THEN 0 ELSE seen.busy,
     quiet |-> CASE anew \/ f = None \/ (Judged /\ Busy) -> None
                 [] ~anew /\ f # None /\ Judged /\ ~Busy /\ seen.quiet = None -> 0
                 [] OTHER -> seen.quiet,
     lost |-> /\ f # None /\ f.ui # None /\ f.ui.idle # None
              /\ seen.lost \/ (Judged /\ Busy /\ failed)]

\* The read at the head of the operations.
Reading ==
    /\ memory' = MemoryAfter
    /\ \E written, removed \in BOOLEAN :
          /\ flag' = FileAfter(written, removed)
          /\ seen' = Saw(flag', FALSE, ~written)

\* snapshot(), active_scope(): /health, every few seconds.  Requests that are
\* turned away, or whose write or removal fails (503), leave the same.
Look == Reading /\ UNCHANGED <<load, calls>>

-----------------------------------------------------------------------------
(* set_on and set_off.                                                     *)

\* A request: a hold or not, with a ttl or until_idle or (a hold) neither.
Requests ==
    {r \in [scope : Scopes, by : Callers, hold : BOOLEAN,
            ttl : Ttls \cup {None}, ui : Idles \cup {None}] :
        /\ r.ttl = None \/ r.ui = None
        /\ r.hold \/ r.ttl # None \/ r.ui # None
        /\ r.ttl # None /\ ~r.hold => r.ttl <= TtlMax}

\* drain_held and drain_owned.
Accepts(cur, r) == cur # None /\ ~r.hold => ~cur.hold /\ cur.by = r.by

\* A living ttl is only extended, and its window opens anew; a dead one is
\* replaced.
NewTtl(st, r) ==
    IF r.ttl = None THEN st.ttl
    ELSE [left |-> IF TtlAlive(st) THEN Max2(st.ttl.left, r.ttl) ELSE r.ttl, age |-> 0]

\* until_idle is only extended: the larger grace, the later cap.
NewIdle(st, r) ==
    CASE r.ui = None -> st.ui
      [] r.ui # None /\ st.ui = None -> [grace |-> r.ui[1], left |-> r.ui[2], idle |-> None]
      [] OTHER -> [st.ui EXCEPT !.grace = Max2(@, r.ui[1]), !.left = Max2(@, r.ui[2])]

\* What set_on writes over the flag cur.
Merged(cur, r) ==
    LET st == [scope |-> r.scope, by |-> r.by,
               hold |-> r.hold \/ (cur # None /\ cur.hold),
               ttl |-> IF cur = None THEN None ELSE cur.ttl,
               ui |-> IF cur = None THEN None ELSE cur.ui]
    IN  IF r.ttl = None /\ r.ui = None THEN [st EXCEPT !.ttl = None, !.ui = None]
        ELSE [st EXCEPT !.ttl = NewTtl(st, r), !.ui = NewIdle(st, r)]

\* The idle clock that memory is about (set_idle_at) is another one now.
NewClock(cur, r) ==
    \/ cur = None \/ cur.ui = None
    \/ r.ttl = None /\ r.ui = None
    \/ r.ui # None /\ r.ui[2] > cur.ui.left

\* set_on, accepted and written.
SetOn(r) ==
    /\ Accepts(View, r)
    /\ flag' = Merged(View, r)
    /\ memory' = IF NewClock(View, r) THEN None ELSE MemoryAfter
    /\ seen' = Saw(flag', NewClock(View, r), FALSE)
    /\ UNCHANGED <<load, calls>>

MayTakeDown(cur, by, force) == force \/ (~cur.hold /\ cur.by = by)

\* set_off of a flag that is on.
SetOff(by, force) ==
    /\ View # None /\ MayTakeDown(View, by, force)
    /\ flag' = None
    /\ memory' = MemoryAfter
    /\ seen' = Saw(None, FALSE, FALSE)
    /\ UNCHANGED <<load, calls>>

-----------------------------------------------------------------------------
(* The gate.                                                               *)

Draining == View # None /\ View.scope = "all"

\* limit_for.
Limit ==
    CASE Draining -> 0
      [] ~Draining /\ load.human > 0 -> WithDelib
      [] OTHER -> Concurrency

\* try_acquire, with a seat left; it reads the flag.
Acquire ==
    /\ calls.glm < Limit
    /\ calls' = [calls EXCEPT !.glm = @ + 1]
    /\ Reading
    /\ UNCHANGED load

Release ==
    /\ calls.glm > 0
    /\ calls' = [calls EXCEPT !.glm = @ - 1]
    /\ UNCHANGED <<flag, memory, load, seen>>

\* What _external_admit asks of the gate and of the board.
ExternalFits(n) == ~Draining /\ n < MaxInflight

\* _external_admit for the one user modelled, and call_end.
ExternalBegin ==
    /\ ExternalFits(calls.external)
    /\ calls' = [calls EXCEPT !.external = @ + 1]
    /\ Reading
    /\ UNCHANGED load

ExternalEnd ==
    /\ calls.external > 0
    /\ calls' = [calls EXCEPT !.external = @ - 1]
    /\ UNCHANGED <<flag, memory, load, seen>>

-----------------------------------------------------------------------------
(* The world around.                                                       *)

\* Deliberations begin and end; load tells 0 from more, and others only where
\* no person's deliberation counts already.
Loads == {l \in [human : 0..1, other : 0..1] : l.human = 0 \/ l.other = 0}

LoadChange ==
    /\ load' \in Loads \ {load}
    /\ UNCHANGED <<flag, memory, calls, seen>>

Grown(age, max) == IF age = None THEN None ELSE Min2(age + 1, max)

AgedTtl(t) ==
    IF t = None THEN None ELSE [left |-> Max2(t.left - 1, 0), age |-> Min2(t.age + 1, TtlMax)]

AgedIdle(u) ==
    IF u = None THEN None
    ELSE [u EXCEPT !.left = Max2(@ - 1, 0), !.idle = Grown(@, Horizon)]

Tick ==
    /\ flag' = IF flag = None THEN None
               ELSE [flag EXCEPT !.ttl = AgedTtl(@), !.ui = AgedIdle(@)]
    /\ memory' = Grown(memory, Horizon)
    /\ seen' = [seen EXCEPT !.busy = Grown(@, Horizon), !.quiet = Grown(@, Horizon)]
    /\ UNCHANGED <<load, calls>>

\* The server restarts: the calls end with it, the file stays.
Restart ==
    /\ memory' = None
    /\ calls' = [glm |-> 0, external |-> 0]
    /\ load' \in Loads
    /\ seen' = [seen EXCEPT !.quiet = None]
    /\ UNCHANGED flag

Init ==
    /\ flag = None /\ memory = None
    /\ load = [human |-> 0, other |-> 0]
    /\ calls = [glm |-> 0, external |-> 0]
    /\ seen = [busy |-> Horizon, quiet |-> None, lost |-> FALSE]

SetOnSome == \E r \in Requests : SetOn(r)

SetOffSome == \E by \in Callers, force \in BOOLEAN : SetOff(by, force)

Next == SetOnSome \/ SetOffSome \/ Look \/ Acquire \/ Release \/ ExternalBegin
           \/ ExternalEnd \/ LoadChange \/ Tick \/ Restart

Spec == Init /\ [][Next]_vars

\* Time goes on.
LiveSpec == Spec /\ WF_vars(Tick)

-----------------------------------------------------------------------------
(* Properties.                                                             *)

TypeOK ==
    /\ flag \in {None} \cup Flags
    /\ memory \in {None} \cup (0..Horizon)
    /\ load \in Loads
    /\ calls \in [glm : 0..Concurrency, external : 0..MaxInflight]
    /\ seen \in [busy : 0..Horizon, quiet : {None} \cup (0..Horizon), lost : BOOLEAN]
    /\ flag # None => flag.hold \/ flag.ttl # None \/ flag.ui # None

Lifeless(st) == st.ttl = None /\ st.ui = None

\* "Lifetimes only grow": a request that is accepted over a living flag leaves
\* every lifetime of it at least as long, the ttl with its window of TtlMax and
\* the idle one with its grace and its cap.  (A hold that is given a ttl ends
\* with it, so a hold without a lifetime is left out.)
LifetimesStep ==
    View # None /\ flag' # None /\ ~Lifeless(View) /\ ~Lifeless(flag') /\ ~Tick =>
       /\ TtlAlive(View) => TtlAlive(flag') /\ flag'.ttl.left >= View.ttl.left
                                           /\ flag'.ttl.age <= View.ttl.age
       /\ Judges(View) => /\ Judges(flag')
                          /\ flag'.ui.grace >= View.ui.grace
                          /\ flag'.ui.left >= View.ui.left

LifetimesGrow == [][LifetimesStep]_vars

\* A living flag changes its owner, and a person's hold becomes no hold, only
\* by a person's hold or by being taken down: nobody's lifetimes are merged
\* into, and so ended with, another's.
OwnerStep ==
    View # None /\ flag' # None =>
       /\ flag'.by # flag.by => flag'.hold
       /\ flag.hold => flag'.hold

OwnerIsKept == [][OwnerStep]_vars

\* A flag "until the deliberations are over" is not released while they run or
\* wait, nor before none was seen for its grace, unless it has reached its cap
\* or was taken down; as long as every stop of its clock was written.
GraceStep ==
    flag # None /\ flag' = None /\ ~SetOffSome /\ Judges(flag) /\ ~seen.lost =>
       ~Busy /\ seen.busy >= flag.ui.grace

GraceIsKept == [][GraceStep]_vars

\* Its clock runs although it cannot be written: once a process has seen no
\* deliberation for the grace, nothing but a ttl keeps the flag.
GraceEnds ==
    flag # None /\ flag.ui # None /\ ~Busy /\ seen.quiet # None
        /\ seen.quiet >= flag.ui.grace => View = None \/ TtlAlive(flag)

\* A seat is given only within the limit of that moment; while the server
\* drains both ways to the model are closed, and the calls only get fewer.
AdmissionStep ==
    /\ calls'.glm > calls.glm =>
          calls'.glm <= (IF load.human > 0 THEN WithDelib ELSE Concurrency)
    /\ Draining => calls'.glm <= calls.glm /\ calls'.external <= calls.external

AdmissionIsBounded == [][AdmissionStep]_vars

\* The flag is set, or changed otherwise than by time and by reads.
Renewed ==
    flag' # None /\ (flag = None \/ (flag' \notin {flag, Read(flag)} /\ ~Tick))

\* No flag is forgotten: unless a person holds it without end, it is over some
\* day when nobody sets it anew, whatever the deliberations do and whether its
\* file can be written and removed or not.
FlagEnds ==
    <>[][~Renewed]_vars =>
        (View # None /\ ~Lifeless(View) ~> View = None \/ Lifeless(View))

\* Of a flag: lifetimes only grow, its owner stays, it is not released before
\* its grace, and while it holds nobody is admitted.
FlagIsKept == LifetimesGrow /\ OwnerIsKept /\ GraceIsKept /\ AdmissionIsBounded
=============================================================================

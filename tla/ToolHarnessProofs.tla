------------------------- MODULE ToolHarnessProofs -------------------------
(***************************************************************************)
(* Theorems about ToolHarness, for any calls, steps, arguments, permits    *)
(* and thresholds.                                                         *)
(***************************************************************************)
EXTENDS ToolHarness, FiniteSetTheorems, WellFoundedInduction, TLAPS

-----------------------------------------------------------------------------
(* The idempotency guard.  A key is noted when the guard still knows of    *)
(* it: as stored, as failed, or by a call whose future is not settled.     *)

Noted(g, k) ==
  \/ k \in g.failed \cup g.cached
  \/ g.executor[k] # 0 /\ g.future[g.executor[k]] = "pending"

\* A call executes for one key.
Injective(g) ==
  \A k, l \in Keys : g.executor[k] # 0 /\ g.executor[k] = g.executor[l] => k = l

Outcomes == {"result", "error"}

LEMMA SettleEffect ==
  ASSUME NEW g \in Guards, NEW k \in Keys, NEW v \in Outcomes
  PROVE  /\ Settle(g, k, v) \in Guards
         /\ Settle(g, k, v).cached = g.cached
         /\ Settle(g, k, v).failed = g.failed
         /\ \A l \in Keys : Settle(g, k, v).executor[l] = IF l = k THEN 0 ELSE g.executor[l]
         /\ \A d \in Calls : Settle(g, k, v).future[d]
              = IF d = g.executor[k] /\ g.future[d] = "pending" THEN v ELSE g.future[d]
<1> DEFINE s == Settle(g, k, v)
<1>1. s = [g EXCEPT !.executor[k] = 0,
                    !.future = [d \in Calls |-> IF d = g.executor[k] /\ g.future[d] = "pending"
                                                THEN v ELSE g.future[d]]]
  BY DEF Settle, Guards
<1>2. /\ s.cached = g.cached /\ s.failed = g.failed
      /\ s.executor = [g.executor EXCEPT ![k] = 0]
      /\ s.future = [d \in Calls |-> IF d = g.executor[k] /\ g.future[d] = "pending"
                                     THEN v ELSE g.future[d]]
      /\ s = [cached |-> s.cached, failed |-> s.failed, executor |-> s.executor,
              future |-> s.future]
  BY <1>1 DEF Guards
<1>3. /\ s.executor \in [Keys -> Calls \cup {0}]
      /\ s.future \in [Calls -> {"none", "pending", "result", "error"}]
  BY <1>2 DEF Guards, Outcomes
<1>4. s \in Guards
  BY <1>2, <1>3 DEF Guards
<1>. QED
  BY <1>2, <1>4 DEF Guards

\* Settling one key leaves the others noted, and an executor in its place.
LEMMA SettleOthers ==
  ASSUME NEW g \in Guards, Injective(g), NEW k \in Keys, NEW v \in Outcomes
  PROVE  /\ Injective(Settle(g, k, v))
         /\ \A l \in Keys : l # k /\ Noted(g, l) => Noted(Settle(g, k, v), l)
<1> DEFINE s == Settle(g, k, v)
<1>1. \A l \in Keys : g.executor[l] # 0 => g.executor[l] \in Calls
  BY DEF Guards
<1>2. /\ s.cached = g.cached /\ s.failed = g.failed
      /\ \A l \in Keys : s.executor[l] = IF l = k THEN 0 ELSE g.executor[l]
      /\ \A d \in Calls : s.future[d]
           = IF d = g.executor[k] /\ g.future[d] = "pending" THEN v ELSE g.future[d]
  BY SettleEffect
<1> HIDE DEF s
<1>3. Injective(s)
  BY <1>2 DEF Injective
<1>4. ASSUME NEW l \in Keys, l # k, Noted(g, l)
      PROVE  Noted(s, l)
  BY <1>1, <1>2, <1>4 DEF Injective, Noted
<1>. QED
  BY <1>3, <1>4 DEF s

LEMMA CompleteEffect ==
  ASSUME NEW g \in Guards, Injective(g), NEW k \in Keys, NEW v \in Outcomes
  PROVE  /\ Complete(g, k, v) \in Guards
         /\ Injective(Complete(g, k, v))
         /\ \A l \in Keys : Complete(g, k, v).executor[l] \in {0, g.executor[l]}
         /\ \A l \in Keys : Noted(g, l) => Noted(Complete(g, k, v), l)
<1> DEFINE s == Settle(g, k, v)
<1>1. /\ s \in Guards /\ Injective(s)
      /\ s.cached = g.cached /\ s.failed = g.failed
      /\ \A l \in Keys : s.executor[l] \in {0, g.executor[l]}
      /\ \A l \in Keys : l # k /\ Noted(g, l) => Noted(s, l)
  BY SettleEffect, SettleOthers
<1>2. CASE g.executor[k] # 0 /\ g.future[g.executor[k]] = "pending"
  <2> DEFINE f == [s EXCEPT !.failed = @ \cup {k}]
  <2>1. Complete(g, k, v) = f
    BY <1>2 DEF Complete
  <2>2. /\ f \in Guards
        /\ f.failed = s.failed \cup {k} /\ f.cached = s.cached
        /\ f.executor = s.executor /\ f.future = s.future
    BY <1>1 DEF Guards
  <2>3. Injective(f) /\ \A l \in Keys : Noted(g, l) => Noted(f, l)
    BY <1>1, <2>2 DEF Injective, Noted
  <2>. QED
    BY <1>1, <2>1, <2>2, <2>3
<1>3. CASE ~(g.executor[k] # 0 /\ g.future[g.executor[k]] = "pending")
  <2>1. Complete(g, k, v) = s
    BY <1>3 DEF Complete
  <2>2. Noted(g, k) => Noted(s, k)
    BY <1>1, <1>3 DEF Noted
  <2>. QED
    BY <1>1, <2>1, <2>2
<1>. QED
  BY <1>2, <1>3

LEMMA StoreEffect ==
  ASSUME idem \in Guards, Injective(idem), NEW k \in Keys
  PROVE  /\ Store(k) \in Guards
         /\ Injective(Store(k))
         /\ \A l \in Keys : Store(k).executor[l] \in {0, idem.executor[l]}
         /\ \A l \in Keys : Noted(idem, l) => Noted(Store(k), l)
<1> DEFINE s == Settle(idem, k, "result")
           f == [s EXCEPT !.cached = @ \cup {k}]
<1>1. /\ s \in Guards /\ Injective(s)
      /\ s.cached = idem.cached /\ s.failed = idem.failed
      /\ \A l \in Keys : s.executor[l] \in {0, idem.executor[l]}
      /\ \A l \in Keys : l # k /\ Noted(idem, l) => Noted(s, l)
  <2>1. "result" \in Outcomes
    BY DEF Outcomes
  <2>. QED
    BY <2>1, SettleEffect, SettleOthers
<1>2. Store(k) = f
  BY DEF Store
<1>3. /\ f \in Guards
      /\ f.failed = s.failed /\ f.cached = s.cached \cup {k}
      /\ f.executor = s.executor /\ f.future = s.future
  BY <1>1 DEF Guards
<1>4. Injective(f) /\ \A l \in Keys : Noted(idem, l) => Noted(f, l)
  BY <1>1, <1>3 DEF Injective, Noted
<1>. QED
  BY <1>1, <1>2, <1>3, <1>4

\* A call that begins to execute is the executor of its key.
LEMMA RegisterEffect ==
  ASSUME idem \in Guards, Injective(idem), NEW c \in Calls, arg[c] \in Keys,
         \A k \in Keys : idem.executor[k] # c
  PROVE  /\ Registered(c) \in Guards
         /\ Injective(Registered(c))
         /\ \A l \in Keys : Registered(c).executor[l]
                              = IF l = arg[c] THEN c ELSE idem.executor[l]
         /\ \A l \in Keys : l # arg[c] /\ Noted(idem, l) => Noted(Registered(c), l)
         /\ Noted(Registered(c), arg[c])
<1> DEFINE f == Registered(c)
<1>1. /\ f.cached = idem.cached /\ f.failed = idem.failed
      /\ f.executor = [idem.executor EXCEPT ![arg[c]] = c]
      /\ f.future = [idem.future EXCEPT ![c] = "pending"]
      /\ f = [cached |-> f.cached, failed |-> f.failed, executor |-> f.executor,
              future |-> f.future]
  <2>1. f = [idem EXCEPT !.executor = [idem.executor EXCEPT ![arg[c]] = c],
                         !.future = [idem.future EXCEPT ![c] = "pending"]]
    BY DEF Registered
  <2>. QED
    BY <2>1 DEF Guards
<1>2. /\ f.executor \in [Keys -> Calls \cup {0}]
      /\ f.future \in [Calls -> {"none", "pending", "result", "error"}]
  BY <1>1 DEF Guards
<1>3. f \in Guards
  BY <1>1, <1>2 DEF Guards
<1>4. c # 0
  BY ToolHarnessAssumption DEF ToolHarnessAssumption, Calls
<1>5. \A l \in Keys : f.executor[l] = IF l = arg[c] THEN c ELSE idem.executor[l]
  BY <1>1 DEF Guards
<1>6. Injective(f) /\ Noted(f, arg[c])
  BY <1>1, <1>4, <1>5 DEF Injective, Noted, Guards
<1>7. ASSUME NEW l \in Keys, l # arg[c], Noted(idem, l)
      PROVE  Noted(f, l)
  BY <1>1, <1>5, <1>7 DEF Noted, Guards
<1>. QED
  BY <1>3, <1>5, <1>6, <1>7

-----------------------------------------------------------------------------
(* The circuit breaker: a trial is only allowed below the last cooldown.   *)

Sound(b) == b \in Breakers /\ (b.state = "half" => b.level < MaxLevel)

LEMMA AllowedSound ==
  ASSUME Sound(breaker), NEW b \in Allowed
  PROVE  Sound(b)
BY ToolHarnessAssumption DEF ToolHarnessAssumption, Sound, Allowed, Breakers

LEMMA FailureSound ==
  ASSUME NEW b, Sound(b)
  PROVE  Sound(OnFailure(b))
BY ToolHarnessAssumption DEF ToolHarnessAssumption, Sound, OnFailure, Breakers

LEMMA SuccessSound ==
  ASSUME Sound(breaker)
  PROVE  Sound(OnSuccess)
BY ToolHarnessAssumption DEF ToolHarnessAssumption, Sound, OnSuccess, Breakers

-----------------------------------------------------------------------------
(* The inductive invariant.  The semaphore lets calls through in the order *)
(* of their dispatch, so that calls left over from an earlier step are     *)
(* past it once a call of this step is; therefore a key whose trace is     *)
(* lost when a batch is killed is not executed again before the reset.     *)

Busy == {"waiting", "running", "after"}

OrderInv ==
  /\ \A c \in Calls : where[c] = "new" <=> c > sent
  /\ \A c \in batch : c <= sent /\ \A d \in Calls \ batch : d <= sent => d < c
  /\ \A c, d \in Calls : where[c] \in Busy /\ where[d] = "queued" => c < d

ExecInv ==
  \A k \in Keys : idem.executor[k] # 0 =>
    /\ arg[idem.executor[k]] = k
    /\ where[idem.executor[k]] \notin {"new", "queued"}

Settled == phase = "idle" /\ At("queued") = {}

TraceInv ==
  \A k \in Keys : starts[k] <= 1 /\ (starts[k] = 1 => Noted(idem, k) \/ Settled)

HarnessInv == TypeOK /\ Sound(breaker) /\ OrderInv /\ ExecInv /\ TraceInv

LEMMA ExecInjective == TypeOK /\ ExecInv => Injective(idem)
BY DEF TypeOK, ExecInv, Injective, Guards

\* A call goes on: the order of the calls, when those in line keep theirs.
LEMMA OrderKept ==
  ASSUME TypeOK, OrderInv, NEW c \in Calls,
         where[c] \in {"queued"} \cup Busy, where'[c] \in {"over"} \cup Busy,
         \A d \in Calls : d # c => where'[d] = where[d],
         where[c] = "queued" => \A d \in At("queued") : c <= d,
         sent' = sent, batch' \in {batch, {}}
  PROVE  OrderInv'
<1>1. \A d \in Calls : where'[d] = "new" <=> where[d] = "new"
  BY DEF Busy
<1>2. ASSUME NEW b \in Calls, NEW d \in Calls, where'[b] \in Busy, where'[d] = "queued"
      PROVE  b < d
  <2>1. where[d] = "queued" /\ d # c
    BY <1>2 DEF Busy
  <2>2. CASE b # c
    BY <1>2, <2>1, <2>2 DEF OrderInv
  <2>3. CASE b = c
    BY <2>1, <2>3 DEF OrderInv, At, Calls
  <2>. QED
    BY <2>2, <2>3
<1>. QED
  BY <1>1, <1>2 DEF OrderInv

\* Executors disappear, and calls leave the line: those left stay sound.
LEMMA ExecKept ==
  ASSUME TypeOK, ExecInv, UNCHANGED arg,
         \A k \in Keys : idem'.executor[k] \in {0, idem.executor[k]},
         \A c \in Calls : where'[c] \in {"new", "queued"} => where'[c] = where[c]
  PROVE  ExecInv'
BY DEF TypeOK, ExecInv, Guards

LEMMA TraceKept ==
  ASSUME TraceInv, UNCHANGED starts, phase' \in {phase, "idle"},
         \A k \in Keys : Noted(idem, k) => Noted(idem', k),
         \A c \in Calls : where'[c] = "queued" => where[c] = "queued"
  PROVE  TraceInv'
BY DEF TraceInv, Settled, At

\* How a call ends: it returns, or it raises and its batch with it.
LEMMA Ended ==
  ASSUME TypeOK, NEW c \in Calls, Leave(c) \/ Raise(c)
  PROVE  /\ where' \in [Calls -> {"new", "queued", "waiting", "running", "after", "over"}]
         /\ where'[c] = "over" /\ \A d \in Calls : d # c => where'[d] = where[d]
         /\ phase' \in {phase, "idle"} /\ batch' \in {batch, {}}
         /\ UNCHANGED <<turns, sent>>
BY DEF TypeOK, Leave, Raise, Gone, control

\* A step of a call that leaves the breaker and the guards sound.
LEMMA CallGoesOn ==
  ASSUME HarnessInv, NEW c \in Calls,
         where[c] \in {"queued"} \cup Busy,
         where' \in [Calls -> {"new", "queued", "waiting", "running", "after", "over"}],
         where'[c] \in {"over"} \cup Busy, \A d \in Calls : d # c => where'[d] = where[d],
         where[c] = "queued" => \A d \in At("queued") : c <= d,
         phase' \in {phase, "idle"}, batch' \in {batch, {}}, UNCHANGED <<turns, sent>>,
         awaits' \in [Calls -> Calls \cup {0}], attempts' \in Nat, Sound(breaker'),
         UNCHANGED <<arg, enabled>>,
         idem' \in Guards
  PROVE  /\ OrderInv'
         /\ UNCHANGED starts => TypeOK'
         /\ starts' \in [Keys -> Nat] => TypeOK'
         /\ (\A k \in Keys : idem'.executor[k] \in {0, idem.executor[k]}) => ExecInv'
         /\ /\ UNCHANGED starts
            /\ \A k \in Keys : Noted(idem, k) => Noted(idem', k)
            => TraceInv'
<1>1. OrderInv'
  BY OrderKept DEF HarnessInv
<1>2. UNCHANGED starts \/ starts' \in [Keys -> Nat] => TypeOK'
  BY DEF HarnessInv, TypeOK, Sound
<1>3. ASSUME \A k \in Keys : idem'.executor[k] \in {0, idem.executor[k]}
      PROVE  ExecInv'
  BY <1>3, ExecKept DEF HarnessInv, Busy
<1>4. ASSUME UNCHANGED starts, \A k \in Keys : Noted(idem, k) => Noted(idem', k)
      PROVE  TraceInv'
  BY <1>4, TraceKept DEF HarnessInv, Busy
<1>. QED
  BY <1>1, <1>2, <1>3, <1>4

LEMMA InLine ==
  ASSUME HarnessInv, NEW c \in Calls, NextInLine(c)
  PROVE  where[c] = "queued" /\ \A d \in At("queued") : c <= d
BY DEF NextInLine

\* A call is refused, gets the result of another one, or waits for it.
LEMMA InvAnswered ==
  ASSUME HarnessInv, NEW c \in Calls,
         Refuse(c) \/ Deduplicate(c) \/ Wait(c) \/ Woken(c)
  PROVE  HarnessInv'
<1> DEFINE Stages == {"new", "queued", "waiting", "running", "after", "over"}
<1>1. /\ where[c] \in {"queued"} \cup Busy
      /\ where[c] = "queued" => \A d \in At("queued") : c <= d
  BY InLine DEF Refuse, Deduplicate, Wait, Pass, Woken, Busy
<1>2. /\ where' \in [Calls -> Stages]
      /\ where'[c] \in {"over"} \cup Busy
      /\ \A d \in Calls : d # c => where'[d] = where[d]
      /\ phase' \in {phase, "idle"} /\ batch' \in {batch, {}} /\ UNCHANGED <<turns, sent>>
  <2>1. CASE Leave(c) \/ Raise(c)
    BY <2>1, Ended DEF HarnessInv
  <2>2. CASE Wait(c)
    BY <2>2 DEF Wait, HarnessInv, TypeOK, control, Busy
  <2>. QED
    BY <2>1, <2>2 DEF Refuse, Deduplicate, Woken, Report
<1>3. awaits' \in [Calls -> Calls \cup {0}]
  <2>1. idem.executor[arg[c]] \in Calls \cup {0}
    BY DEF HarnessInv, TypeOK, Guards
  <2>. QED
    BY <2>1 DEF HarnessInv, TypeOK, Refuse, Deduplicate, Wait, Woken
<1>4. attempts' \in Nat
  BY DEF HarnessInv, TypeOK, Refuse, Deduplicate, Wait, Pass, Woken, Counted
<1>5. Sound(breaker')
  BY AllowedSound DEF HarnessInv, Refuse, Deduplicate, Wait, Pass, Woken
<1>6. UNCHANGED <<arg, enabled, idem, starts>>
  BY DEF Refuse, Deduplicate, Wait, Woken
<1>7. idem' \in Guards /\ \A k \in Keys : idem'.executor[k] \in {0, idem.executor[k]}
  BY <1>6 DEF HarnessInv, TypeOK
<1>8. \A k \in Keys : Noted(idem, k) => Noted(idem', k)
  BY <1>6
<1>9. OrderInv' /\ TypeOK' /\ ExecInv' /\ TraceInv'
  BY <1>1, <1>2, <1>3, <1>4, <1>5, <1>6, <1>7, <1>8, CallGoesOn
<1>. QED
  BY <1>5, <1>9 DEF HarnessInv

\* A call executes for its key: no other call of this key is noted.
LEMMA Registration ==
  ASSUME HarnessInv, NEW c \in Calls, where[c] = "queued"
  PROVE  /\ Registered(c) \in Guards
         /\ Injective(Registered(c))
         /\ \A l \in Keys : Registered(c).executor[l]
                              = IF l = arg[c] THEN c ELSE idem.executor[l]
         /\ \A l \in Keys : l # arg[c] /\ Noted(idem, l) => Noted(Registered(c), l)
         /\ Noted(Registered(c), arg[c])
         /\ c # 0 /\ arg[c] \in Keys
<1>1. \A k \in Keys : idem.executor[k] # c
  BY ToolHarnessAssumption
  DEF HarnessInv, ExecInv, Calls, ToolHarnessAssumption
<1>2. idem \in Guards /\ Injective(idem) /\ arg[c] \in Keys
  BY ExecInjective DEF HarnessInv, TypeOK
<1>3. c # 0
  BY ToolHarnessAssumption DEF ToolHarnessAssumption, Calls
<1>. QED
  BY <1>1, <1>2, <1>3, RegisterEffect

\* As long as a call is in line, a key without a trace has not been executed.
LEMMA NotExecuted ==
  ASSUME HarnessInv, NEW c \in Calls, where[c] = "queued", NEW k \in Keys,
         ~Noted(idem, k)
  PROVE  starts[k] = 0
<1>1. ~Settled
  BY DEF Settled, At
<1>. QED
  BY <1>1 DEF HarnessInv, TraceInv, TypeOK

LEMMA InvStart ==
  ASSUME HarnessInv, NEW c \in Calls, Start(c)
  PROVE  HarnessInv'
<1>1. /\ where[c] = "queued" /\ \A d \in At("queued") : c <= d
      /\ where' = [where EXCEPT ![c] = "running"]
      /\ idem' = Registered(c)
      /\ starts' = [starts EXCEPT ![arg[c]] = @ + 1]
      /\ UNCHANGED <<phase, turns, sent, batch, arg, awaits, enabled>>
      /\ attempts' = attempts + 1 /\ breaker' \in Allowed
  BY InLine DEF Start, Pass, Counted, control
<1>2. Fresh(c) /\ idem.executor[arg[c]] = 0
  BY DEF Start
<1>3. Sound(breaker')
  BY <1>1, AllowedSound DEF HarnessInv
<1>4. starts[arg[c]] = 0
  BY <1>1, <1>2, NotExecuted, Registration DEF Fresh, Noted
<1>5. starts' \in [Keys -> Nat] /\ \A k \in Keys : starts'[k] = IF k = arg[c] THEN 1 ELSE starts[k]
  BY <1>1, <1>4 DEF HarnessInv, TypeOK
<1>6. /\ where' \in [Calls -> {"new", "queued", "waiting", "running", "after", "over"}]
      /\ where'[c] = "running" /\ \A d \in Calls : d # c => where'[d] = where[d]
  BY <1>1 DEF HarnessInv, TypeOK
<1>7. OrderInv' /\ TypeOK'
  <2>1. idem' \in Guards /\ attempts' \in Nat /\ awaits' \in [Calls -> Calls \cup {0}]
    BY <1>1, Registration DEF HarnessInv, TypeOK
  <2>. QED
    BY <1>1, <1>3, <1>5, <1>6, <2>1, CallGoesOn DEF Busy
<1>8. ExecInv'
  BY <1>1, <1>6, Registration DEF HarnessInv, TypeOK, ExecInv, Guards
<1>9. TraceInv'
  <2>1. ASSUME NEW k \in Keys
        PROVE  starts'[k] <= 1 /\ (starts'[k] = 1 => Noted(idem', k))
    <3>1. CASE k = arg[c]
      BY <1>1, <1>5, <3>1, Registration
    <3>2. CASE k # arg[c]
      <4>1. starts[k] \in Nat /\ starts[k] <= 1
        BY DEF HarnessInv, TypeOK, TraceInv
      <4>2. starts[k] = 1 => Noted(idem, k)
        BY <1>1, <4>1, NotExecuted
      <4>. QED
        BY <1>1, <1>5, <3>2, <4>1, <4>2, Registration
    <3>. QED
      BY <3>1, <3>2
  <2>. QED
    BY <2>1 DEF TraceInv
<1>. QED
  BY <1>3, <1>7, <1>8, <1>9 DEF HarnessInv

LEMMA InvStartDisabled ==
  ASSUME HarnessInv, NEW c \in Calls, StartDisabled(c)
  PROVE  HarnessInv'
<1> DEFINE R == Registered(c)
<1>1. /\ where[c] = "queued" /\ \A d \in At("queued") : c <= d
      /\ attempts' = attempts + 1 /\ UNCHANGED <<arg, awaits, enabled, starts>>
  BY InLine DEF StartDisabled, Counted
<1>2. Sound(breaker')
  <2>1. PICK b \in Allowed : breaker' = OnFailure(b)
    BY DEF StartDisabled
  <2>. QED
    BY <2>1, AllowedSound, FailureSound DEF HarnessInv
<1>3. \/ where' = [where EXCEPT ![c] = "after"] /\ idem' = R /\ UNCHANGED control
      \/ Raise(c) /\ idem' = Complete(R, arg[c], "result")
  BY DEF StartDisabled
<1>4. /\ where' \in [Calls -> {"new", "queued", "waiting", "running", "after", "over"}]
      /\ where'[c] \in {"after", "over"} /\ \A d \in Calls : d # c => where'[d] = where[d]
      /\ phase' \in {phase, "idle"} /\ batch' \in {batch, {}} /\ UNCHANGED <<turns, sent>>
  BY <1>3, Ended DEF HarnessInv, TypeOK, control
<1>5. /\ R \in Guards /\ Injective(R) /\ c # 0 /\ arg[c] \in Keys
      /\ \A l \in Keys : R.executor[l] = IF l = arg[c] THEN c ELSE idem.executor[l]
      /\ \A l \in Keys : Noted(idem, l) => Noted(R, l)
  BY <1>1, Registration
<1>6. /\ idem' \in Guards
      /\ \A l \in Keys : idem'.executor[l] \in {0, R.executor[l]}
      /\ \A l \in Keys : Noted(R, l) => Noted(idem', l)
  <2>1. "result" \in Outcomes
    BY DEF Outcomes
  <2>. QED
    BY <1>3, <1>5, <2>1, CompleteEffect
<1>7. awaits' \in [Calls -> Calls \cup {0}] /\ attempts' \in Nat
  BY <1>1 DEF HarnessInv, TypeOK
<1>8. OrderInv' /\ TypeOK' /\ TraceInv'
  <2>1. \A l \in Keys : Noted(idem, l) => Noted(idem', l)
    BY <1>5, <1>6
  <2>. QED
    BY <1>1, <1>2, <1>4, <1>6, <1>7, <2>1, CallGoesOn DEF Busy
<1>9. ExecInv'
  <2> SUFFICES ASSUME NEW k \in Keys, idem'.executor[k] # 0
               PROVE  /\ arg'[idem'.executor[k]] = k
                      /\ where'[idem'.executor[k]] \notin {"new", "queued"}
    BY DEF ExecInv
  <2>1. idem'.executor[k] = R.executor[k]
    BY <1>6
  <2>2. CASE k = arg[c]
    BY <1>1, <1>4, <1>5, <2>1, <2>2
  <2>3. CASE k # arg[c]
    <3>1. idem'.executor[k] = idem.executor[k] /\ idem.executor[k] \in Calls
      BY <1>5, <2>1, <2>3 DEF HarnessInv, TypeOK, Guards
    <3>. QED
      BY <1>1, <1>4, <3>1 DEF HarnessInv, ExecInv
  <2>. QED
    BY <2>2, <2>3
<1>. QED
  BY <1>2, <1>8, <1>9 DEF HarnessInv

\* The tool returns, and the guards and the audit log take note; or the call
\* is over.
LEMMA InvToolEnds ==
  ASSUME HarnessInv, NEW c \in Calls, ToolEnds(c) \/ Finish(c)
  PROVE  HarnessInv'
<1>0. "result" \in Outcomes /\ idem \in Guards /\ Injective(idem) /\ arg[c] \in Keys
  BY ExecInjective DEF Outcomes, HarnessInv, TypeOK
<1>1. where[c] \in {"running", "after"} /\ UNCHANGED <<arg, awaits, enabled, attempts, starts>>
  BY DEF ToolEnds, Finish
<1>2. Sound(breaker')
  BY FailureSound, SuccessSound DEF HarnessInv, ToolEnds, Finish
<1>3. PICK noted \in {idem, Store(arg[c])} :
        \/ where' = [where EXCEPT ![c] = "after"] /\ idem' = noted /\ UNCHANGED control
        \/ (Raise(c) \/ Leave(c)) /\ idem' = Complete(noted, arg[c], "result")
  BY DEF ToolEnds, Finish
<1>4. /\ where' \in [Calls -> {"new", "queued", "waiting", "running", "after", "over"}]
      /\ where'[c] \in {"after", "over"} /\ \A d \in Calls : d # c => where'[d] = where[d]
      /\ phase' \in {phase, "idle"} /\ batch' \in {batch, {}} /\ UNCHANGED <<turns, sent>>
  BY <1>3, Ended DEF HarnessInv, TypeOK, control
<1>5. /\ noted \in Guards /\ Injective(noted)
      /\ \A l \in Keys : noted.executor[l] \in {0, idem.executor[l]}
      /\ \A l \in Keys : Noted(idem, l) => Noted(noted, l)
  BY <1>0, StoreEffect
<1>6. /\ idem' \in Guards
      /\ \A l \in Keys : idem'.executor[l] \in {0, noted.executor[l]}
      /\ \A l \in Keys : Noted(noted, l) => Noted(idem', l)
  BY <1>0, <1>3, <1>5, CompleteEffect
<1>7. awaits' \in [Calls -> Calls \cup {0}] /\ attempts' \in Nat
  BY <1>1 DEF HarnessInv, TypeOK
<1>8. OrderInv' /\ TypeOK' /\ ExecInv' /\ TraceInv'
  <2>1. /\ \A l \in Keys : idem'.executor[l] \in {0, idem.executor[l]}
        /\ \A l \in Keys : Noted(idem, l) => Noted(idem', l)
    BY <1>5, <1>6
  <2>. QED
    BY <1>1, <1>2, <1>4, <1>6, <1>7, <2>1, CallGoesOn DEF Busy
<1>. QED
  BY <1>2, <1>8 DEF HarnessInv

\* A new step resets the guards, and its calls are numbered after all others.
LEMMA InvTurn ==
  ASSUME HarnessInv, NewTurn \/ Dispatch \/ Return
  PROVE  HarnessInv'
<1>1. CASE NewTurn
  <2>1. idem' \in Guards /\ \A k \in Keys : idem'.executor[k] = 0
    <3>1. idem' = [cached |-> {}, failed |-> {}, executor |-> NoExecutor,
                   future |-> idem.future]
      BY <1>1 DEF NewTurn, HarnessInv, TypeOK, Guards
    <3>. QED
      BY <3>1 DEF HarnessInv, TypeOK, Guards, NoExecutor
  <2>2. TypeOK'
    BY <1>1, <2>1 DEF NewTurn, HarnessInv, TypeOK, work
  <2>3. OrderInv' /\ Sound(breaker')
    BY <1>1 DEF NewTurn, HarnessInv, OrderInv, work
  <2>4. ExecInv' /\ TraceInv'
    BY <1>1, <2>1 DEF NewTurn, ExecInv, TraceInv
  <2>. QED
    BY <2>2, <2>3, <2>4 DEF HarnessInv
<1>2. CASE Dispatch
  <2>1. PICK last \in Calls :
          /\ last > sent /\ sent' = last /\ batch' = (sent + 1)..last
          /\ where' = [c \in Calls |-> IF c \in batch' THEN "queued" ELSE where[c]]
          /\ \E a \in [batch' -> Keys] :
               arg' = [c \in Calls |-> IF c \in batch' THEN a[c] ELSE arg[c]]
    BY <1>2 DEF Dispatch
  <2>2. phase = "ready" /\ phase' = "acting"
          /\ UNCHANGED <<turns, awaits, enabled, attempts, breaker, idem, starts>>
    BY <1>2 DEF Dispatch
  <2>3. /\ sent \in Nat /\ last \in Nat /\ batch' \subseteq Calls
        /\ \A c \in Calls : c \in Nat /\ (c \in batch' <=> c > sent /\ c <= last)
    BY <2>1, ToolHarnessAssumption
    DEF HarnessInv, TypeOK, Calls, ToolHarnessAssumption
  <2>4. arg' \in [Calls -> Keys] /\ \A c \in Calls \ batch' : arg'[c] = arg[c]
    BY <2>1 DEF HarnessInv, TypeOK
  <2>5. TypeOK'
    BY <2>1, <2>2, <2>3, <2>4 DEF HarnessInv, TypeOK
  <2>6. OrderInv'
    <3>1. \A c \in Calls : where'[c] = "new" <=> c > sent'
      BY <2>1, <2>3 DEF HarnessInv, OrderInv
    <3>2. \A c \in batch' : c <= sent' /\ \A d \in Calls \ batch' : d <= sent' => d < c
      BY <2>1, <2>3
    <3>3. \A c, d \in Calls : where'[c] \in Busy /\ where'[d] = "queued" => c < d
      BY <2>1, <2>3 DEF HarnessInv, OrderInv, Busy
    <3>. QED
      BY <3>1, <3>2, <3>3 DEF OrderInv
  <2>7. ExecInv'
    <3> SUFFICES ASSUME NEW k \in Keys, idem.executor[k] # 0
                 PROVE  /\ arg'[idem.executor[k]] = k
                        /\ where'[idem.executor[k]] \notin {"new", "queued"}
      BY <2>2 DEF ExecInv
    <3>1. idem.executor[k] \in Calls /\ arg[idem.executor[k]] = k
            /\ where[idem.executor[k]] \notin {"new", "queued"}
      BY DEF HarnessInv, TypeOK, Guards, ExecInv
    <3>2. idem.executor[k] \notin batch'
      BY <2>3, <3>1 DEF HarnessInv, OrderInv
    <3>. QED
      BY <2>1, <2>4, <3>1, <3>2
  <2>8. TraceInv'
    BY <2>2 DEF HarnessInv, TraceInv, Settled
  <2>. QED
    BY <2>2, <2>5, <2>6, <2>7, <2>8 DEF HarnessInv
<1>3. CASE Return
  <2>1. phase' = "idle" /\ batch' = {} /\ UNCHANGED <<turns, sent>> /\ UNCHANGED work
          /\ UNCHANGED <<enabled, attempts, breaker, idem, starts>>
    BY <1>3 DEF Return
  <2>2. TypeOK' /\ OrderInv' /\ ExecInv'
    BY <2>1 DEF HarnessInv, TypeOK, OrderInv, ExecInv, work
  <2>3. TraceInv'
    BY <2>1 DEF HarnessInv, TraceInv, Settled, At, work
  <2>. QED
    BY <2>1, <2>2, <2>3 DEF HarnessInv
<1>. QED
  BY <1>1, <1>2, <1>3

\* When a batch is killed its calls leave the line.  If one of them was past
\* the line, nobody is left in it; otherwise the guard has nothing to settle.
LEMMA InvKill ==
  ASSUME HarnessInv, Kill
  PROVE  HarnessInv'
<1> DEFINE dead == {awaits[c] : c \in batch \cap At("waiting")}
           keys == {arg[c] : c \in batch \cap Executing}
           left == {k \in keys : idem.executor[k] # 0}
           own == {idem.executor[k] : k \in left}
           live == {c \in own \ dead : idem.future[c] = "pending"}
           executor == [k \in Keys |-> IF k \in keys THEN 0 ELSE idem.executor[k]]
           future == [c \in Calls |-> IF c \in dead \cup own /\ idem.future[c] = "pending"
                                      THEN "error" ELSE idem.future[c]]
           failed == idem.failed \cup {k \in left : idem.executor[k] \in live}
<1>1. /\ phase' = "idle" /\ batch' = {}
      /\ where' = Gone(batch)
      /\ awaits' = [c \in Calls |-> IF c \in batch THEN 0 ELSE awaits[c]]
      /\ UNCHANGED <<turns, sent, arg, enabled, attempts, breaker, starts>>
  BY DEF Kill
<1>2. idem' = [idem EXCEPT !.executor = executor, !.future = future, !.failed = failed]
  BY DEF Kill, HarnessInv, TypeOK, Guards
<1> HIDE DEF executor, future, failed
<1>3. /\ idem'.executor = executor /\ idem'.future = future
      /\ idem'.failed = failed /\ idem'.cached = idem.cached
      /\ idem' = [cached |-> idem'.cached, failed |-> idem'.failed,
                  executor |-> idem'.executor, future |-> idem'.future]
  BY <1>2 DEF HarnessInv, TypeOK, Guards
<1>4. keys \subseteq Keys /\ idem \in Guards /\ batch \subseteq Calls
  BY DEF HarnessInv, TypeOK
<1>5. idem' \in Guards
  <2>1. executor \in [Keys -> Calls \cup {0}]
    BY <1>4 DEF executor, Guards
  <2>2. future \in [Calls -> {"none", "pending", "result", "error"}]
    BY <1>4 DEF future, Guards
  <2>3. failed \subseteq Keys
    BY <1>4 DEF failed, Guards
  <2>. QED
    BY <1>3, <1>4, <2>1, <2>2, <2>3 DEF Guards
<1>6. \A c \in Calls : where'[c] = IF c \in batch THEN "over" ELSE where[c]
  BY <1>1 DEF Gone
<1>7. TypeOK' /\ Sound(breaker')
  <2>1. where' \in [Calls -> {"new", "queued", "waiting", "running", "after", "over"}]
    BY <1>1 DEF Gone, HarnessInv, TypeOK
  <2>2. awaits' \in [Calls -> Calls \cup {0}]
    BY <1>1 DEF HarnessInv, TypeOK
  <2>. QED
    BY <1>1, <1>5, <2>1, <2>2 DEF HarnessInv, TypeOK
<1>8. OrderInv'
  <2>1. \A c \in Calls : where'[c] = "new" <=> where[c] = "new"
    BY <1>4, <1>6 DEF HarnessInv, OrderInv, TypeOK, Calls
  <2>. QED
    BY <1>1, <1>6, <2>1 DEF HarnessInv, OrderInv, Busy
<1>9. ExecInv'
  <2>1. \A k \in Keys : idem'.executor[k] \in {0, idem.executor[k]}
    BY <1>3 DEF executor
  <2>. QED
    BY <1>1, <1>6, <2>1, ExecKept DEF HarnessInv
<1>10. TraceInv'
  <2>1. CASE \E c \in batch : where[c] \in Busy
    <3>1. PICK c \in batch : where[c] \in Busy
      BY <2>1
    <3>2. ASSUME NEW d \in Calls, where'[d] = "queued"
          PROVE  FALSE
      <4>1. d \notin batch /\ where[d] = "queued"
        BY <1>6, <3>2
      <4>2. d <= sent
        BY <4>1 DEF HarnessInv, OrderInv, TypeOK, Calls
      <4>3. d < c /\ c < d
        BY <1>4, <3>1, <4>1, <4>2 DEF HarnessInv, OrderInv
      <4>. QED
        BY <1>4, <4>3 DEF Calls
    <3>3. Settled'
      BY <1>1, <3>2 DEF Settled, At
    <3>. QED
      BY <1>1, <3>3 DEF HarnessInv, TraceInv
  <2>2. CASE ~\E c \in batch : where[c] \in Busy
    <3>1. keys = {} /\ dead = {} /\ left = {} /\ own = {}
      BY <2>2 DEF At, Executing, Busy
    <3>2. /\ \A k \in Keys : executor[k] = idem.executor[k]
          /\ \A c \in Calls : future[c] = idem.future[c]
          /\ failed = idem.failed
      BY <3>1 DEF executor, future, failed
    <3>3. \A k \in Keys : Noted(idem, k) => Noted(idem', k)
      BY <1>3, <1>4, <3>2 DEF Noted, Guards
    <3>4. \A c \in Calls : where'[c] = "queued" => where[c] = "queued"
      BY <1>6
    <3>. QED
      BY <1>1, <3>3, <3>4, TraceKept DEF HarnessInv
  <2>. QED
    BY <2>1, <2>2
<1>. QED
  BY <1>7, <1>8, <1>9, <1>10 DEF HarnessInv

LEMMA InvInductive == HarnessInv /\ [Next]_vars => HarnessInv'
<1> SUFFICES ASSUME HarnessInv, [Next]_vars
             PROVE  HarnessInv'
  OBVIOUS
<1>1. CASE UNCHANGED vars
  BY <1>1
  DEF vars, control, work, HarnessInv, TypeOK, Sound, OrderInv, ExecInv, TraceInv, Settled, At,
      Noted
<1>2. CASE NewTurn \/ Dispatch \/ Return
  BY <1>2, InvTurn
<1>3. CASE Kill
  BY <1>3, InvKill
<1>4. ASSUME NEW c \in Calls, Step(c)
      PROVE  HarnessInv'
  BY <1>4, InvAnswered, InvStart, InvStartDisabled, InvToolEnds DEF Step
<1>. QED
  BY <1>1, <1>2, <1>3, <1>4 DEF Next

LEMMA InitInv == Init => HarnessInv
<1> SUFFICES ASSUME Init
             PROVE  HarnessInv
  OBVIOUS
<1>1. (CHOOSE k \in Keys : TRUE) \in Keys
  BY ToolHarnessAssumption DEF ToolHarnessAssumption
<1>2. idem \in Guards /\ \A k \in Keys : idem.executor[k] = 0
  BY DEF Init, Guards, NoExecutor
<1>3. Sound(breaker)
  BY ToolHarnessAssumption DEF Init, Sound, Breakers, ToolHarnessAssumption
<1>4. TypeOK
  BY <1>1, <1>2, <1>3 DEF Init, TypeOK, Sound
<1>5. OrderInv
  <2>1. \A c \in Calls : c > 0
    BY ToolHarnessAssumption DEF Calls, ToolHarnessAssumption
  <2>. QED
    BY <2>1 DEF Init, OrderInv, Busy
<1>6. ExecInv /\ TraceInv
  BY <1>2 DEF Init, ExecInv, TraceInv
<1>. QED
  BY <1>3, <1>4, <1>5, <1>6 DEF HarnessInv

LEMMA InvAlways == Spec => []HarnessInv
<1>. QED
  BY InitInv, InvInductive, PTL DEF Spec

\* The types of ToolHarness hold always; the cooldown never passes its bound.
THEOREM TypeCorrect == Spec => []TypeOK
<1>1. HarnessInv => TypeOK
  BY DEF HarnessInv
<1>. QED
  BY <1>1, InvAlways, PTL

\* Between two resets the tool runs at most once for the same arguments,
\* whatever raises, fails, is killed, or is left over from an earlier step.
THEOREM ToolRunsOncePerTurn == Spec => []OncePerTurn
<1>1. HarnessInv => OncePerTurn
  BY DEF HarnessInv, TraceInv, OncePerTurn
<1>. QED
  BY <1>1, InvAlways, PTL

\* A breaker at its last cooldown stays open, and no call gets past it.
THEOREM PermanentBreakerStaysOpen == Spec => StaysOpen
<1> DEFINE Kept == Permanent => Permanent' /\ \A k \in Keys : starts'[k] <= starts[k]
<1>1. HarnessInv /\ [Next]_vars => [Kept]_vars
  <2> SUFFICES ASSUME HarnessInv, Permanent, Next
               PROVE  Permanent' /\ \A k \in Keys : starts'[k] <= starts[k]
    OBVIOUS
  <2>0. Allowed = {} /\ breaker.state = "open" /\ breaker.level = MaxLevel
          /\ \A k \in Keys : starts[k] \in Nat
    BY ToolHarnessAssumption
    DEF ToolHarnessAssumption, Permanent, Allowed, HarnessInv, TypeOK
  <2>1. ASSUME UNCHANGED breaker,
               UNCHANGED starts \/ \A k \in Keys : starts'[k] = 0
        PROVE  Permanent' /\ \A k \in Keys : starts'[k] <= starts[k]
    BY <2>0, <2>1 DEF Permanent
  <2>2. CASE NewTurn \/ Dispatch \/ Return \/ Kill
    BY <2>1, <2>2 DEF NewTurn, Dispatch, Return, Kill
  <2>3. ASSUME NEW c \in Calls, Refuse(c) \/ Woken(c) \/ Finish(c)
        PROVE  Permanent' /\ \A k \in Keys : starts'[k] <= starts[k]
    BY <2>1, <2>3 DEF Refuse, Woken, Finish
  <2>4. ASSUME NEW c \in Calls, Deduplicate(c) \/ Wait(c) \/ Start(c) \/ StartDisabled(c)
        PROVE  FALSE
    BY <2>0, <2>4 DEF Deduplicate, Wait, Start, StartDisabled, Pass
  <2>5. ASSUME NEW c \in Calls, ToolEnds(c)
        PROVE  Permanent' /\ \A k \in Keys : starts'[k] <= starts[k]
    <3>1. breaker' \in {OnSuccess, OnFailure(breaker)} /\ UNCHANGED starts
      BY <2>5 DEF ToolEnds
    <3>2. OnSuccess = breaker
      BY <2>0 DEF OnSuccess
    <3>3. OnFailure(breaker).state = "open" /\ OnFailure(breaker).level = MaxLevel
      BY <2>0 DEF OnFailure
    <3>. QED
      BY <2>0, <3>1, <3>2, <3>3 DEF Permanent
  <2>. QED
    BY <2>2, <2>3, <2>4, <2>5 DEF Next, Step
<1>. QED
  BY <1>1, InvAlways, PTL DEF Spec, StaysOpen

-----------------------------------------------------------------------------
(* Batches go on.  A waiting call is told when the future it waits for is  *)
(* settled, or will be by the executor registered for its key.  A reset of *)
(* the guards may leave waiting calls that nobody will tell; they keep     *)
(* their permits, but belong to no batch, and at least one permit is not   *)
(* theirs: the one of the call they were waiting for.                      *)

Told(g, k, d) == g.future[d] \in Outcomes \/ g.executor[k] = d

Forgotten == {c \in At("waiting") : ~Told(idem, arg[c], awaits[c])}

\* Executors have a future, whether or not it is settled.
Futures(g) == \A k \in Keys : g.executor[k] # 0 => g.future[g.executor[k]] # "none"

InUse == At("waiting") \cup Executing

GoesOnInv ==
  /\ Futures(idem)
  /\ \A k \in Keys : idem.executor[k] # 0 => idem.executor[k] \in Executing
  /\ \A c \in At("waiting") : awaits[c] \in Calls /\ where[awaits[c]] \notin {"new", "queued"}
  /\ phase # "acting" => batch = {}
  /\ Forgotten \cap batch = {}
  /\ Cardinality(Forgotten) < Permits
  /\ Cardinality(InUse) <= Permits

\* Only the event loop keeps c from its next step: it executes, what it waits
\* for is settled, or it is the next to get a permit.
CanGoOn(c) ==
  \/ c \in Executing
  \/ c \in At("waiting") /\ idem.future[awaits[c]] \in Outcomes
  \/ NextInLine(c)

\* A batch can return, or a call is about to go on that brings its end nearer.
BatchGoesOn ==
  phase = "acting" => batch \subseteq At("over") \/ \E c \in Calls : CanGoOn(c)

LEMMA CallsFinite ==
  ASSUME NEW S \in SUBSET Calls
  PROVE  IsFiniteSet(S) /\ Cardinality(S) \in Nat
<1>1. IsFiniteSet(Calls)
  BY ToolHarnessAssumption, FS_Interval DEF ToolHarnessAssumption, Calls
<1>. QED
  BY <1>1, FS_Subset, FS_CardinalityType

\* Of some calls in line one is the first.
LEMMA FirstInLine ==
  ASSUME NEW S \in SUBSET Calls, S # {}
  PROVE  \E c \in S : \A d \in S : c <= d
<1>1. S \in SUBSET Nat
  BY ToolHarnessAssumption DEF ToolHarnessAssumption, Calls
<1>2. PICK c \in S : \A d \in S : <<d, c>> \notin OpToRel(<, Nat)
  BY <1>1, WFMin, NatLessThanWellFounded
<1>3. \A d \in S : ~(d < c)
  BY <1>1, <1>2 DEF OpToRel
<1>. QED
  BY <1>1, <1>3

LEMMA GoesOnInvGoesOn == HarnessInv /\ GoesOnInv => BatchGoesOn
<1> SUFFICES ASSUME HarnessInv, GoesOnInv, phase = "acting",
                    \A c \in Calls : ~CanGoOn(c), ~(batch \subseteq At("over"))
             PROVE  FALSE
  BY DEF BatchGoesOn
<1>1. Executing = {}
  BY DEF CanGoOn, Executing, At
<1>2. At("waiting") = Forgotten
  BY <1>1 DEF GoesOnInv, CanGoOn, Forgotten, Told, HarnessInv, TypeOK, At, Calls
<1>3. PICK b \in batch : where[b] # "over" /\ b \in Calls
  BY DEF At, HarnessInv, TypeOK
<1>4. where[b] = "queued"
  <2>1. where[b] # "new"
    BY <1>3 DEF HarnessInv, TypeOK, OrderInv, Calls
  <2>2. where[b] # "waiting"
    BY <1>2, <1>3 DEF GoesOnInv, At
  <2>. QED
    BY <1>1, <1>3, <2>1, <2>2 DEF HarnessInv, TypeOK, Executing, At
<1>5. PICK c \in At("queued") : \A d \in At("queued") : c <= d
  BY <1>3, <1>4, FirstInLine DEF At
<1>6. NextInLine(c)
  BY <1>1, <1>2, <1>5 DEF NextInLine, GoesOnInv, At
<1>. QED
  BY <1>5, <1>6 DEF CanGoOn, At

\* From g to h nobody is forgotten who was told, but those who wait for c.
Keeps(g, h) == \A k \in Keys, d \in Calls : Told(g, k, d) => Told(h, k, d)

LEMMA SettleKeeps ==
  ASSUME NEW g \in Guards, Futures(g), NEW k \in Keys, NEW v \in Outcomes
  PROVE  Futures(Settle(g, k, v)) /\ Keeps(g, Settle(g, k, v))
<1> DEFINE s == Settle(g, k, v)
<1>1. /\ \A l \in Keys : s.executor[l] = IF l = k THEN 0 ELSE g.executor[l]
      /\ \A d \in Calls : s.future[d]
           = IF d = g.executor[k] /\ g.future[d] = "pending" THEN v ELSE g.future[d]
  BY SettleEffect
<1>2. \A l \in Keys : g.executor[l] # 0 => g.executor[l] \in Calls
  BY DEF Guards
<1> HIDE DEF s
<1>3. Futures(s)
  BY <1>1, <1>2 DEF Futures, Outcomes
<1>4. ASSUME NEW l \in Keys, NEW d \in Calls, Told(g, l, d)
      PROVE  Told(s, l, d)
  <2>1. d # 0 /\ g.future[d] \in {"none", "pending", "result", "error"}
    BY ToolHarnessAssumption DEF ToolHarnessAssumption, Calls, Guards
  <2>. QED
    BY <1>1, <1>4, <2>1 DEF Told, Futures, Outcomes
<1>. QED
  BY <1>3, <1>4 DEF s, Keeps

LEMMA CompleteKeeps ==
  ASSUME NEW g \in Guards, Futures(g), NEW k \in Keys
  PROVE  /\ Futures(Complete(g, k, "result")) /\ Keeps(g, Complete(g, k, "result"))
         /\ Complete(g, k, "result").executor[k] = 0
<1> DEFINE s == Settle(g, k, "result")
           f == [s EXCEPT !.failed = @ \cup {k}]
<1>1. s \in Guards /\ Futures(s) /\ Keeps(g, s) /\ s.executor[k] = 0
  BY SettleKeeps, SettleEffect DEF Outcomes
<1>2. f.executor = s.executor /\ f.future = s.future
  BY <1>1 DEF Guards
<1>3. Complete(g, k, "result") \in {s, f}
  BY DEF Complete
<1> HIDE DEF s, f
<1>. QED
  BY <1>1, <1>2, <1>3 DEF Futures, Keeps, Told

LEMMA StoreKeeps ==
  ASSUME idem \in Guards, Futures(idem), NEW k \in Keys
  PROVE  Futures(Store(k)) /\ Keeps(idem, Store(k))
<1> DEFINE s == Settle(idem, k, "result")
<1>1. s \in Guards /\ Futures(s) /\ Keeps(idem, s)
  BY SettleKeeps, SettleEffect DEF Outcomes
<1>2. Store(k).executor = s.executor /\ Store(k).future = s.future
  BY <1>1 DEF Store, Guards
<1> HIDE DEF s
<1>. QED
  BY <1>1, <1>2 DEF Futures, Keeps, Told

\* A call that begins to execute has not been waited for.
LEMMA RegisterKeeps ==
  ASSUME idem \in Guards, Futures(idem), NEW c \in Calls, arg[c] \in Keys,
         idem.executor[arg[c]] = 0
  PROVE  /\ Futures(Registered(c))
         /\ \A k \in Keys, d \in Calls : d # c /\ Told(idem, k, d) => Told(Registered(c), k, d)
<1> DEFINE f == Registered(c)
<1>1. /\ f.executor = [idem.executor EXCEPT ![arg[c]] = c]
      /\ f.future = [idem.future EXCEPT ![c] = "pending"]
  BY DEF Registered, Guards
<1>2. \A d \in Calls : d # 0
  BY ToolHarnessAssumption DEF ToolHarnessAssumption, Calls
<1> HIDE DEF f
<1>3. Futures(f)
  BY <1>1 DEF Futures, Guards
<1>4. ASSUME NEW k \in Keys, NEW d \in Calls, d # c, Told(idem, k, d)
      PROVE  Told(f, k, d)
  BY <1>1, <1>2, <1>4 DEF Told, Guards
<1>. QED
  BY <1>3, <1>4 DEF f

\* A step in which nobody is forgotten, nobody begins to wait for an untold
\* call, and no call gets a permit unless one is free.
LEMMA GoesOnKept ==
  ASSUME HarnessInv, GoesOnInv, NEW c \in Calls,
         \A d \in Calls : d # c => where'[d] = where[d],
         awaits' \in [Calls -> Calls \cup {0}],
         \A d \in Calls : d # c => awaits'[d] = awaits[d],
         UNCHANGED arg, Futures(idem)',
         \A k \in Keys : idem'.executor[k] # 0 => idem'.executor[k] \in Executing',
         \A k \in Keys : \A d \in Calls :
           where[d] \notin {"new", "queued"} /\ Told(idem, k, d) => Told(idem', k, d),
         where[c] # "new", where'[c] \notin {"new", "queued"},
         where'[c] = "waiting" =>
           /\ awaits'[c] \in Calls /\ where[awaits'[c]] \notin {"new", "queued"}
           /\ Told(idem', arg[c], awaits'[c]),
         NextInLine(c) \/ where[c] \in Busy,
         (phase' = phase /\ batch' = batch) \/ (phase' = "idle" /\ batch' = {})
  PROVE  GoesOnInv'
<1> USE DEF At
<1>1. Forgotten' \subseteq Forgotten
  <2> SUFFICES ASSUME NEW d \in Forgotten'
               PROVE  d \in Forgotten
    OBVIOUS
  <2>1. d \in Calls /\ where'[d] = "waiting" /\ ~Told(idem', arg[d], awaits'[d])
    BY DEF Forgotten
  <2>2. d # c
    BY <2>1
  <2>3. where[d] = "waiting" /\ awaits'[d] = awaits[d] /\ awaits[d] \in Calls
          /\ where[awaits[d]] \notin {"new", "queued"} /\ arg[d] \in Keys
    BY <2>1, <2>2 DEF GoesOnInv, HarnessInv, TypeOK
  <2>. QED
    BY <2>1, <2>3 DEF Forgotten
<1>2. \A d \in Calls : where[d] \notin {"new", "queued"} => where'[d] \notin {"new", "queued"}
  OBVIOUS
<1>3. \A d \in At("waiting")' : awaits'[d] \in Calls /\ where'[awaits'[d]] \notin {"new", "queued"}
  BY <1>2 DEF GoesOnInv
<1>4. Cardinality(Forgotten') < Permits
  <2>1. Forgotten \in SUBSET Calls /\ Forgotten' \in SUBSET Calls
    BY DEF Forgotten
  <2>2. Cardinality(Forgotten') <= Cardinality(Forgotten)
    BY <1>1, <2>1, CallsFinite, FS_Subset
  <2>. QED
    BY <2>1, <2>2, CallsFinite, ToolHarnessAssumption DEF GoesOnInv, ToolHarnessAssumption
<1>5. Cardinality(InUse') <= Permits
  <2>1. InUse \in SUBSET Calls /\ InUse' \in SUBSET Calls
    BY DEF InUse, Executing
  <2>2. CASE NextInLine(c)
    <3>1. InUse' \subseteq InUse \cup {c}
      BY DEF InUse, Executing
    <3>2. Cardinality(InUse \cup {c}) <= Permits
      BY <2>1, <2>2, CallsFinite, FS_AddElement, ToolHarnessAssumption
      DEF NextInLine, InUse, ToolHarnessAssumption
    <3>3. IsFiniteSet(InUse \cup {c}) /\ Cardinality(InUse \cup {c}) \in Nat
      BY <2>1, CallsFinite
    <3>. QED
      BY <2>1, <3>1, <3>2, <3>3, CallsFinite, FS_Subset, ToolHarnessAssumption
      DEF ToolHarnessAssumption
  <2>3. CASE where[c] \in Busy
    <3>1. InUse' \subseteq InUse
      BY <2>3 DEF InUse, Executing, Busy
    <3>2. Cardinality(InUse') <= Cardinality(InUse)
      BY <2>1, <3>1, CallsFinite, FS_Subset
    <3>. QED
      BY <2>1, <3>2, CallsFinite, ToolHarnessAssumption DEF GoesOnInv, ToolHarnessAssumption
  <2>. QED
    BY <2>2, <2>3
<1>6. /\ phase' # "acting" => batch' = {}
      /\ Forgotten' \cap batch' = {}
  BY <1>1 DEF GoesOnInv
<1>. QED
  BY <1>3, <1>4, <1>5, <1>6 DEF GoesOnInv

\* How a call leaves, for its batch: it returns, or it raises and ends it.
LEMMA BatchLeft ==
  ASSUME NEW c \in Calls, Leave(c) \/ Raise(c)
  PROVE  (phase' = phase /\ batch' = batch) \/ (phase' = "idle" /\ batch' = {})
BY DEF Leave, Raise, control

LEMMA GoesOnAnswered ==
  ASSUME HarnessInv, GoesOnInv, NEW c \in Calls,
         Refuse(c) \/ Deduplicate(c) \/ Wait(c) \/ Woken(c)
  PROVE  GoesOnInv'
<1>1. where[c] \in {"queued", "waiting"} /\ (NextInLine(c) \/ where[c] \in Busy)
  BY DEF Refuse, Deduplicate, Wait, Pass, Woken, NextInLine, Busy
<1>2. UNCHANGED <<arg, idem>> /\ arg[c] \in Keys
  BY DEF HarnessInv, TypeOK, Refuse, Deduplicate, Wait, Woken
<1>3. CASE Wait(c)
  <2>1. /\ where' = [where EXCEPT ![c] = "waiting"] /\ UNCHANGED <<phase, batch>>
        /\ awaits' = [awaits EXCEPT ![c] = idem.executor[arg[c]]]
        /\ idem.executor[arg[c]] # 0
    BY <1>3 DEF Wait, control
  <2>2. idem.executor[arg[c]] \in Executing
    BY <1>2, <2>1 DEF GoesOnInv
  <2>3. /\ awaits'[c] = idem.executor[arg[c]] /\ awaits'[c] \in Calls
        /\ where[awaits'[c]] \notin {"new", "queued"}
        /\ awaits' \in [Calls -> Calls \cup {0}]
        /\ \A d \in Calls : d # c => awaits'[d] = awaits[d] /\ where'[d] = where[d]
        /\ where'[c] = "waiting"
    BY <2>1, <2>2 DEF HarnessInv, TypeOK, Executing, At
  <2>4. Told(idem', arg[c], awaits'[c])
    BY <1>2, <2>3 DEF Told
  <2>5. \A k \in Keys : idem'.executor[k] # 0 => idem'.executor[k] \in Executing'
    BY <1>1, <1>2, <2>3 DEF GoesOnInv, Executing, At
  <2>6. Futures(idem)'
    BY <1>2 DEF GoesOnInv, Futures
  <2>. QED
    BY <1>1, <1>2, <2>1, <2>3, <2>4, <2>5, <2>6, GoesOnKept
<1>4. CASE Refuse(c) \/ Deduplicate(c) \/ Woken(c)
  <2>1. Leave(c) \/ Raise(c)
    BY <1>4 DEF Refuse, Deduplicate, Woken, Report
  <2>2. /\ where'[c] = "over" /\ \A d \in Calls : d # c => where'[d] = where[d]
        /\ (phase' = phase /\ batch' = batch) \/ (phase' = "idle" /\ batch' = {})
    BY <2>1, Ended, BatchLeft DEF HarnessInv
  <2>3. /\ awaits' \in [Calls -> Calls \cup {0}]
        /\ \A d \in Calls : d # c => awaits'[d] = awaits[d]
    BY <1>4 DEF HarnessInv, TypeOK, Refuse, Deduplicate, Woken
  <2>4. \A k \in Keys : idem'.executor[k] # 0 => idem'.executor[k] \in Executing'
    BY <1>1, <1>2, <2>2 DEF GoesOnInv, Executing, At
  <2>5. Futures(idem)'
    BY <1>2 DEF GoesOnInv, Futures
  <2>. QED
    BY <1>1, <1>2, <2>2, <2>3, <2>4, <2>5, GoesOnKept
<1>. QED
  BY <1>3, <1>4

LEMMA GoesOnStarted ==
  ASSUME HarnessInv, GoesOnInv, NEW c \in Calls, Start(c) \/ StartDisabled(c)
  PROVE  GoesOnInv'
<1> DEFINE R == Registered(c)
<1>1. where[c] = "queued" /\ NextInLine(c) /\ UNCHANGED <<arg, awaits>> /\ idem.executor[arg[c]] = 0
  BY DEF Start, StartDisabled, Pass, NextInLine
<1>2. /\ R \in Guards /\ arg[c] \in Keys /\ c # 0
      /\ \A l \in Keys : R.executor[l] = IF l = arg[c] THEN c ELSE idem.executor[l]
  <2>1. Fresh(c)
    BY DEF Start, StartDisabled
  <2>. QED
    BY <1>1, Registration DEF HarnessInv, TypeOK
<1>3. /\ Futures(R)
      /\ \A k \in Keys, d \in Calls : d # c /\ Told(idem, k, d) => Told(R, k, d)
  BY <1>1, <1>2, RegisterKeeps DEF HarnessInv, GoesOnInv, TypeOK
<1>4. \A k \in Keys : idem.executor[k] # 0 => idem.executor[k] \in Executing /\ idem.executor[k] # c
  BY <1>1 DEF GoesOnInv, Executing, At
<1> HIDE DEF R
<1>5. CASE /\ \E x \in {"running", "after"} : where' = [where EXCEPT ![c] = x]
           /\ idem' = R /\ UNCHANGED <<phase, batch>>
  <2>1. where'[c] \in {"running", "after"} /\ \A d \in Calls : d # c => where'[d] = where[d]
    BY <1>5 DEF HarnessInv, TypeOK
  <2>2. \A k \in Keys : idem'.executor[k] # 0 => idem'.executor[k] \in Executing'
    BY <1>2, <1>4, <1>5, <2>1 DEF Executing, At
  <2>3. Futures(idem)'
    BY <1>3, <1>5 DEF Futures
  <2>. QED
    BY <1>1, <1>3, <1>5, <2>1, <2>2, <2>3, GoesOnKept DEF HarnessInv, TypeOK
<1>6. CASE Raise(c) /\ idem' = Complete(R, arg[c], "result")
  <2>1. /\ where'[c] = "over" /\ \A d \in Calls : d # c => where'[d] = where[d]
        /\ (phase' = phase /\ batch' = batch) \/ (phase' = "idle" /\ batch' = {})
    BY <1>6, Ended, BatchLeft DEF HarnessInv
  <2>2. Futures(idem') /\ Keeps(R, idem') /\ idem'.executor[arg[c]] = 0
    BY <1>2, <1>3, <1>6, CompleteKeeps
  <2>3. \A k \in Keys : idem'.executor[k] \in {0, R.executor[k]}
    <3>1. Injective(R) /\ "result" \in Outcomes
      BY <1>1, Registration DEF R, Outcomes, Start, StartDisabled
    <3>. QED
      BY <1>2, <1>6, <3>1, CompleteEffect
  <2>4. \A k \in Keys : idem'.executor[k] # 0 => idem'.executor[k] \in Executing'
    BY <1>2, <1>4, <2>1, <2>2, <2>3 DEF Executing, At
  <2>5. Futures(idem)'
    BY <2>2 DEF Futures
  <2>. QED
    BY <1>1, <1>3, <2>1, <2>2, <2>4, <2>5, GoesOnKept DEF HarnessInv, TypeOK, Keeps
<1>. QED
  BY <1>5, <1>6 DEF Start, StartDisabled, R, control

LEMMA GoesOnEnds ==
  ASSUME HarnessInv, GoesOnInv, NEW c \in Calls, ToolEnds(c) \/ Finish(c)
  PROVE  GoesOnInv'
<1>1. where[c] \in {"running", "after"} /\ UNCHANGED <<arg, awaits>> /\ arg[c] \in Keys
  BY DEF ToolEnds, Finish, HarnessInv, TypeOK
<1>2. idem \in Guards /\ Injective(idem) /\ "result" \in Outcomes
  BY ExecInjective DEF HarnessInv, TypeOK, Outcomes
<1>3. PICK noted \in {idem, Store(arg[c])} :
        \/ where' = [where EXCEPT ![c] = "after"] /\ idem' = noted /\ UNCHANGED control
        \/ (Raise(c) \/ Leave(c)) /\ idem' = Complete(noted, arg[c], "result")
  BY DEF ToolEnds, Finish
<1>4. /\ noted \in Guards /\ Injective(noted)
      /\ \A l \in Keys : noted.executor[l] \in {0, idem.executor[l]}
  BY <1>1, <1>2, StoreEffect
<1>5. Futures(noted) /\ Keeps(idem, noted)
  BY <1>1, <1>2, StoreKeeps DEF GoesOnInv, Keeps
<1>6. where[c] \in Busy
  BY <1>1 DEF Busy
<1>7. CASE where' = [where EXCEPT ![c] = "after"] /\ idem' = noted /\ UNCHANGED control
  <2>1. where'[c] = "after" /\ \A d \in Calls : d # c => where'[d] = where[d]
    BY <1>7 DEF HarnessInv, TypeOK
  <2>2. \A k \in Keys : idem'.executor[k] # 0 => idem'.executor[k] \in Executing'
    BY <1>1, <1>4, <1>7, <2>1 DEF GoesOnInv, Executing, At
  <2>3. Futures(idem)'
    BY <1>5, <1>7 DEF Futures
  <2>. QED
    BY <1>1, <1>5, <1>6, <1>7, <2>1, <2>2, <2>3, GoesOnKept
    DEF HarnessInv, TypeOK, Keeps, control
<1>8. CASE (Raise(c) \/ Leave(c)) /\ idem' = Complete(noted, arg[c], "result")
  <2>1. /\ where'[c] = "over" /\ \A d \in Calls : d # c => where'[d] = where[d]
        /\ (phase' = phase /\ batch' = batch) \/ (phase' = "idle" /\ batch' = {})
    BY <1>8, Ended, BatchLeft DEF HarnessInv
  <2>2. /\ Futures(idem') /\ Keeps(noted, idem') /\ idem'.executor[arg[c]] = 0
        /\ \A k \in Keys : idem'.executor[k] \in {0, noted.executor[k]}
    BY <1>1, <1>2, <1>4, <1>5, <1>8, CompleteKeeps, CompleteEffect
  <2>3. \A k \in Keys : idem.executor[k] = c => k = arg[c]
    BY ToolHarnessAssumption
    DEF HarnessInv, ExecInv, ToolHarnessAssumption, Calls
  <2>4. \A k \in Keys : idem'.executor[k] # 0 => idem'.executor[k] \in Executing'
    BY <1>4, <2>1, <2>2, <2>3 DEF GoesOnInv, Executing, At
  <2>5. Futures(idem)'
    BY <2>2 DEF Futures
  <2>. QED
    BY <1>1, <1>5, <1>6, <2>1, <2>2, <2>4, <2>5, GoesOnKept DEF HarnessInv, TypeOK, Keeps
<1>. QED
  BY <1>3, <1>7, <1>8

\* A reset forgets those who wait for a call that still executes; its permit is
\* not theirs.
LEMMA GoesOnTurn ==
  ASSUME HarnessInv, GoesOnInv, NewTurn
  PROVE  GoesOnInv'
<1>1. /\ phase # "acting" /\ phase' = "ready" /\ batch = {} /\ batch' = {}
      /\ UNCHANGED <<where, arg, awaits>>
  BY DEF NewTurn, GoesOnInv, work
<1>2. idem'.future = idem.future /\ \A k \in Keys : idem'.executor[k] = 0
  BY DEF NewTurn, HarnessInv, TypeOK, Guards, NoExecutor
<1>3. Futures(idem)' /\ \A k \in Keys : idem'.executor[k] # 0 => idem'.executor[k] \in Executing'
  BY <1>2 DEF Futures
<1>4. InUse' = InUse /\ At("waiting")' = At("waiting") /\ Executing' = Executing
  BY <1>1 DEF InUse, Executing, At
<1>5. /\ At("waiting") \in SUBSET Calls /\ InUse \in SUBSET Calls
      /\ Forgotten \in SUBSET Calls /\ Forgotten' \in SUBSET At("waiting")
  BY <1>1 DEF InUse, Executing, At, Forgotten
<1>6. Cardinality(Forgotten') < Permits
  <2>1. CASE Executing = {}
    <3>1. \A c \in At("waiting") : idem.executor[arg[c]] = awaits[c] => FALSE
      BY <2>1, ToolHarnessAssumption
      DEF GoesOnInv, HarnessInv, TypeOK, At, ToolHarnessAssumption, Calls
    <3>2. Forgotten' \subseteq Forgotten
      BY <1>1, <1>2, <1>4, <3>1 DEF Forgotten, Told
    <3>3. Cardinality(Forgotten') <= Cardinality(Forgotten)
      BY <1>5, <3>2, CallsFinite, FS_Subset
    <3>. QED
      BY <1>5, <3>3, CallsFinite, ToolHarnessAssumption DEF GoesOnInv, ToolHarnessAssumption
  <2>2. CASE Executing # {}
    <3>1. PICK e \in Executing : e \in InUse /\ e \notin At("waiting")
      BY <2>2 DEF Executing, At, InUse
    <3>2. Forgotten' \subseteq InUse \ {e}
      BY <1>5, <3>1 DEF InUse
    <3>3. IsFiniteSet(InUse \ {e}) /\ Cardinality(InUse \ {e}) = Cardinality(InUse) - 1
      BY <1>5, <3>1, CallsFinite, FS_RemoveElement
    <3>4. Cardinality(Forgotten') <= Cardinality(InUse) - 1
      BY <3>2, <3>3, FS_Subset
    <3>. QED
      BY <1>5, <3>4, CallsFinite, ToolHarnessAssumption DEF GoesOnInv, ToolHarnessAssumption
  <2>. QED
    BY <2>1, <2>2
<1>. QED
  BY <1>1, <1>3, <1>4, <1>6 DEF GoesOnInv

LEMMA GoesOnBatch ==
  ASSUME HarnessInv, GoesOnInv, Dispatch \/ Return
  PROVE  GoesOnInv'
<1>1. /\ UNCHANGED <<awaits, idem>>
      /\ (phase' # "acting" => batch' = {})
      /\ \A c \in Calls : where'[c] # where[c] => where[c] = "new" /\ where'[c] = "queued"
      /\ \A c \in Calls : where[c] # "new" => arg'[c] = arg[c]
      /\ \A c \in batch' : c \in Calls /\ where'[c] = "queued"
  <2>1. CASE Dispatch
    <3>1. PICK last \in Calls :
            /\ last > sent /\ batch' = (sent + 1)..last
            /\ where' = [c \in Calls |-> IF c \in batch' THEN "queued" ELSE where[c]]
            /\ \E a \in [batch' -> Keys] :
                 arg' = [c \in Calls |-> IF c \in batch' THEN a[c] ELSE arg[c]]
      BY <2>1 DEF Dispatch
    <3>2. phase' = "acting" /\ UNCHANGED <<awaits, idem>>
      BY <2>1 DEF Dispatch
    <3>3. \A c \in batch' : c \in Calls /\ c > sent
      BY <3>1, ToolHarnessAssumption DEF HarnessInv, TypeOK, Calls, ToolHarnessAssumption
    <3>4. \A c \in batch' : c \in Calls /\ where[c] = "new"
      BY <3>3 DEF HarnessInv, OrderInv
    <3>. QED
      BY <3>1, <3>2, <3>4
  <2>2. CASE Return
    BY <2>2 DEF Return, work
  <2>. QED
    BY <2>1, <2>2
<1>2. \A c \in Calls : where'[c] \in {"waiting", "running", "after"}
                        \/ where[c] \in {"waiting", "running", "after"}
                      => where'[c] = where[c]
  BY <1>1
<1>3. At("waiting")' = At("waiting") /\ Executing' = Executing
  BY <1>2 DEF At, Executing
<1>4. InUse' = InUse
  BY <1>3 DEF InUse
<1>5. Forgotten' = Forgotten
  <2>1. \A c \in At("waiting") : arg'[c] = arg[c]
    BY <1>1 DEF At
  <2>. QED
    BY <1>1, <1>3, <2>1 DEF Forgotten, Told
<1>6. \A c \in At("waiting") :
        awaits'[c] \in Calls /\ where'[awaits'[c]] \notin {"new", "queued"}
  BY <1>1 DEF GoesOnInv
<1>7. Forgotten' \cap batch' = {}
  BY <1>1, <1>5 DEF Forgotten, At
<1>. QED
  BY <1>1, <1>3, <1>4, <1>5, <1>6, <1>7 DEF GoesOnInv, Futures

\* A kill settles the futures of the executing calls it ends.
LEMMA GoesOnKill ==
  ASSUME HarnessInv, GoesOnInv, Kill
  PROVE  GoesOnInv'
<1> DEFINE dead == {awaits[c] : c \in batch \cap At("waiting")}
           keys == {arg[c] : c \in batch \cap Executing}
           left == {k \in keys : idem.executor[k] # 0}
           own == {idem.executor[k] : k \in left}
           live == {c \in own \ dead : idem.future[c] = "pending"}
           executor == [k \in Keys |-> IF k \in keys THEN 0 ELSE idem.executor[k]]
           future == [c \in Calls |-> IF c \in dead \cup own /\ idem.future[c] = "pending"
                                      THEN "error" ELSE idem.future[c]]
           failed == idem.failed \cup {k \in left : idem.executor[k] \in live}
<1>1. /\ phase' = "idle" /\ batch' = {} /\ UNCHANGED arg
      /\ where' = Gone(batch)
      /\ awaits' = [c \in Calls |-> IF c \in batch THEN 0 ELSE awaits[c]]
      /\ idem' = [idem EXCEPT !.executor = executor, !.future = future, !.failed = failed]
  BY DEF Kill, HarnessInv, TypeOK, Guards
<1>2. idem'.executor = executor /\ idem'.future = future
  <2> HIDE DEF executor, future, failed
  <2>. QED
    BY <1>1 DEF HarnessInv, TypeOK, Guards
<1>3. /\ \A k \in Keys : idem'.executor[k] = IF k \in keys THEN 0 ELSE idem.executor[k]
      /\ \A c \in Calls : idem'.future[c]
           = IF c \in dead \cup own /\ idem.future[c] = "pending" THEN "error" ELSE idem.future[c]
  BY <1>2
<1>4. \A c \in Calls : where'[c] = IF c \in batch THEN "over" ELSE where[c]
  BY <1>1 DEF Gone
<1>5. /\ \A k \in Keys : idem.executor[k] # 0 =>
           idem.executor[k] \in Executing /\ arg[idem.executor[k]] = k
      /\ \A k \in keys : idem.executor[k] # 0 => idem.executor[k] \in own
  BY DEF GoesOnInv, HarnessInv, ExecInv
<1>6. idem \in Guards
  BY DEF HarnessInv, TypeOK
<1>7. \A k \in Keys : idem'.executor[k] # 0 => idem'.executor[k] \in Executing'
  <2> SUFFICES ASSUME NEW k \in Keys, idem'.executor[k] # 0
               PROVE  idem'.executor[k] \in Executing'
    OBVIOUS
  <2>1. k \notin keys /\ idem'.executor[k] = idem.executor[k]
    BY <1>3
  <2>2. idem.executor[k] \in Executing /\ idem.executor[k] \notin batch
    BY <1>3, <1>5, <2>1
  <2>. QED
    BY <1>4, <2>1, <2>2 DEF Executing, At
<1> HIDE DEF dead, keys, own, executor, future, failed
<1>8. Futures(idem)'
  <2> SUFFICES ASSUME NEW k \in Keys, idem'.executor[k] # 0
               PROVE  idem'.future[idem'.executor[k]] # "none"
    BY DEF Futures
  <2>1. idem'.executor[k] = idem.executor[k] /\ idem.executor[k] \in Calls
    BY <1>3, <1>5 DEF Executing, At
  <2>. QED
    BY <1>3, <2>1 DEF GoesOnInv, Futures
<1>9. ASSUME NEW k \in Keys, NEW d \in Calls, Told(idem, k, d)
      PROVE  Told(idem', k, d)
  <2>1. CASE idem.future[d] \in Outcomes
    BY <1>3, <2>1 DEF Told, Outcomes
  <2>2. CASE idem.executor[k] = d /\ k \notin keys
    BY <1>3, <2>2 DEF Told
  <2>3. CASE idem.executor[k] = d /\ k \in keys
    <3>1. d # 0
      BY ToolHarnessAssumption DEF ToolHarnessAssumption, Calls
    <3>2. d \in own /\ idem.future[d] # "none"
      BY <1>5, <2>3, <3>1 DEF GoesOnInv, Futures
    <3>3. idem.future[d] \in {"pending", "result", "error"}
      BY <3>2 DEF HarnessInv, TypeOK, Guards
    <3>. QED
      BY <1>3, <3>2, <3>3 DEF Told, Outcomes
  <2>. QED
    BY <1>9, <2>1, <2>2, <2>3 DEF Told
<1>10. \A c \in At("waiting")' :
         c \in At("waiting") /\ awaits'[c] = awaits[c] /\ awaits[c] \in Calls
  BY <1>1, <1>4 DEF At, GoesOnInv
<1>11. Forgotten' \subseteq Forgotten
  <2> SUFFICES ASSUME NEW c \in Forgotten'
               PROVE  c \in Forgotten
    OBVIOUS
  <2>1. c \in At("waiting")' /\ ~Told(idem', arg[c], awaits'[c])
    BY <1>1 DEF Forgotten
  <2>2. c \in At("waiting") /\ awaits'[c] = awaits[c] /\ awaits[c] \in Calls /\ arg[c] \in Keys
    BY <1>10, <2>1 DEF HarnessInv, TypeOK, At
  <2>. QED
    BY <1>9, <2>1, <2>2 DEF Forgotten
<1>12. InUse' \subseteq InUse
  BY <1>4 DEF InUse, Executing, At
<1>13. Cardinality(Forgotten') < Permits /\ Cardinality(InUse') <= Permits
  <2>1. Forgotten \in SUBSET Calls /\ InUse \in SUBSET Calls
    BY DEF Forgotten, InUse, Executing, At
  <2>2. /\ Cardinality(Forgotten') <= Cardinality(Forgotten)
        /\ Cardinality(InUse') <= Cardinality(InUse)
    BY <1>11, <1>12, <2>1, CallsFinite, FS_Subset
  <2>3. Forgotten' \in SUBSET Calls /\ InUse' \in SUBSET Calls
    BY <1>11, <1>12, <2>1
  <2>. QED
    BY <2>1, <2>2, <2>3, CallsFinite, ToolHarnessAssumption DEF GoesOnInv, ToolHarnessAssumption
<1>14. \A c \in At("waiting")' : where'[awaits'[c]] \notin {"new", "queued"}
  BY <1>4, <1>10 DEF GoesOnInv
<1>. QED
  BY <1>1, <1>7, <1>8, <1>10, <1>13, <1>14 DEF GoesOnInv

\* Every batch comes to its end, also when calls of earlier steps are left that
\* wait for ever: until all its calls have returned some call can go on.
\* This is the safety half of BatchEnds.
THEOREM BatchesGoOn == Spec => []BatchGoesOn
<1>1. Init => GoesOnInv
  <2> SUFFICES ASSUME Init
               PROVE  GoesOnInv
    OBVIOUS
  <2>1. Forgotten = {} /\ InUse = {} /\ At("waiting") = {}
    BY DEF Init, Forgotten, InUse, Executing, At
  <2>. QED
    BY <2>1, FS_EmptySet, ToolHarnessAssumption
    DEF Init, GoesOnInv, Futures, NoExecutor, ToolHarnessAssumption
<1>2. HarnessInv /\ GoesOnInv /\ [Next]_vars => GoesOnInv'
  <2> SUFFICES ASSUME HarnessInv, GoesOnInv, [Next]_vars
               PROVE  GoesOnInv'
    OBVIOUS
  <2>1. CASE UNCHANGED vars
    BY <2>1
    DEF vars, control, work, GoesOnInv, Futures, Forgotten, Told, InUse, Executing, At
  <2>2. ASSUME NEW c \in Calls, Step(c)
        PROVE  GoesOnInv'
    BY <2>2, GoesOnAnswered, GoesOnStarted, GoesOnEnds DEF Step
  <2>. QED
    BY <2>1, <2>2, GoesOnTurn, GoesOnBatch, GoesOnKill DEF Next
<1>. QED
  BY <1>1, <1>2, GoesOnInvGoesOn, InvAlways, PTL DEF Spec
=============================================================================

------------------------------- MODULE Breaker -------------------------------
(***************************************************************************)
(* The circuit of one host (src/breaker): requests ask Allow before they   *)
(* go out and report how they ended, each call under the breaker's lock,   *)
(* while the request itself is out for as long as it takes                 *)
(* (Transport.RoundTrip).  A refused or failed caller stays away for the   *)
(* RetryAfter it was given.                                                *)
(*                                                                         *)
(* Times are kept as the ticks that are left, so nothing grows.            *)
(***************************************************************************)
EXTENDS Naturals

CONSTANTS
  Callers,
  threshold, baseDelay, maxDelay,
  MaxFailures,   \* bounds of the model: counted failures,
  MaxUnreported  \*   requests whose outcome is never reported

ASSUME BreakerAssumption ==
  /\ {threshold, baseDelay, maxDelay} \subseteq Nat \ {0}
  /\ baseDelay <= maxDelay
  /\ MaxFailures \in Nat /\ MaxUnreported \in Nat

VARIABLES
  failures,  \* consecutive failures; a circuit without any is not stored
  cooldown,  \* how long until retryAt
  where,     \* where each caller is
  probing,   \* callers that were let through while the circuit was open
  pause,     \* how long each caller stays away
  healthy,   \* whether the host has recovered for good
  unreported,
  sinceProbe \* history: time since the last probe, at most the shortest window

breakerVars == <<failures, cooldown, where, probing, pause, healthy, unreported, sinceProbe>>

\* The delays of the nth consecutive failure: doubling, capped, and up to
\* twice as long at random.
Doubled[k \in Nat] == IF k = 0 THEN baseDelay ELSE 2 * Doubled[k - 1]

Base(n) == IF Doubled[n - 1] < maxDelay THEN Doubled[n - 1] ELSE maxDelay

backoff(n) == Base(n) .. 2 * Base(n) - 1

\* The shortest window of an open circuit; no delay is as long as Longest.
Window  == Base(threshold)
Longest == 2 * maxDelay

BreakerTypeOK ==
  /\ failures \in 0 .. MaxFailures
  /\ cooldown \in 0 .. Longest
  /\ where \in [Callers -> {"away", "out"}]
  /\ probing \subseteq Callers
  /\ pause \in [Callers -> 0 .. Longest]
  /\ healthy \in BOOLEAN /\ unreported \in 0 .. MaxUnreported
  /\ sinceProbe \in 0 .. Window

BreakerInit ==
  /\ failures = 0 /\ cooldown = 0
  /\ where = [r \in Callers |-> "away"] /\ probing = {}
  /\ pause = [r \in Callers |-> 0]
  /\ healthy = FALSE /\ unreported = 0 /\ sinceProbe = Window

Open == failures >= threshold

-----------------------------------------------------------------------------

GoesOut(r) == where' = [where EXCEPT ![r] = "out"] /\ UNCHANGED pause

Comes(r) == where[r] = "away" /\ pause[r] = 0

\* Below the threshold everybody passes.
AllowClosed(r) ==
  /\ Comes(r) /\ ~Open
  /\ GoesOut(r)
  /\ UNCHANGED <<failures, cooldown, probing, healthy, unreported, sinceProbe>>

\* Mutated form of AllowProbe: retryAt stays behind.
AllowProbeUnguarded(r) ==
  /\ Comes(r) /\ Open /\ cooldown = 0
  /\ GoesOut(r)
  /\ probing' = probing \cup {r} /\ sinceProbe' = 0
  /\ UNCHANGED <<failures, cooldown, healthy, unreported>>

\* A cooled-down circuit lets one through and cools down anew.
AllowProbe(r) ==
  /\ Comes(r) /\ Open /\ cooldown = 0
  /\ cooldown' \in backoff(failures)
  /\ GoesOut(r)
  /\ probing' = probing \cup {r} /\ sinceProbe' = 0
  /\ UNCHANGED <<failures, healthy, unreported>>

\* Mutated form of Refuse: whoever is refused starts the cooldown over.
RefuseAgain(r) ==
  /\ Comes(r) /\ Open /\ cooldown > 0
  /\ cooldown' \in backoff(failures)
  /\ pause' = [pause EXCEPT ![r] = cooldown']
  /\ UNCHANGED <<failures, where, probing, healthy, unreported, sinceProbe>>

Refuse(r) ==
  /\ Comes(r) /\ Open /\ cooldown > 0
  /\ pause' = [pause EXCEPT ![r] = cooldown]
  /\ UNCHANGED <<failures, cooldown, where, probing, healthy, unreported, sinceProbe>>

ComesBack(r) == where' = [where EXCEPT ![r] = "away"] /\ probing' = probing \ {r}

\* RecordSuccess: the circuit is forgotten.
Succeed(r) ==
  /\ where[r] = "out"
  /\ failures' = 0 /\ cooldown' = 0
  /\ ComesBack(r)
  /\ UNCHANGED <<pause, healthy, unreported, sinceProbe>>

RecordFailure(r) ==
  /\ failures' = failures + 1
  /\ cooldown' \in backoff(failures')
  /\ pause' = [pause EXCEPT ![r] = cooldown']

\* A transport error, a 5xx or a 429.
Fail(r) ==
  /\ where[r] = "out" /\ ~healthy /\ failures < MaxFailures
  /\ RecordFailure(r)
  /\ ComesBack(r)
  /\ UNCHANGED <<healthy, unreported, sinceProbe>>

\* The caller is gone before it reports.
Lose(r) ==
  /\ where[r] = "out" /\ unreported < MaxUnreported
  /\ unreported' = unreported + 1
  /\ ComesBack(r)
  /\ UNCHANGED <<failures, cooldown, pause, healthy, sinceProbe>>

Recover ==
  /\ ~healthy /\ healthy' = TRUE
  /\ UNCHANGED <<failures, cooldown, where, probing, pause, unreported, sinceProbe>>

Less(n) == IF n = 0 THEN 0 ELSE n - 1

BreakerTick ==
  /\ cooldown' = Less(cooldown)
  /\ pause' = [r \in Callers |-> Less(pause[r])]
  /\ sinceProbe' = IF sinceProbe < Window THEN sinceProbe + 1 ELSE Window
  /\ UNCHANGED <<failures, where, probing, healthy, unreported>>

CallerNext(r) ==
  \/ AllowClosed(r) \/ AllowProbe(r) \/ Refuse(r)
  \/ Succeed(r) \/ Fail(r) \/ Lose(r)

BreakerNext == (\E r \in Callers : CallerNext(r)) \/ Recover \/ BreakerTick

-----------------------------------------------------------------------------

\* An open circuit lets two requests through no closer than its shortest
\* backoff window, although late outcomes of older requests move the cooldown
\* and close or reopen the circuit (doc.go: "granting a single half-open probe
\* per backoff window").
ProbesApart ==
  [][\A r \in Callers :
       Open /\ where[r] = "away" /\ where'[r] = "out" => sinceProbe >= Window]_breakerVars

\* An open circuit is closed by its probe (transport.go: "requests short-circuit
\* without reaching the network until a half-open probe succeeds").
\* The code does not keep it: README, section 7.
OnlyProbeCloses ==
  [][Open /\ ~Open' => \E r \in probing : where'[r] = "away"]_breakerVars

\* After the host has recovered, every caller gets through, also when the probe
\* that would have closed the circuit was lost.
EventuallyServed == \A r \in Callers : []<><<Succeed(r)>>_breakerVars

=============================================================================

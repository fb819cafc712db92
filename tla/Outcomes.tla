------------------------------- MODULE Outcomes -------------------------------
(***************************************************************************)
(* How the end of a reconcile becomes the next step of its key: the error  *)
(* that the reconciler returns, what its framework makes of it (Reconcile  *)
(* and Process of githubreconciler, linearreconciler, ocireconciler and      *)
(* apkreconciler), the response on the wire, ServiceCallback, and the      *)
(* dispatcher's decision.  The queue's own part is GCSQueue's; here one    *)
(* entry is enough, whose metadata is Scheduling's, and runs are atomic.   *)
(*                                                                         *)
(* An error is the set of what can be told of its chain (errors.As, the    *)
(* status code) and the wait it carries.  Times are ticks that are left;   *)
(* the wire has whole seconds.                                             *)
(***************************************************************************)
EXTENDS Scheduling, FiniteSets

CONSTANTS
  Frameworks,
  TicksPerSecond,
  Waits,                \* that a reconciler or a limit asks for
  Cooldowns,            \* of a host's circuit
  maxRetry, MaximumRequeueFloor,
  MaxUpsets             \* bound: runs that fail, other keys' failures, events

ASSUME OutcomesAssumption ==
  /\ Frameworks \subseteq {"github", "linear", "oci", "apk"}
  /\ {TicksPerSecond, maxRetry, MaximumRequeueFloor} \subseteq Nat \ {0}
  /\ Waits \cup Cooldowns \subseteq Nat \ {0} /\ MaxUpsets \in Nat

VARIABLES
  framework,
  item,     \* where the key is, and its metadata; its nb is the time left
  cool,      \* until the circuit of the host that the work needs lets it through
  undone,    \* what the key stands for and is not done: work, keys to queue
  declared,  \* whether a reconcile said that a retry is of no use
  spare,     \* history: how long the host asked to be left alone
  lasting,   \* history: runs in a row that cost an attempt
  shortened, \* history: the last run asked to come back in less than a second
  upsets

outcomesVars ==
  <<framework, item, cool, undone, declared, spare, lasting, shortened, upsets>>

Marks == {"rateLimit", "abuse", "exhausted", "breaker", "transient",
          "requeue", "floor", "keys", "final", "hard"}

\* NonRetriableError keeps the status code of what it wraps, and a marked
\* infrastructure failure keeps the requeue and its cause.
Errors == [marks : {{m} : m \in Marks \ {"floor"}}
                     \cup {{"requeue", "floor"}, {"final", "exhausted"}, {"requeue", "breaker"}},
           wait : Waits]

Fresh == Written([prio |-> 0, nb |-> 0, floor |-> FALSE])

OutcomesTypeOK ==
  /\ framework \in Frameworks
  /\ item \in [at : {"queued", "gone", "dead"}, meta : Meta]
  /\ cool \in Nat /\ undone \subseteq {"work", "keys"} /\ declared \in BOOLEAN
  /\ spare \in Nat /\ lasting \in Nat /\ shortened \in BOOLEAN /\ upsets \in 0 .. MaxUpsets

OutcomesInit ==
  /\ framework \in Frameworks /\ item = [at |-> "queued", meta |-> Fresh]
  /\ cool = 0 /\ undone = {"work"} /\ declared = FALSE
  /\ spare = 0 /\ lasting = 0 /\ shortened = FALSE /\ upsets = 0

-----------------------------------------------------------------------------
(* The framework.                                                          *)

\* The passing failures that a framework knows, in the order it asks for them.
Known(f) == CASE f = "github" -> <<"rateLimit", "abuse", "exhausted", "breaker", "transient">>
              [] f = "linear" -> <<"rateLimit">>
              [] OTHER        -> <<"breaker", "transient">>

Passing(f, e) == {i \in DOMAIN Known(f) : Known(f)[i] \in e.marks}

First(f, e) == Known(f)[CHOOSE i \in Passing(f, e) : \A j \in Passing(f, e) : i <= j]

\* jitter.Add: up to twice as long.
Jittered(d) == d .. 2 * d - 1

Asks(d, floored) == [marks |-> {"requeue"} \cup (IF floored THEN {"floor"} ELSE {}), wait |-> d]

\* Mutated form of Reconciled: what is known to pass is an error like another.
ReconciledAsIs(f, e) == {e}

\* Reconcile turns a passing failure into a requeue: with the breaker's own
\* delay as a floor, else with jitter.
Reconciled(f, e) ==
  IF Passing(f, e) = {} THEN {e}
  ELSE CASE First(f, e) = "breaker"   -> {Asks(e.wait, TRUE)}
         [] First(f, e) = "transient" -> {Asks(d, FALSE) : d \in Waits}
         [] OTHER                     -> {Asks(d, FALSE) : d \in Jittered(e.wait)}

Success == [says |-> "ok", seconds |-> 0, floor |-> FALSE]
Failure == [says |-> "error", seconds |-> 0, floor |-> FALSE]
KeysToo == [says |-> "keys", seconds |-> 0, floor |-> FALSE]

\* Process: the response.  Only the frameworks of GitHub and Linear look for keys.
Response(f, e) ==
  IF "requeue" \in e.marks
    THEN [says |-> "ok", seconds |-> e.wait \div TicksPerSecond, floor |-> "floor" \in e.marks]
  ELSE IF "keys" \in e.marks /\ f \in {"github", "linear"} THEN KeysToo
  ELSE IF "final" \in e.marks THEN Success
  ELSE Failure

-----------------------------------------------------------------------------
(* The dispatcher.                                                         *)

Upset == upsets < MaxUpsets /\ upsets' = upsets + 1

Leaves(place) == item' = [item EXCEPT !.at = place]

Returns(meta, plan) == item' = [item EXCEPT !.meta = RequeueMetadata(meta, plan, 0)]

\* The doubling curve of failure retries, without its jitter.
RetryDelay[k \in Nat] == IF k = 0 THEN BackoffPeriod ELSE 2 * RetryDelay[k - 1]
Backoff(attempts) == Smaller(RetryDelay[attempts - 1], MaximumBackoffPeriod)

Clamp(d, floored) == IF floored THEN Smaller(d, MaximumRequeueFloor) ELSE d

\* A positive delay asks for a requeue, whatever else is said; its floor is
\* clamped.  Keys are queued before their own is completed.  An error backs off
\* until the attempts are used up.
Disposes(m, r) ==
  \/ /\ r.seconds > 0 /\ UNCHANGED undone
     /\ Returns(m, DelayPlan(Clamp(r.seconds * TicksPerSecond, r.floor), r.floor))
  \/ /\ r.seconds <= 0 /\ r.says = "ok" /\ Leaves("gone") /\ UNCHANGED undone
  \/ /\ r.says = "keys"
     /\ \/ Leaves("gone") /\ undone' = {}
        \/ Returns(m, PlainPlan) /\ undone' = {"keys"}
  \/ /\ r.says = "error" /\ UNCHANGED undone
     /\ IF m.attempts >= maxRetry THEN Leaves("dead")
        ELSE Returns(m, BackoffPlan(Backoff(m.attempts)))

-----------------------------------------------------------------------------

Ready == item.at = "queued" /\ item.meta.nb = 0

\* The floor that the breaker's delay comes to on the wire.
SpareTime(f, e) ==
  IF Passing(f, e) # {} /\ First(f, e) = "breaker"
  THEN Smaller((e.wait \div TicksPerSecond) * TicksPerSecond, MaximumRequeueFloor) ELSE 0

\* It costs an attempt: it neither passes by itself nor asks to come back.
LastingFailure(f, e) == Passing(f, e) = {} /\ "requeue" \notin e.marks

\* A run that does not finish its work, and what becomes of the key.
RunReturns(e) ==
  /\ \E seen \in Reconciled(framework, e) :
       /\ Disposes(StartMetadata(item.meta), Response(framework, seen))
       /\ shortened' = ("requeue" \in seen.marks /\ seen.wait < TicksPerSecond)
  /\ declared' = (declared \/ "final" \in e.marks)
  /\ spare' = SpareTime(framework, e)
  /\ lasting' = IF LastingFailure(framework, e) THEN lasting + 1 ELSE 0
  /\ UNCHANGED framework

RunSucceeds ==
  /\ Ready /\ cool = 0 /\ Leaves("gone") /\ undone' = {}
  /\ lasting' = 0 /\ spare' = 0 /\ shortened' = FALSE
  /\ UNCHANGED <<framework, cool, declared, upsets>>

\* The circuit is open: the request is refused with what is left of the cooldown.
RunRefused ==
  /\ Ready /\ cool > 0 /\ framework # "linear"
  /\ RunReturns([marks |-> {"breaker"}, wait |-> cool])
  /\ UNCHANGED <<cool, upsets>>

\* The host fails: the circuit opens.
RunTrips ==
  /\ Ready /\ cool = 0 /\ framework # "linear" /\ Upset
  /\ cool' \in Cooldowns
  /\ RunReturns([marks |-> {"breaker"}, wait |-> cool'])

\* The run fails otherwise, or asks for something.
RunFails ==
  /\ Ready /\ cool = 0 /\ Upset /\ UNCHANGED cool
  /\ \E e \in Errors : "breaker" \notin e.marks /\ RunReturns(e)

\* Another key's request to the host fails.
HostFails ==
  /\ framework # "linear" /\ Upset /\ cool' \in Cooldowns
  /\ UNCHANGED <<framework, item, undone, declared, spare, lasting, shortened>>

\* The key is enqueued: there is more to do.
Event ==
  /\ item.at # "dead" /\ Upset
  /\ item' = [at |-> "queued",
               meta |-> IF item.at = "gone" THEN Fresh ELSE MergeMetadata(item.meta, Fresh)]
  /\ undone' = undone \cup {"work"}
  /\ declared' = (declared /\ item.at = "queued")
  /\ lasting' = IF item.at = "gone" THEN 0 ELSE lasting
  /\ shortened' = FALSE
  /\ UNCHANGED <<framework, cool, spare>>

Elapsed(t) == IF t > 0 THEN t - 1 ELSE 0

OutcomesTick ==
  /\ item.meta.nb > 0 \/ cool > 0
  /\ item' = [item EXCEPT !.meta.nb = Elapsed(@)]
  /\ cool' = Elapsed(cool) /\ spare' = Elapsed(spare)
  /\ UNCHANGED <<framework, undone, declared, lasting, shortened, upsets>>

OutcomesNext ==
  \/ RunSucceeds \/ RunRefused \/ RunTrips \/ RunFails
  \/ HostFails \/ Event \/ OutcomesTick

OutcomesSpec == OutcomesInit /\ [][OutcomesNext]_outcomesVars

-----------------------------------------------------------------------------

\* A key leaves the queue when there is nothing left to do for it, or when its
\* reconciler said that a retry is of no use: a refusal by an open circuit is
\* neither.
\* The code does not keep it: run outcome_dropped.
NothingDropped == item.at = "gone" => undone = {} \/ declared

\* It leaves it for no other reason than the one run that asked to come back in less
\* than a second, which the response cannot say: every delay of a second or more
\* brings the key back.
OnlyShortDelaysDrop == item.at = "gone" => undone = {} \/ declared \/ shortened

\* An outage alone kills no key: before it is dead-lettered it has failed for
\* lasting reasons as often as is allowed, without a passing one in between.
OutagesKillNothing == item.at = "dead" => lasting >= maxRetry

\* A host that asked to be left alone is: no event brings the key back before.
HostSpared == [][RunSucceeds \/ RunRefused \/ RunTrips \/ RunFails => spare = 0]_outcomesVars

=============================================================================

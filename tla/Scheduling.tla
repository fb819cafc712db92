----------------------------- MODULE Scheduling -----------------------------
(***************************************************************************)
(* The scheduling metadata of a workqueue key and the pure functions the   *)
(* code applies to it: what an enqueue writes, how a second enqueue of the *)
(* same key is merged into the entry already queued, what starting a key   *)
(* and returning it to the queue do to it.                                 *)
(*                                                                         *)
(* Sources: src/workqueue/interface.go, src/workqueue/gcs/gcs.go,          *)
(* src/workqueue/inmem/inmem.go.                                           *)
(*                                                                         *)
(* Times are natural numbers; 0 is Go's zero time, which the code stores   *)
(* as noNotBefore.  The bucket stores every value as text, and text is     *)
(* compared as text.  RFC3339 text in UTC compares like the time it names, *)
(* so a time is kept as its number.  A priority is not: Queue pads it to   *)
(* eight digits and requeueOnce does not, so its text keeps both the       *)
(* number and whether it was padded.                                       *)
(***************************************************************************)
EXTENDS Integers

CONSTANTS
  BackoffPeriod,         \* unit of the linear backoff of a bare Requeue
  MaximumBackoffPeriod   \* its cap

ASSUME BackoffAssumption ==
  /\ BackoffPeriod \in Nat \ {0}
  /\ MaximumBackoffPeriod \in Nat \ {0}

-----------------------------------------------------------------------------
(* Priorities and their text.                                              *)

\* Priorities whose padded text still starts with a zero.
MaxPriority == 9999999

Priority == 0 .. MaxPriority

PriorityText == [padded : BOOLEAN, value : Priority]

Padded(p)   == [padded |-> TRUE,  value |-> p]   \* fmt.Sprintf("%08d", p)
Unpadded(p) == [padded |-> FALSE, value |-> p]   \* strconv.FormatInt(p, 10)

noPriority == Padded(0)

\* The number of decimal digits of p.
Width(p) == CHOOSE d \in 1 .. 7 : p < 10^d /\ (d = 1 \/ 10^(d - 1) <= p)

\* Go's < on the two strings.  A padded text starts with '0' and precedes
\* every unpadded one; two unpadded texts compare digit by digit from the left.
TextLess(a, b) ==
  \/ a.padded /\ b.padded /\ a.value < b.value
  \/ a.padded /\ ~b.padded
  \/ /\ ~a.padded /\ ~b.padded
     /\ LET left  == a.value * 10^(7 - Width(a.value))
            right == b.value * 10^(7 - Width(b.value))
        IN  left < right \/ (left = right /\ Width(a.value) < Width(b.value))

-----------------------------------------------------------------------------
(* The metadata of a stored object and the options of an enqueue.          *)

\* "attempts" is missing from an object that Queue wrote.
NoAttempts == -1

Meta == [prio : PriorityText, nb : Nat, floor : BOOLEAN,
         attempts : Nat \cup {NoAttempts}]

\* An object in progress always has an attempt count.
StartedMeta == [prio : PriorityText, nb : Nat, floor : BOOLEAN,
                attempts : Nat \ {0}]

Options == [prio : Priority, nb : Nat, floor : BOOLEAN]

\* The metadata Queue writes for these options.
Written(o) ==
  [prio |-> Padded(o.prio), nb |-> o.nb, floor |-> o.floor,
   attempts |-> NoAttempts]

\* Mutated form of MergeNotBefore: a floor is undercut by an earlier enqueue.
MergeNotBeforeEarliest(existing, incoming) ==
  IF existing.nb > incoming.nb THEN incoming.nb ELSE existing.nb

\* The not-before and floor of an entry after an incoming one is merged into
\* it.  The two switch statements of gcs and inmem are the same function.
MergeNotBefore(existing, incoming) ==
  IF incoming.floor /\ existing.floor
    THEN IF existing.nb < incoming.nb THEN incoming.nb ELSE existing.nb
  ELSE IF incoming.floor THEN incoming.nb
  ELSE IF existing.floor THEN existing.nb
  ELSE IF existing.nb > incoming.nb THEN incoming.nb ELSE existing.nb

\* updateMetadata: the metadata it computes from what it read.  It writes it
\* back exactly when it differs from what it read.
MergeMetadata(existing, incoming) ==
  [prio     |-> IF TextLess(existing.prio, incoming.prio)
                  THEN incoming.prio ELSE existing.prio,
   nb       |-> MergeNotBefore(existing, incoming),
   floor    |-> existing.floor \/ incoming.floor,
   attempts |-> existing.attempts]

\* Update is a patch: it sets the keys it was given and keeps the others, so
\* a floor or an attempt count it did not read survives.
PatchMetadata(current, update) ==
  [prio     |-> update.prio,
   nb       |-> update.nb,
   floor    |-> current.floor \/ update.floor,
   attempts |-> IF update.attempts = NoAttempts
                  THEN current.attempts ELSE update.attempts]

\* inmem's mergeOptions, on the options themselves.
MergeOptions(dst, src) ==
  [prio  |-> IF dst.prio < src.prio THEN src.prio ELSE dst.prio,
   nb    |-> MergeNotBefore(dst, src),
   floor |-> dst.floor \/ src.floor]

-----------------------------------------------------------------------------
(* Starting a key, and returning it to the queue.                          *)

\* Start: one more attempt, no not-before, no floor.
StartMetadata(m) ==
  [prio |-> m.prio, nb |-> 0, floor |-> FALSE,
   attempts |-> IF m.attempts = NoAttempts THEN 1 ELSE m.attempts + 1]

Smaller(a, b) == IF a < b THEN a ELSE b

\* The linear backoff of a bare Requeue.
LinearBackoff(attempts) ==
  Smaller(attempts * BackoffPeriod, MaximumBackoffPeriod)

\* How a key is returned to the queue.  "plain" is Requeue(); "backoff" sets
\* Options.BackoffDelay, "delay" sets Options.Delay and the key's own priority.
Plans == [kind : {"plain", "backoff", "delay"}, delay : Nat, floor : BOOLEAN]

PlainPlan == [kind |-> "plain", delay |-> 0, floor |-> FALSE]
BackoffPlan(d) == [kind |-> "backoff", delay |-> d, floor |-> FALSE]
DelayPlan(d, floored) == [kind |-> "delay", delay |-> d, floor |-> floored]

\* requeueOnce: the metadata it gives the queued object.
RequeueMetadata(m, plan, now) ==
  [prio     |-> IF plan.kind = "delay" /\ m.prio.value # 0
                  THEN Unpadded(m.prio.value) ELSE m.prio,
   nb       |-> IF plan.delay > 0 THEN now + plan.delay
                ELSE IF m.prio # noPriority THEN now + LinearBackoff(m.attempts)
                ELSE m.nb,
   floor    |-> m.floor \/ plan.floor,
   attempts |-> IF plan.kind = "delay" /\ plan.delay > 0 THEN 0 ELSE m.attempts]

=============================================================================

------------------------------- MODULE Sharder -------------------------------
(***************************************************************************)
(* The resync sharder (src/reconcilers/resync): a job that a cron starts   *)
(* every tick enqueues the keys whose minute of the period falls into the  *)
(* tick.  The job may start late in its tick and outlast it, its enqueues  *)
(* run side by side, and the first error cancels the rest.  Instants are   *)
(* minutes.                                                                *)
(***************************************************************************)
EXTENDS Integers, FiniteSets

CONSTANTS
  Keys,
  tick, period,
  Periods  \* bound of the model: how many periods are looked at

\* New and Process refuse anything else.
ASSUME SharderAssumption ==
  /\ {tick, period, Periods} \subseteq Nat \ {0}
  /\ period % tick = 0

VARIABLES
  now,
  bucket,    \* the minute of each key in each period, which a salted hash picks
  job,       \* how the job of each tick is doing
  start,     \* when it was started
  enqueued   \* what was enqueued, by which job, and when it is due

sharderVars == <<now, bucket, job, start, enqueued>>

Horizon  == Periods * period
Ticks == 0 .. Horizon \div tick - 1

Truncate(t, d) == t - (t % d)

SharderTypeOK ==
  /\ now \in 0 .. Horizon + tick
  /\ bucket \in [0 .. Periods - 1 -> [Keys -> 0 .. period - 1]]
  /\ job \in [Ticks -> {"due", "running", "canceled", "done", "failed"}]
  /\ start \in [Ticks -> 0 .. Horizon]
  /\ \A e \in enqueued : e.key \in Keys /\ e.job \in Ticks /\ e.due \in Nat /\ e.at \in Nat

SharderInit ==
  /\ now = 0
  /\ bucket \in [0 .. Periods - 1 -> [Keys -> 0 .. period - 1]]
  /\ job = [j \in Ticks |-> "due"] /\ start = [j \in Ticks |-> 0]
  /\ enqueued = {}

\* The job of the present tick starts, at any minute of it.
NewSharder(j) ==
  /\ job[j] = "due" /\ now \div tick = j
  /\ job' = [job EXCEPT ![j] = "running"] /\ start' = [start EXCEPT ![j] = now]
  /\ UNCHANGED <<now, bucket, enqueued>>

keyMin(j, k) == bucket[start[j] \div period][k]

shardStart(j) == Truncate(start[j], tick) - Truncate(start[j], period)

InShard(j, k) == shardStart(j) <= keyMin(j, k) /\ keyMin(j, k) < shardStart(j) + tick

target(j, k) == start[j] + keyMin(j, k) - shardStart(j)

DelayMinutes(j, k) == IF target(j, k) > now THEN target(j, k) - now ELSE 0

Enqueued(j) == {e.key : e \in {x \in enqueued : x.job = j}}

Remaining(j) == {k \in Keys : InShard(j, k)} \ Enqueued(j)

\* One of the job's calls; those under way when another fails may still succeed.
Enqueue(j, k) ==
  /\ job[j] \in {"running", "canceled"} /\ k \in Remaining(j)
  /\ enqueued' = enqueued \cup {[key |-> k, job |-> j, at |-> now,
                                 due |-> now + DelayMinutes(j, k)]}
  /\ UNCHANGED <<now, bucket, job, start>>

EnqueueFails(j) ==
  /\ job[j] = "running" /\ Remaining(j) # {}
  /\ job' = [job EXCEPT ![j] = "canceled"]
  /\ UNCHANGED <<now, bucket, start, enqueued>>

EndProcess(j) ==
  /\ \/ job[j] = "running" /\ Remaining(j) = {} /\ job' = [job EXCEPT ![j] = "done"]
     \/ job[j] = "canceled" /\ job' = [job EXCEPT ![j] = "failed"]
  /\ UNCHANGED <<now, bucket, start, enqueued>>

MinutePasses ==
  /\ now < Horizon + tick
  /\ now' = now + 1
  /\ UNCHANGED <<bucket, job, start, enqueued>>

SharderNext ==
  \/ \E j \in Ticks : NewSharder(j) \/ EnqueueFails(j) \/ EndProcess(j)
  \/ \E j \in Ticks, k \in Keys : Enqueue(j, k)
  \/ MinutePasses

-----------------------------------------------------------------------------

JobsOf(p) == {j \in Ticks : (j * tick) \div period = p}

\* A period whose jobs all succeeded has enqueued every key exactly once, at
\* whatever minute of its tick each job started (Process: "the per-key
\* minute-of-period is stable within a period").
EachKeyOnce ==
  \A p \in 0 .. Periods - 1 :
    (\A j \in JobsOf(p) : job[j] = "done") =>
      \A k \in Keys : Cardinality({e \in enqueued : e.key = k /\ e.job \in JobsOf(p)}) = 1

\* A key is due within one tick of its job's start, or at once if it is
\* enqueued later: time spent before the call comes off the delay.
DueInShard ==
  \A e \in enqueued : e.due < start[e.job] + tick \/ e.due = e.at

\* The jobs of a period spread its keys: each key once, and each when it is due.
ShardsTile == EachKeyOnce /\ DueInShard

=============================================================================

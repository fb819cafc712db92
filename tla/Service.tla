------------------------------- MODULE Service -------------------------------
(***************************************************************************)
(* The parts of a reconciler service around its queue.  They share no      *)
(* state and call each other through the network alone, so each behaviour  *)
(* is of one of them and leaves the others at rest.                        *)
(***************************************************************************)
EXTENDS Breaker, Drain, Dedup, Lease, Sharder, ClonePool, Outcomes, Credentials, LinearClient,
        Conformance, Statuses, BranchReconciler, Stores

VARIABLE part

serviceVars ==
  <<part, breakerVars, drainVars, dedupVars, leaseVars, sharderVars, poolVars,
    outcomesVars, credentialsVars, linearClientVars, conformanceVars, statusesVars, branchVars,
    storesVars>>

\* How a part starts, and the one state it has in the behaviours of another.
DedupStarts ==
  IF part = "dedup" THEN DedupInit
  ELSE LET o == CHOOSE o \in Enqueues : TRUE IN
       arrived = {o} /\ entry = o /\ object = Written(o)

LeaseStarts ==
  LeaseInit /\ (part # "lease" => pace = (CHOOSE p \in Paces : TRUE) /\ subsecond = 0)

SharderStarts ==
  /\ SharderInit
  /\ part # "sharder" => bucket = [p \in 0 .. Periods - 1 |-> [k \in Keys |-> 0]]

OutcomesStart ==
  OutcomesInit /\ (part # "outcomes" => framework = CHOOSE f \in Frameworks : TRUE)

CredentialsStart == CredentialsInit /\ (part # "credentials" => vendor = "linear")

LinearStart == LinearClientInit /\ (part # "linear" => subject = "a team")

ConformanceStarts ==
  IF part = "conformance" THEN ConformanceInit
  ELSE /\ script = <<>> /\ drained = TRUE /\ testClock = 1 /\ inHand = NobodyHeld
       /\ testQueue = [k \in TestKeys |-> NoItem] /\ testWip = {}

StatusesStart == StatusesInit /\ (part # "statuses" => kept = "gcs")

StoresStart == StoresInit /\ (part # "stores" => backend = "memory" /\ test = <<>>)

Parts == {"breaker", "drain", "dedup", "lease", "sharder", "pool", "outcomes",
          "credentials", "linear", "conformance", "statuses", "branch",
          "stores"}

ServiceInit ==
  /\ part \in Parts
  /\ BreakerInit /\ DrainInit /\ PoolInit
  /\ DedupStarts /\ LeaseStarts /\ SharderStarts /\ OutcomesStart
  /\ CredentialsStart /\ LinearStart /\ ConformanceStarts /\ StatusesStart /\ BranchInit
  /\ StoresStart

\* A step of the part the behaviour is of; the others rest.
Runs(p, A) ==
  /\ part = p /\ UNCHANGED part /\ A
  /\ p # "breaker" => UNCHANGED breakerVars
  /\ p # "drain"   => UNCHANGED drainVars
  /\ p # "dedup"   => UNCHANGED dedupVars
  /\ p # "lease"   => UNCHANGED leaseVars
  /\ p # "sharder" => UNCHANGED sharderVars
  /\ p # "pool"    => UNCHANGED poolVars
  /\ p # "outcomes" => UNCHANGED outcomesVars
  /\ p # "credentials" => UNCHANGED credentialsVars
  /\ p # "linear"  => UNCHANGED linearClientVars
  /\ p # "conformance" => UNCHANGED conformanceVars
  /\ p # "statuses" => UNCHANGED statusesVars
  /\ p # "branch"  => UNCHANGED branchVars
  /\ p # "stores"  => UNCHANGED storesVars

ServiceNext ==
  \/ Runs("breaker", BreakerNext) \/ Runs("drain", DrainNext)
  \/ Runs("dedup", DedupNext)     \/ Runs("lease", LeaseNext)
  \/ Runs("sharder", SharderNext) \/ Runs("pool", PoolNext)
  \/ Runs("outcomes", OutcomesNext)
  \/ Runs("credentials", CredentialsNext) \/ Runs("linear", LinearClientNext)
  \/ Runs("conformance", ConformanceNext)
  \/ Runs("statuses", StatusesNext) \/ Runs("branch", BranchNext)
  \/ Runs("stores", StoresNext)

ServiceSpec == ServiceInit /\ [][ServiceNext]_serviceVars

\* Time passes, the host recovers, callers come back, attempts end and runs go on.
\* A behaviour is of one part, so conditions of several parts are stated together.
TimePasses ==
  Runs("breaker", BreakerTick) \/ Runs("lease", LeaseTick) \/ Runs("credentials", TokenAges)
OthersAct ==
  \/ Runs("breaker", Recover) \/ Runs("lease", HeartbeatSteps)
  \/ Runs("credentials", HolderActs) \/ Runs("branch", RunProceeds)

FairService ==
  /\ ServiceSpec
  /\ WF_serviceVars(TimePasses) /\ WF_serviceVars(OthersAct)
  /\ \A r \in Callers : WF_serviceVars(Runs("breaker", CallerNext(r)))

TypeOK ==
  /\ part \in Parts
  /\ BreakerTypeOK /\ DrainTypeOK /\ LeaseTypeOK /\ SharderTypeOK /\ PoolTypeOK
  /\ OutcomesTypeOK /\ CredentialsTypeOK /\ LinearClientTypeOK
  /\ ConformanceTypeOK /\ StatusesTypeOK /\ BranchTypeOK /\ StoresTypeOK
  /\ arrived \subseteq Options /\ entry \in Options

-----------------------------------------------------------------------------

\* What must not last: a token that the server dropped, or a lock whose holder
\* failed, keeps a request waiting; a branch is neither finished nor given up; work
\* goes on for a key that another attempt holds.
Pending == Blocked \/ (part = "branch" /\ key = "queued") \/ Overstays

\* After the host has recovered, every caller of the breaker gets through, also
\* when the probe that would have closed the circuit was lost; and whatever is
\* pending ends, however the bucket's outages come and go and whichever call fails.
EveryCallerServed == (part = "breaker" => EventuallyServed) /\ []<>~Pending

\* No key is missed: the jobs of a period enqueue each once and in time, and none
\* leaves the queue with its work undone, unless it asked to come back in less than
\* a second, nor for an outage of its host; a branch is given up after its attempts
\* and not before.
NoKeyMissed == ShardsTile /\ OnlyShortDelaysDrop /\ OutagesKillNothing /\ BranchSound

\* Queue and stores keep and list what they hold as the repository's own
\* conformance tests ask (workqueue/conformance, store/blob/blobtest).
TestsHold == Conforms /\ StoresConform

\* What reconciles share: a clone serves one of them at a time and is given back,
\* credentials are neither made twice nor trusted for too long, and neither a state
\* nor a comment on Linear is lost to another reconcile, the statuses written
\* beside each other stay readable, and a store hands out what was stored, once.
SharedKept ==
  /\ ClonesKept /\ CredentialsSound /\ LinearClientSound /\ StatusesSound /\ StoresSound

\* A host that fails is spared: probes of its open circuit keep apart, and no
\* event brings a key back before the floor that the circuit asked for.
HostsSpared == ProbesApart /\ HostSpared

-----------------------------------------------------------------------------
\* A small instance.

\* Priorities of one and of two digits, three times, floored or not.
FloorMix  == [prio : {5, 10}, nb : 0 .. 2, floor : BOOLEAN]
NoOptions == {}

\* Retries shorter than a refresh, nearly as long, and longer, in half seconds.
SomePaces == {[refresh |-> 4, retry |-> 1], [refresh |-> 3, retry |-> 2],
              [refresh |-> 2, retry |-> 5]}

\* All of them, with delays of half seconds.
AllFrameworks == {"github", "linear", "oci", "apk"}

=============================================================================

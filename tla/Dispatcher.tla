----------------------------- MODULE Dispatcher -----------------------------
(***************************************************************************)
(* Dispatch passes over many keys (src/workqueue/dispatcher/dispatcher.go  *)
(* and handler.go) on the in-memory queue.                                 *)
(*                                                                         *)
(* A trigger admits a pass at most once per DispatchPeriod.  A pass lists  *)
(* the queue, decides from that list alone which keys to launch, and runs  *)
(* one goroutine per key: task <<p, k>> is the goroutine of pass p for key *)
(* k.  Passes overlap freely, so a task may start long after its pass      *)
(* listed the key.  The queue's operations are atomic; the callback, and   *)
(* the gaps between the operations of one task, are where others move.     *)
(***************************************************************************)
EXTENDS InMemQueue

CONSTANTS
  Passes,          \* passes that may be in flight together
  Concurrency, BatchSize,
  MaxRetry,        \* attempt limit, 0 means none
  DispatchPeriod,  \* least time between two admitted passes
  PromptStarts,    \* whether tasks start before time passes
  MaximumRequeueFloor,
  HookDelays,      \* what a WithBackoff hook returns; empty without a hook
  EnqueueOptions,  \* options callers pass to Queue
  RevisitPlans,    \* the requeues a callback may ask for
  Families,        \* the sets of keys a callback may ask to queue
  MaxClock,        \* bounds of the model: time,
  MaxEvents,       \*   accepted enqueues of one key,
  MaxFailures,     \*   failed callbacks,
  MaxRevisits,     \*   requeues and queued keys the callbacks ask for,
  MaxFaults        \*   failed Queue calls

Tasks == Passes \X Keys

ASSUME DispatcherAssumption ==
  /\ Concurrency \in Nat \ {0} /\ BatchSize \in Nat
  /\ PromptStarts \in BOOLEAN
  /\ MaxRetry \in Nat /\ DispatchPeriod \in Nat /\ MaximumRequeueFloor \in Nat
  /\ HookDelays \subseteq Nat /\ EnqueueOptions \subseteq Options
  /\ RevisitPlans \subseteq Plans /\ Families \subseteq (SUBSET Keys) \ {{}}
  /\ {MaxClock, MaxEvents, MaxFailures, MaxRevisits, MaxFaults} \subseteq Nat

VARIABLES
  at,        \* where each task is
  owned,     \* the options and attempts a task carries: listed, then started
  toQueue,   \* keys a task still has to queue before it completes its own
  nextPass,  \* when the trigger's rate limiter admits the next pass
  accepted,  \* history: accepted enqueues of each key
  seen,      \* history: accepted when the task's callback started
  owed,      \* history: <<parent, child>>: child asked for and not queued yet
  handled,   \* history: enqueues covered by a callback that ended the work
  budget     \* failures, revisits and faults so far

tasks == <<at, owned, toQueue>>
ghost == <<accepted, seen, owed, handled>>
vars  == <<maps, clock, tasks, nextPass, ghost, budget>>

Places == {"none", "start", "run", "queueKeys", "complete"}

\* What a queued key carries from the listing to the end of its task.
Carried == [prio : Priority, attempts : Nat]

TypeOK ==
  /\ InMemTypeOK
  /\ at \in [Tasks -> Places]
  /\ owned \in [Tasks -> Carried]
  /\ toQueue \in [Tasks -> SUBSET Keys]
  /\ nextPass \in Nat
  /\ accepted \in [Keys -> Nat] /\ handled \in [Keys -> Nat]
  /\ seen \in [Tasks -> Nat]
  /\ owed \subseteq Keys \X Keys
  /\ budget \in [failures : Nat, revisits : Nat, faults : Nat]

Nothing == [prio |-> 0, attempts |-> 0]

Init ==
  /\ InMemInit
  /\ at = [t \in Tasks |-> "none"]
  /\ owned = [t \in Tasks |-> Nothing]
  /\ toQueue = [t \in Tasks |-> {}]
  /\ nextPass = 0
  /\ accepted = [k \in Keys |-> 0] /\ handled = [k \in Keys |-> 0]
  /\ seen = [t \in Tasks |-> 0]
  /\ owed = {}
  /\ budget = [failures |-> 0, revisits |-> 0, faults |-> 0]

-----------------------------------------------------------------------------
(* Callers, and a pass.                                                    *)

\* A caller queues k with options o.
Enqueue(k, o) ==
  /\ accepted[k] < MaxEvents
  /\ Queue(k, o)
  /\ accepted' = [accepted EXCEPT ![k] = @ + 1]
  /\ UNCHANGED <<clock, tasks, nextPass, seen, owed, handled, budget>>

Idle(p) == \A k \in Keys : at[<<p, k>>] = "none"

\* The batch size HandleAsync works with.
Batch == IF BatchSize <= 0 \/ BatchSize > Concurrency THEN Concurrency ELSE BatchSize

\* Mutated form of LaunchLimit: what is in progress is not counted.
LaunchLimitBlind == Batch

LaunchLimit ==
  IF Cardinality(wip) >= Concurrency THEN 0
  ELSE Smaller(Batch, Concurrency - Cardinality(wip))

\* Mutated form of Launches: keys in progress use up launches.
LaunchesOfListed == UNION {Front(listing, LaunchLimit) : listing \in Listings}

\* What a pass may launch: the first listed keys that are not in progress.
Launches == UNION {Front(listing \ wip, LaunchLimit) : listing \in Listings}

\* A trigger is admitted and p runs HandleAsync up to its goroutines.
BeginPass(p) ==
  /\ Idle(p)
  /\ nextPass <= clock
  /\ nextPass' = IF DispatchPeriod = 0 THEN nextPass ELSE clock + DispatchPeriod
  /\ \E launch \in Launches :
       /\ launch # {} \/ DispatchPeriod > 0
       /\ at' = [t \in Tasks |->
                   IF t[1] = p /\ t[2] \in launch THEN "start" ELSE at[t]]
       /\ owned' = [t \in Tasks |->
                      IF t[1] = p /\ t[2] \in launch
                        THEN [prio |-> queue[t[2]].prio,
                              attempts |-> queue[t[2]].attempts]
                        ELSE owned[t]]
  /\ UNCHANGED <<maps, clock, toQueue, ghost, budget>>

-----------------------------------------------------------------------------
(* A task.                                                                 *)

Goto(t, place) == at' = [at EXCEPT ![t] = place]

\* The goroutine of t returns.
Return(t) ==
  /\ Goto(t, "none")
  /\ owned' = [owned EXCEPT ![t] = Nothing]
  /\ toQueue' = [toQueue EXCEPT ![t] = {}]
  /\ seen' = [seen EXCEPT ![t] = 0]

\* The events that t's callback covers are taken care of.
Discharge(t) ==
  handled' = [handled EXCEPT ![t[2]] = IF @ < seen[t] THEN seen[t] ELSE @]

\* Start, with what the pass listed; the task ends if someone beat it.
Start(t) ==
  /\ at[t] = "start"
  /\ UNCHANGED <<clock, nextPass, accepted, handled, budget>>
  /\ \/ /\ CanStart(t[2])
        /\ StartKey(t[2])
        /\ owned' = [owned EXCEPT ![t].attempts = @ + 1]
        /\ seen' = [seen EXCEPT ![t] = accepted[t[2]]]
        /\ owed' = {e \in owed : e[1] # t[2]}
        /\ Goto(t, "run")
        /\ UNCHANGED toQueue
     \/ /\ ~CanStart(t[2])
        /\ Return(t)
        /\ UNCHANGED <<maps, owed>>

\* The callback returns nil, or an error marked non-retriable while attempts
\* remain: the key is completed.
Succeed(t) ==
  /\ at[t] = "run"
  /\ Remove(t[2]) /\ Discharge(t) /\ Return(t)
  /\ UNCHANGED <<clock, nextPass, accepted, owed, budget>>

\* The doubling curve of failure retries.
retryBackoff(attempts) ==
  Smaller(BackoffPeriod * 2^(IF attempts < 1 THEN 0 ELSE attempts - 1),
          MaximumBackoffPeriod)

\* The delays a failed key may get: the hook's if positive, else the curve
\* with up to half of it added at random.
FailureDelays(attempts) ==
  LET base   == retryBackoff(attempts)
      jitter == base \div 2
  IN  {d \in HookDelays : d > 0}
        \cup {d \in 1 .. 2 * MaximumBackoffPeriod :
                /\ HookDelays = {} \/ 0 \in HookDelays
                /\ base <= d /\ d < base + IF jitter > 0 THEN jitter ELSE 1}

\* The callback fails: dead-letter at the attempt limit, else back off.
Fail(t) ==
  /\ at[t] = "run"
  /\ budget.failures < MaxFailures
  /\ budget' = [budget EXCEPT !.failures = @ + 1]
  /\ \/ /\ MaxRetry > 0 /\ owned[t].attempts >= MaxRetry
        /\ Remove(t[2]) /\ Discharge(t)
     \/ /\ MaxRetry > 0 => owned[t].attempts < MaxRetry
        /\ \E d \in FailureDelays(owned[t].attempts) :
             RequeueKey(t[2], owned[t], BackoffPlan(d))
        /\ UNCHANGED handled
  /\ Return(t)
  /\ UNCHANGED <<clock, nextPass, accepted, owed>>

\* A floored delay is clamped.
Clamped(asked) ==
  IF asked.floor THEN [asked EXCEPT !.delay = Smaller(@, MaximumRequeueFloor)]
  ELSE asked

\* The callback asks to see the key again after a delay.
AskRequeue(t) ==
  /\ at[t] = "run"
  /\ budget.revisits < MaxRevisits
  /\ budget' = [budget EXCEPT !.revisits = @ + 1]
  /\ \E asked \in RevisitPlans : RequeueKey(t[2], owned[t], Clamped(asked))
  /\ Return(t)
  /\ UNCHANGED <<clock, nextPass, accepted, owed, handled>>

\* The callback names keys to queue, its own perhaps among them.
AskQueueKeys(t) ==
  /\ at[t] = "run"
  /\ budget.revisits < MaxRevisits
  /\ budget' = [budget EXCEPT !.revisits = @ + 1]
  /\ \E family \in Families :
       /\ toQueue' = [toQueue EXCEPT ![t] = family]
       /\ owed' = owed \cup ({t[2]} \X family)
  /\ Goto(t, "queueKeys")
  /\ UNCHANGED <<maps, clock, owned, nextPass, accepted, seen, handled>>

\* One of them is queued; after the last the task's own key is completed.
QueueKey(t) ==
  /\ at[t] = "queueKeys"
  /\ \E k \in toQueue[t], o \in EnqueueOptions :
       /\ Queue(k, o)
       /\ accepted' = [accepted EXCEPT ![k] = @ + 1]
       /\ toQueue' = [toQueue EXCEPT ![t] = @ \ {k}]
       /\ owed' = owed \ {<<t[2], k>>}
       /\ Goto(t, IF toQueue[t] = {k} THEN "complete" ELSE "queueKeys")
  /\ UNCHANGED <<clock, owned, nextPass, seen, handled, budget>>

\* Mutated form of QueueKeyFails: the failed key is skipped.
QueueKeySkipped(t) ==
  /\ at[t] = "queueKeys"
  /\ budget.faults < MaxFaults
  /\ budget' = [budget EXCEPT !.faults = @ + 1]
  /\ Goto(t, "complete")
  /\ UNCHANGED <<maps, clock, owned, toQueue, nextPass, ghost>>

\* Mutated form of QueueKeyFails: the task gives up on its own key as well.
QueueKeyFailsReturns(t) ==
  /\ at[t] = "queueKeys"
  /\ budget.faults < MaxFaults
  /\ budget' = [budget EXCEPT !.faults = @ + 1]
  /\ Return(t)
  /\ UNCHANGED <<maps, clock, nextPass, accepted, owed, handled>>

\* Queueing one fails: the task's own key goes back to the queue.
QueueKeyFails(t) ==
  /\ at[t] = "queueKeys"
  /\ budget.faults < MaxFaults
  /\ budget' = [budget EXCEPT !.faults = @ + 1]
  /\ RequeueKey(t[2], owned[t], PlainPlan)
  /\ Return(t)
  /\ UNCHANGED <<clock, nextPass, accepted, owed, handled>>

Complete(t) ==
  /\ at[t] = "complete"
  /\ Remove(t[2]) /\ Discharge(t) /\ Return(t)
  /\ UNCHANGED <<clock, nextPass, accepted, owed, budget>>

\* Time passes while something waits for it.
Tick ==
  /\ clock < MaxClock
  /\ PromptStarts => \A t \in Tasks : at[t] # "start"
  /\ nextPass > clock \/ \E k \in Keys : queue[k] # None /\ clock < queue[k].nb
  /\ clock' = clock + 1
  /\ UNCHANGED <<maps, tasks, nextPass, ghost, budget>>

-----------------------------------------------------------------------------

TaskNext(t) ==
  \/ Start(t) \/ Succeed(t) \/ Fail(t) \/ AskRequeue(t) \/ AskQueueKeys(t)
  \/ QueueKey(t) \/ QueueKeyFails(t) \/ Complete(t)

Next ==
  \/ \E k \in Keys, o \in EnqueueOptions : Enqueue(k, o)
  \/ \E p \in Passes : BeginPass(p)
  \/ \E t \in Tasks : TaskNext(t)
  \/ Tick

Spec == Init /\ [][Next]_vars

-----------------------------------------------------------------------------
(* Safety.                                                                 *)

\* The places of a task whose key is in progress.
Owning == {"run", "queueKeys", "complete"}

\* However passes overlap, a key in progress has exactly one task: of all the
\* passes that launched it one starts it, and nobody else takes it away.
OneOwner ==
  \A k \in Keys :
    Cardinality({p \in Passes : at[<<p, k>>] \in Owning}) = IF k \in wip THEN 1 ELSE 0

\* An accepted event that no callback has covered is still in the queue's maps,
\* also when the callback queues further keys and one of them fails.
NoLostWork ==
  \A k \in Keys : accepted[k] > handled[k] => queue[k] # None \/ k \in wip

\* What the task of pass p for key k covers.
Covers(k) ==
  [p \in Passes |-> IF at[<<p, k>>] \in Owning THEN seen[<<p, k>>] ELSE -1]

KeyContract(k) ==
  INSTANCE AtLeastOnce WITH
    Workers <- Passes, accepted <- accepted[k], handled <- handled[k],
    kept <- queue[k] # None \/ k \in wip, covers <- Covers(k)

\* Every key keeps the contract of the queue: no interleaving of passes loses an
\* event, settles one early or revives a key that is done.
KeepsContract ==
  /\ \A k \in Keys : KeyContract(k)!Init
  /\ [][\A k \in Keys : KeyContract(k)!Next \/ UNCHANGED KeyContract(k)!contract]_vars

\* A key that a callback asked to queue and that is not queued yet has a parent
\* that is still in the queue's maps and will be processed: no failed Queue call
\* lets the parent complete without its children.
ChildrenNotForgotten == \A e \in owed : queue[e[1]] # None \/ e[1] \in wip

\* No more keys are in progress than the dispatcher's concurrency
\* (conformance/concurrency.go: "Too many inflight").
ConcurrencyCap == Cardinality(wip) <= Concurrency

\* The keys that p launches in a step.
Launched(p) == {k \in Keys : at[<<p, k>>] = "none" /\ at'[<<p, k>>] = "start"}

\* A pass launches the best of the keys that are ready and not in progress, and
\* fills every slot it may fill, although Enumerate cuts its list at Limit and
\* counts keys on it that are in progress and queued again.
BestReady ==
  [][\A p \in Passes :
       BeginPass(p) => Launched(p) \in Front(Ready \ wip, LaunchLimit)]_vars

\* A failed key is not kept waiting longer than the maximum backoff
\* (interface.go: "MaximumBackoffPeriod caps the failure-retry backoff").
\* The code does not keep it: README, section 7.
BackoffCapped ==
  [][\A t \in Tasks :
       Fail(t) => \/ queue'[t[2]] = None
                  \/ queue'[t[2]].nb <= clock + MaximumBackoffPeriod]_vars

-----------------------------------------------------------------------------
(* Liveness.  Triggers keep coming, every task's next step happens (the    *)
(* callback returns), and time passes.                                     *)

Fairness ==
  /\ WF_vars(Tick)
  /\ WF_vars(\E p \in Passes : BeginPass(p))
  /\ \A t \in Tasks : WF_vars(TaskNext(t))

FairSpec == Spec /\ Fairness

\* Every accepted event of every key is eventually covered by a callback that
\* ends the work, whatever else is queued and however few slots there are: as
\* callers stop at MaxEvents, a time always comes when no key is owed anything.
EventuallyHandled == []<>(\A k \in Keys : handled[k] = accepted[k])

-----------------------------------------------------------------------------
(***************************************************************************)
(* Why the dispatcher's safety properties hold: the inductive invariants   *)
(* behind them, checked by TLC and proved in Dispatcher_proofs.            *)
(***************************************************************************)

\* The callback of t, or what follows it, has the key in progress.
Owns(t) == at[t] \in Owning

\* A key in progress belongs to one task, and a task that owns a key has it in
\* progress: Start takes the key and the three ends of a task give it back.
Ownership ==
  /\ \A t \in Tasks : Owns(t) => t[2] \in wip
  /\ \A t, u \in Tasks : Owns(t) /\ Owns(u) /\ t[2] = u[2] => t = u
  /\ \A k \in wip : \E t \in Tasks : Owns(t) /\ t[2] = k

\* What arrived after a callback began is queued again, and a task never
\* covers more than arrived.
Coverage ==
  \A t \in Tasks :
    Owns(t) => /\ seen[t] <= accepted[t[2]]
               /\ seen[t] < accepted[t[2]] => queue[t[2]] # None

\* A child still owed is in the hands of the task that was asked for it, or the
\* parent is queued and will be processed again.
Debts ==
  \A e \in owed :
    \/ \E t \in Tasks : t[2] = e[1] /\ at[t] = "queueKeys" /\ e[2] \in toQueue[t]
    \/ queue[e[1]] # None

\* No enqueue is counted as handled before it was accepted.
HandledBounded == \A k \in Keys : handled[k] <= accepted[k]

IInv == TypeOK /\ Ownership /\ Coverage /\ Debts /\ HandledBounded /\ NoLostWork

\* The keys a task will start.
Launching == {k \in Keys : \E p \in Passes : at[<<p, k>>] = "start"}

\* With a rate-limited trigger and prompt starts, a pass lists the queue only
\* after the tasks of the passes before it started.
Paced ==
  /\ Launching # {} => nextPass > clock
  /\ Cardinality(wip \cup Launching) <= Concurrency

=============================================================================

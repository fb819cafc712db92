# TLA+ verification of driftlessaf

driftlessaf runs level-triggered reconcilers and AI agents behind a work queue.
This directory holds TLA+ models of the parts whose correctness rests on
ordering, crashes, retries and time, the TLC configurations that check them on
small instances, and the TLAPS proofs of what matters most.

    tlc -workers 2 -config gcs_safety.cfg MCGCSQueue     model-check one instance
    tlapm Reconcilers_proofs.tla                         check one module's proofs

PROJECT.json lists the components, the runs, the theorems, the source lines
behind each definition, the hazards each property is about, and for each checked
property a mutated form of the code that breaks it.

## 1. The system

Someone who wants a resource reconciled *queues* its key. A *dispatcher*,
triggered periodically, lists the queue, starts keys up to a concurrency limit
and invokes a callback for each. The callback is usually a gRPC call to a
*reconciler*, which may fail, ask to see the key again later, or ask for other
keys to be queued. A reconciler leases a clone, runs an *agent* on it, and keeps
a pull request, issues, check runs or a status up to date; an agent may
*suspend* its key until a human answers a question.

| Component | State it keeps | Operations | Interacts through |
|---|---|---|---|
| workqueue on GCS, `workqueue/gcs` | objects `queued/<key>`, `in-progress/<key>`, `dead-letter/<key>`, their metadata and generations | Queue, Enumerate, Start, heartbeat, Complete, Deadletter, Requeue | conditional requests to the bucket |
| workqueue in memory, `workqueue/inmem` | a map of entries, a set of keys in progress | the same | one mutex |
| dispatcher, `workqueue/dispatcher` | a goroutine per launched key and per orphan | HandleAsync, ServiceCallback, the trigger's handler | lists and starts keys, runs the callback, queues the keys it asks for |
| drain, `workqueue/drain.go` | whether SIGTERM came; per call a context, a result, a timer | DrainInterceptor | wraps the Process RPC |
| breaker, `breaker` | per host: failures, retryAt | Allow, RecordSuccess, RecordFailure | wraps an HTTP transport |
| frameworks, `githubreconciler`, `linearreconciler`, `ocireconciler`, `apkreconciler` | none | Reconcile, Process | turn errors into responses on the wire |
| resync sharder, `reconcilers/resync` | none | Process, once per tick | enqueues keys |
| clone manager, `clonemanager` | a pool of clones | Lease, MakeAndPushChanges, Return | git, reconcilers |
| credentials, `client.go`, `app_tokensource.go`, `anthropicauth` | cached tokens, clients and installations | getToken, Get, LookupInstallID | every API call of the process |
| change manager, `changemanager` | one pull request: branch, body, labels | NewSession, Upsert, CloseAnyOutstanding, Surface | GitHub, the agent |
| path and issue reconcilers, `metapathreconciler`, `metareconciler`, `issuemanager` | a pull request, the issues of a path, check runs | reconcilePath, reconcileIssue, reconcilePullRequest | GitHub, people |
| Linear reconciler, `linearreconciler` | state attachment, comment and workflow state of an issue | reconcileIssue, Save, Load, UpsertBotComment | Linear, GitHub, people |
| branch reconciler, `branchreconciler` | commits on a branch | Reconcile | GitHub, an agent |
| status managers, `ocireconciler/statusmanager`, `gcsstatusmanager`, `statusmanager` | signed bundles, objects, check runs | ObservedState, SetActualState | registry, bucket, GitHub |
| executors, `agents/executor` | a conversation | turns, tool calls, retries, suspend and resume | model providers, tools |
| tools, `agents/toolcall`, `clonemanager/worktree.go` | the files of a clone, caches of logs | read, edit, write, search, list, retry | the agent's parallel calls |
| traces, `agents/agenttrace` | spans, tool calls, events in flight | StartTurn, AddToolCall, Complete, Drain | an event sink |
| suspend, `agents/suspend`, `agents/checkpoint` | a parked envelope per key; questions and answers on an issue | Wake, Suspend, Ask, Consume | compare-and-swap deletes; comments; people |
| stores, `store/blob`, `checkpoint/memstore`, `checkpoint/jsonlstore` | objects and envelopes with generations | Put, Get, Delete, List; Save, Load, Delete | their clients, the disk |

### What is hard

* **No lock spans two requests.** On the bucket, on GitHub and on Linear every
  operation is several calls, each atomic, with anything in between: another
  worker, a person, a crash, a call whose answer is lost though it took effect.
* **The dispatcher's passes overlap**, and leases may lapse under a live worker,
  so two reconciles of one key may run at once.
* **Agents act in parallel**: the tool calls of one turn share the files, a
  submission reads what the others write, and a run may be parked and resumed.
* **What a run knows is old.** It decides from a snapshot and then acts by a
  sequence of calls, while people merge, close, label and edit.
* **Budgets live where a crash can lose them**: in a pull request's body, in an
  attachment that is deleted before it is uploaded, in a process.
* **Shutdown, the breaker and heartbeats** race timers with late outcomes.

### What makes each part correct

* Queue and dispatcher: no accepted event is lost; a key is worked on by one
  worker unless its lease has lapsed; a live lease is not taken away; the best ready
  keys go first; a parent does not complete without its children.
* Edges of the queue: a call is answered before the platform kills the process and a
  shutdown costs no key an attempt; an open circuit lets one probe out per window;
  no error completes or kills a key that has work left; each key of a period is
  enqueued once.
* What reconciles share: a clone serves one lease and is given back clean; a push
  carries its own lease's edits only; tokens are not trusted beyond their cap; a
  status stays readable; a store hands out what was stored, once.
* Pull requests: the body describes the branch; a gave-up label is explained; runs
  stay in their budgets; what a person ended stays ended; pushing ceases.
* Agents: a request pairs each call with one result; nothing is done after an
  accepted submission; pauses buy no turns; parallel tools act as if in order.
* Suspend: a pause ends once, with the answer to its own question, in bounded time.

## 2. Modules

| Module | What it is |
|---|---|
| `AtLeastOnce` | the abstract contract of the work queue for one key |
| `Scheduling` | operators: priorities and their text, metadata, merging, backoff |
| `GCSQueue` | one key on the bucket, request by request, with the dispatcher's flow for it; implements `AtLeastOnce` |
| `InMemQueue`, `Dispatcher` | the in-memory queue; passes, tasks, callbacks and trigger over it; each key implements `AtLeastOnce` |
| `SuspendWake` | Wake and Suspend on the checkpoint and question stores |
| `Breaker`, `Drain`, `Dedup`, `Lease`, `Sharder`, `ClonePool`, `Outcomes`, `Credentials`, `LinearClient`, `Conformance`, `Statuses`, `BranchReconciler`, `Stores` | the parts of a reconciler service around its queue |
| `Service` | those thirteen side by side, with the small instance that TLC checks |
| `PullRequest` | one pull request: session, Upsert call by call, labels, checks and people |
| `PathReconciler`, `IssueReconciler`, `LinearReconciler` | the three kinds of reconciler on it |
| `Reconcilers` | a resource of any kind with its pull request; the inductive invariant |
| `AgentTurn`, `ClaudeExecutor`, `Executors` | a turn and its pool of tool calls; the loop of each provider (Gemini's and OpenAI's in `Executors`) |
| `FileTools`, `FindingTools`, `Pages`, `Tracing`, `PathIssues`, `PathReview` | tools, page-wise readers, traces, the issues of a path, the review of a pull request |
| `AgentService` | an agent's run and those parts side by side, with their small instance |
| `MCGCSQueue`, `MCDispatcher`, `MCSuspendWake` | the instances TLC checks of the queue and of suspend |
| `GCSQueue_proofs`, `Dispatcher_proofs`, `SuspendWake_proofs`, `Service_proofs`, `Reconcilers_proofs`, `AgentService_proofs` | proofs |
| `Shared_proofs`, `FileTools_proofs` | lemmas of `Service_proofs` about what reconciles share, and of `AgentService_proofs` about file tools |

`Service` and `AgentService` compose parts that share no state: they call each
other over the network only and each part's faults already include whatever the
others may do. A behaviour is of one part (`part`) and leaves the others in one
fixed state, so that the state space is the sum of the parts' and not their
product. `Reconcilers` composes parts that do share state, the pull request.

No module has a RECURSIVE operator. Definitions whose comment begins "Mutated
form of" are the plausible bugs PROJECT.json names; no specification uses them.

### How state and actions correspond to the code

**GCSQueue.** `queued`, `wip` and `dead` are the three objects of one key; no
operation touches another key's objects, so one key carries every interleaving.
`wip.gen` and `wip.mgen` are generation and metageneration. `pc` says which request
a goroutine is about to send; `own`, `listed`, `plan`, `incoming` and `twin` are the
variables it carries between two. Queue is `Enqueue`, `QueueWrite`, `QueueRead`,
`QueuePatch`; Start is `Start` (copy if absent) and `Unlink` (delete the source);
`Refresh` is a heartbeat that lands, acknowledged or not; the callback's outcomes
are `Succeed`, `Fail`, `AskRequeue`, `AskQueueKeys`; Complete, Deadletter and Requeue
are `ClearDeadLetter`, `Bury`, `CopyBack`, `TwinRead`, `TwinPatch`, `DeleteLease`;
orphans are `Observe`, `Recheck`. `Abandon` is a crash or a failed request.
Where the code pins a request to a generation the guard is `Pinned` or
`DeletePinned`; where it does not, the model does not.

**Lease** adds what `GCSQueue` leaves out of the heartbeat: the length of an
attempt, its retries, outages of the bucket, and a refresh whose answer is lost though it
landed. The bucket's object keeps the expiry in whole seconds (`Stamped`, RFC 3339), the
heartbeat believes in the one it asked for. A request that its sender gave up on is taken
not to reach the bucket later.

**Dispatcher.** `queue` and `wip` are the in-memory maps. A task is a pass and a
key: `BeginPass` is HandleAsync up to its last `go`, `Start` takes the key or finds
it gone, the rest is the callback's goroutine. `nextPass` is the trigger's limiter.

**SuspendWake.** `store` is the envelope on the bucket, its `pause` standing for its
generation; `comments` is the issue's conversation, with retired markers and
`/answer` comments. `Load` to `Retire` are the calls of Wake in order, `Save` to
`Post` those of Suspend.

**Outcomes.** An error is the set of what errors.As and status codes tell of its
chain, and a wait; `Reconciled` is what each framework makes of it, `Response` and
`Returns` the wire, `Disposes` the dispatcher's decision.

**PullRequest and the reconcilers.** `pr` is the pull request on GitHub, `branch` its
branch, `s` the session's snapshot (`NewSession`), `todo` the calls a run has still to
make: a decision such as `Upsert` or `DecidePath` puts a plan into `todo`, and every
call is a step of its own, before which the run may die. `spent`, `cut`, `barren`,
`fates` and `lost` are histories. A path's options vary; issues have plain ones. On
Linear `stored` is the attachment, absent between the delete and the upload of a
save, and `view` the run's copy of it.

**Executors.** `slot` has the state of each tool call of the turn; `StartCall` and
`EndCall` interleave up to ToolCallConcurrency; `Submit`, `Ask` and the held-out calls
follow `dispatch.go` and `heldout.go`. `Suspend` and `Resume` keep in `env` what an
envelope keeps of the run; what it does not keep is lost.

**FileTools** has every system call of a tool as a step: paths name files, a call
holds the file it opened. **Tracing** has spans, tool calls, events and their delivery.
**Conformance** and the tests in **Stores** are the repository's own suites, as scripts
against the models: they tie the models to what the tests ask of the code.
The other modules follow their sources function by function and by name.

## 3. What each run checks

| Run | Question | Properties |
|---|---|---|
| `gcs_safety` | Can the requests of two workers, an observer and a caller, with one crash or failed request, lose an event, run two callbacks under live leases, or remove a live lease? | `IInv`, `NoLostWork`, `ExclusiveLease`, `LiveLeaseKept`, `ImplementsContract` |
| `gcs_live` | Is every accepted event handled in the end, after a crash, a failure, a delayed requeue? | `EventuallyHandled` |
| `gcs_cutoff` | Does a key that keeps failing reach the dead-letter store? | `CutoffKeepsFiring`, refuted |
| `dispatch_overlap` | Do overlapping passes over two keys, with children that fail to be queued, keep one owner per key, lose nothing and finish? | `IInv`, `ChildrenNotForgotten`, `KeepsContract`, `EventuallyHandled` |
| `dispatch_paced` | With a trigger slower than its tasks' starts, does the limit hold and do the best keys go first? | `ConcurrencyCap`, `BestReady` |
| `dedup_text` | Is the highest priority kept after a requeue wrote it unpadded? | `HighestPriority`, refuted |
| `suspend` | Can two reconciles, late answers, a redeploy or a crash end a pause twice? Does one reconcile at a time ask and answer rightly, and end every pause? | `IInv`, `EndedOnce`, `AskedRightlyAlone`, `WaitBoundedAlone` |
| `suspend_leftover` | Is the answer the pause's own after two faults? | `AnswerMatchesPause`, refuted |
| `service` | The thirteen parts around the queue, each with its own concurrency and faults | `TypeOK` and the nine below |
| `outcome_dropped` | With delays that are no whole seconds, is any key completed with its work undone? | `NothingDropped`, refuted |
| `reconcilers` | Do reconciles of a path, an issue or a Linear issue tell the truth, keep budgets, respect ends and come to rest, though runs die between any two calls? | `IInv`, `TellsTheTruth`, `RunsBounded`, `EndsStay`, `Converges`, `PushesCease` |
| `agents` | An executor's run, tools, pages, traces, a path's issues, a review | `AgentServiceTypeOK` and the seven below |

The properties of `service`, each stated for whichever part a behaviour is of:

* `DrainSafe`: calls are answered before the kill, a success is kept, a shutdown costs
  no attempt. `EnqueuesAgree`: both stores hold the merge of all enqueues in any
  order. `LeaseHonoured`: a heartbeat believes in less than a second more of its lease than
  others see (`BeliefBacked`), work outlives what they see by less than a retry and a
  second (`OverrunBounded`) and is given up only after failing for a refresh interval, short
  of a second (`GivesUpRightly`).
* `NoKeyMissed` = `ShardsTile` /\ `OnlyShortDelaysDrop` /\ `OutagesKillNothing` /\
  `BranchSound`: each key of a period is enqueued once and in time; nothing but a delay below
  a second completes work left (such delays among those checked; `outcome_dropped` shows
  that they do), no outage kills a key, a branch is given up after its attempts.
* `TestsHold` = `Conforms` /\ `StoresConform`: queue and stores answer as the
  repository's own tests ask.
* `SharedKept` = `ClonesKept` /\ `CredentialsSound` /\ `LinearClientSound` /\
  `StatusesSound` /\ `StoresSound`, and `PushedOnlyOwn`: section 1, "what reconciles share".
* `HostsSpared` = `ProbesApart` /\ `HostSpared`: probes keep apart, and no event brings a
  key back before the floor that the circuit asked for.
* `EveryCallerServed`: a recovered host's callers get through; a dropped token, an
  installation's lock, a branch's key and an overstaying worker do not stay pending.

The properties of `agents`: `RequestsPaired`, `NeverToldAndGoesOn`, `AcceptedAsLeft` and
`PausesSound` of the executors; `PartsSound` (cache markers, a head's verdict, no temporary
file left, no check run twice, pages that tile, truthful and sealed events); `StepsSound`
(people's changes of issues respected, closes only of what is not reported, logs cached
for good once no fetch is under way, parallel tools as in some order); `EverythingComesRight`.

`AskedRightlyAlone`, of `suspend`, says itself what it needs: one reconcile at a time, no
late answer, and at most one failed call. With two failed calls the code breaks it
(`suspend_leftover`).

### Bounds and why they are enough

Every bound is a CONSTANT that a guard names.

* **Bucket.** Two workers, one observer and one caller give every pair of roles an
  interleaving. Two events tell what a callback covers from what came after. The
  lease is one tick and the clock reaches 4: a lease lapses, the key is returned, a
  second worker leases it and that lease lapses too. One fault is any one crash,
  failed or unacknowledged request, anywhere. `gcs_live`'s clock of 14 exceeds the
  longest history with one fault, one failure and one revisit.
* **Dispatcher.** Two passes list, skip and start the same two keys; a family may hold the
  parent; one failed enqueue falls on any member. `dispatch_paced` has three keys
  and a limit of two, so that the list is cut while listed keys are in progress.
* **Suspend.** Three pauses, so that an answer may belong to an earlier one; a
  deadline of one tick; one redeploy, one fault, one late answer. Overlapping reconciles
  are checked over two pauses and three ticks. `suspend_leftover` has two faults: one
  is survived, two are not.
* **Service.** Breaker: threshold 2 of at most 4 failures, three callers (two went out
  before the circuit opened while the third probes), delays that reach the cap of 2, one
  unreported outcome. Drain: two calls, backstop 2 in a grace of 3. Dedup: two
  priorities of one and two digits, three times, floored or not, every set in every
  order. Lease: a retry shorter than the refresh, nearly as long, longer, in half seconds, so
  that an expiry may have a part that is cut off. Sharder: two keys, two ticks in a period.
  Pool: two reconcilers, two directories, one fetch before a clone is worn out. Outcomes:
  four frameworks, five upsets, two retries, delays of one to four half seconds and the
  longer ones that jitter makes of them. Credentials: two
  requests, two repositories, lifetimes of nothing, below and above the cap. Linear: two managers, two
  saves, one comment, one fault; three items in pages of one, four changes beside. Conformance: a
  delay of 10 ticks and sleeps that may be a tick late. Statuses: two writers, types and
  findings, two writes, one fault, two attempts. Branch: two attempts, two events of others, one
  fault. Stores: two clients, two writes, pages of one, two faults, five names for the tests.
* **Reconcilers.** Two versions of what is wanted, two commits, two runs without a diff, two
  events by people and one fault: a fault between any two calls of any run, with a
  person's act on each side of it. A path has none of its options or
  all of them. 855 963 states.
* **Agents.** Turns of one or two calls, three turns, budgets of 1 and 4, one retry;
  two findings and an issues cap of one, two passes; two heads, two reviews, one
  fault; two paths, buffers of two bytes with texts up to five and patterns up to
  three, so that a match may span a boundary; two traced calls, one pause, one event in
  flight, payloads of four bytes.

Where a run says CHECK_DEADLOCK FALSE the system may stop: every budget is spent,
nothing waits, or the process is gone.

### Fairness

* `GCSQueue`, `Dispatcher`: time, each worker and observer, respectively some pass and each
  task. The trigger is periodic, requests return, and a callback is an RPC that ends.
  Callers, faults and refreshes are not fair.
* `SuspendWake` (`FairSuspend`, for the behaviours of one reconcile): time and the
  reconcile: Suspend and an unanswered Wake return a requeue after WakeInterval. People
  and deploys are not fair, so a pause is bounded also if nobody answers.
* `Service`: time; the host's recovery, the heartbeat, the holder of a lock and a
  branch's runs; each caller of the breaker. Transports have timeouts, callers come back
  after the delay they are told. Faults are bounded and not fair.
* `Reconcilers`: the queue brings a key again and a run goes on with its calls
  (`RunGoesOn`), GitHub finishes checks (`ChecksFinish`) and computes mergeability
  (`MergeabilityKnown`). People are not fair.
* `AgentService`: answers arrive, handlers return, a parked run is woken, passes go on.

Bounded failures and faults are part of each liveness claim: a callback that
fails for ever is dead-lettered (or is not: `gcs_cutoff`).

## 4. What is proved

All theorems hold for any values of the constants within the modules' ASSUMEs:
any number of processes, keys, calls and runs, any lease, any bound.

| Theorem | Extra assumption |
|---|---|
| `GCSQueue_proofs!TypeCorrect`, `LeaseExcludes`, `LiveLeaseIsKept` | |
| `GCSQueue_proofs!WorkIsNeverLost`, `InvariantHolds`, `QueueImplementsContract` | `WindowAssumption`: a Start deletes the queued object within the lease it stamped |
| `Dispatcher_proofs!TypeCorrect`, `EveryKeyHasOneOwner`, `WorkIsNeverLost`, `ChildrenAreNotForgotten`, `EveryKeyKeepsTheContract`, `InvariantHolds` | |
| `Dispatcher_proofs!PacedPassesKeepTheCap` | tasks start before time passes, passes at least a tick apart |
| `Dispatcher_proofs!BestKeysAreLaunched` | `Concurrency <= Limit` |
| `SuspendWake_proofs!TypeCorrect`, `PauseEndsOnce`, `InvariantHolds` | |
| `SuspendWake_proofs!AloneAskedRightly` | of `MCSuspendWake!SuspendSpec`: its property is about a reconcile that is alone |
| `Service_proofs!OrderIsIrrelevant`, `CallsAnsweredInTime`, `ResponsesKept`, `DrainCostsNothing`, `CallsDrainSafely`, `BeliefIsBacked`, `OverrunIsBounded`, `OutagesSurvived`, `WorkHonoursItsLease`, `HostsAreSpared`, `OutagesKillNoKey`, `OnlyShortDelaysAreLost`, `NoKeyIsMissed`, `ClonesAreKept`, `PushesAreOwn`, `SharedIsKept`, `TypesAreKept` | |
| `Service_proofs!TextAgrees`, `QueuesMergeAlike` | `Revisited = {}`: no priority was written unpadded (section 6, `dedup_text`) |
| `AgentService_proofs!NeverToldAndAsked`, `AcceptedStays`, `PausesBuyNoTurns`, `ResumesWithinBudget`, `ParkedWakes`, `PausesAreSound`, `RunsAreTyped` | |
| `AgentService_proofs!RequestsArePaired` | `OneAsk`: no turn asks twice (section 7) |
| `AgentService_proofs!ToolsRunOnce`, `LogsNeverChange`, `HeadsShowTheirOwn`, `EditsCleanUp`, `TracesTell`, `PagesGiveAll`, `IssuesAreTyped`, `PersonsAreRespected`, `OnlyUnreportedClosed`, `PartsAreSound`, `PartsAreTyped` | of `AgentServiceSpec`, whichever part a behaviour is of |
| `Reconcilers_proofs!TypeCorrect`, `InvariantHolds`, `ReadersAreToldTheTruth`, `RunsAreBounded`, `EndsAreRespected` | |

**The bucket.** `NoLostWork` is not inductive: whether a delete loses an event
depends on what the deleting process knows. `IInv` is `Shape /\ Leases /\ Coverage`.
`Shape`: types, and which process may be where with which data. `Leases`:
generations are handed out once (`GenerationsFresh`); no lease reaches beyond now
plus `Lease` (`LeasesBounded`); what an observer saw had lapsed and, while the
metageneration is the one it saw, so has the object (`ObservedLapsed`); a worker
whose known lease is live still has its object (`HoldersPinned`); a Start unlinks
while its own lease is live (`StartInWindow`). `Coverage`: an event later than a
callback's start is queued as long as the callback's object is there
(`LaterEventsQueued`); a worker that completes has covered what its callback saw
(`CompletionCovered`); whoever is about to delete the in-progress object leaves
the key queued if an event is not yet handled (`ReadyToDelete`). The same invariant
shows that every request is a step of `AtLeastOnce` or a stutter, with `kept` as
"queued or in progress".

**The dispatcher.** `Ownership`: owning tasks and keys in progress correspond one
to one. `Coverage`: what came after a callback began is queued. `Debts`: an owed child
is in its parent's hands or the parent is queued. `Paced` is the invariant of the
concurrency limit: tasks not yet started belong to the last pass, and they and the
keys in progress fit under the limit. `BestKeysAreLaunched` is an action property:
taking the best of a list cut at `Limit`, after skipping at most `Cardinality(wip)`
keys, is taking the best of all.

**Suspend.** Generations are not reused (`FreshGenerations`), so of two reconciles that
loaded one envelope the second's compare-and-swap delete fails; `OneClaimer` keeps
the claim with one reconcile until it resumes.

For a reconcile that is alone (`AloneIInv`): at most one question is marked and each
answer after it is about it (`Conversation`); which question that is follows from
where the reconcile is, claiming or sweeping (`ParkedKept`, `EndedKept`) or asking
(`AskingKept`), as long as at most one call has failed. A failed Consume leaves a mark
that the next Ask supersedes; a second failure, before that Ask, lets the run after it
take the old answer, which is where the proof needs the bound.

**Dedup.** `EntrySummarises` describes the entry from the set alone and is inductive:
the greatest priority; the floor if any enqueue had one; the latest not-before among
floored ones, else the earliest.

**The drain** (`DrainIInv`). `ClocksAgree`: a running backstop has as
much behind it as the grace period, which is longer. `AnswersExplained`: each answer has a handler's outcome, a cancellation or an
expired backstop behind it. With `AnsweredInTime` and `ShutdownIsFree` they are inductive.

**The heartbeat** (`LeaseIInv`). `ClocksBound`: how an attempt's, a pause's and the
lease's clocks bound each other, which `OverrunBounded` needs when time passes. What the
stored expiry loses of a second (`StampLosesLittle`) is in each of these bounds.

**The breaker** (`BreakerIInv`). While a circuit is open, the time since its last probe and
the time it has still to cool down come to at least a `Window` (`CooledSinceProbe`); that
no delay is shorter than a `Window` needs the doubling to be monotone (`DoubledGrows`).

**Outcomes** (`OutcomesIInv`). `FloorHeld`: while a host asks to be spared its key is queued
under a floor at least as late. `AttemptsEarned`: an entry's attempts are at most the
lasting failures in a row, so that an outage cannot make the last one.
`OnlyShortDelaysAreLost` holds for any length of a second and needs no assumption on delays:
a wait of a second or more is not zero on the wire, and a requeue keeps the key.

**The resync** (`SharderIInv`). A job starts in its tick, enqueues keys of its shard, each
once, and is done when none remains. That shards tile a period is arithmetic, and the
prover has no theory of division: `DivSplits`, `PeriodFacts` and `JobFacts` derive what
truncation to a tick and to a period means from the definition of `\div`.

**The branch** (`BranchIInv`). `AttemptLeft`: our commits are at most the attempts, and a
run that leased the branch had one left. `HeadKnown`: a run judges the head it read.

**The clones** (`PoolIInv`). `Dedicated`: each directory is in the pool once or held
once; `ContentsFit`: what a clone holds fits the call its holder is about to make, so
that it is reset whenever it is nobody's.

**What else reconciles share** (`Shared_proofs`). Credentials: one caller holds an
installation's lock (`LockHeld`), one source is made of it (`SourcesCounted`). Linear: each
attachment was uploaded by its own manager but for those whose delete failed (`Covered`),
which bounds the states; a listing has reached, or has still ahead of its cursor, every
item that was open all along (`SteadyReached`). Statuses: a writer knows what it read and
wrote, and that nobody wrote beside it (`SessionHolds`, `AloneHolds`). Stores: generations
are numbered once (`Numbered`), a client's token names a generation that was given
(`TokensKnown`), one listing walks at a time (`OneWalk`).

**Executors.** `SlotsKept`: from the first acceptance no other pooled call runs.
`EndsKept`: what the end of a run says of it. `BudgetsKept`: turns begun and turns left come
to no more than the largest budget, also while the envelope is all that is left of
a run. `PairedKept`: the one call without a result is the
one that a parked run waits for.

**What agents use** (`AgentService_proofs`; each invariant for any number of callers,
passes, texts and sources).

* Finding tools (`ToolsIInv`): what a guard let pass is recorded and nobody else is at it
  (`GuardsHold`); a check that ran again is not about to (`RerunsCounted`); each request was
  answered once at most, and none that is still asked (`AnswersOnce`); until the first copy
  of a log is cached, as many were fetched as callers hold one (`FetchesCounted`).
* Reviews (`ReviewIInv`): the present head shows what it may and no later one shows anything
  (`HeadsKept`); what a pass is about to report of the present head is right, since no head
  comes back (`ReviewKept`).
* File tools (`FilesIInv`): a temporary file belongs to an edit that is underway
  (`TemporaryKept`), whatever the other call does with the paths. On that rest the types
  (`FilesTyped`): how far a call may be with what it has taken and with its temporary file,
  and that every file holds a text. Where a pattern occurs, where an edit looks buffer by
  buffer, and what it writes are recursive functions; `RecursionIsDefined` shows that they
  exist, by a rank that falls, and `RecursionIsTyped` that what they give is a text.
* Traces (`TracingIInv`): `TracesKept` says what each trace and the live one have of the run so
  far, `IndexKept` that turns are numbered through, `RecordsKept` and `CallsKept` that a call is
  recorded when its handler has recorded it, and once; `EventsKept` what an event tells, and
  `SendsKept` that a trace that was recorded is told of or known to be lost; `PayloadKept`
  follows the shrinking of a payload.
* Pages (`PagesIInv`): what was read is the beginning of what is to be given, the offset
  is where it ends, and by the last page's word nothing is left exactly if nothing is.
* Issues (`IssuesIInv`): each number is borne once (`NumbersOnce`), and a call that a pass has
  still to make means the issue it was planned for, with the labels that it had then
  unless a person or another pass touched it since (`PassKept`). The last is what makes late
  calls harmless: with a call that names a number only, nothing would tie it to the issue.

Proving `OnlyUnreportedClosed` found the exemption that the property now names: a pass
that opens its session anew, with more room, plans on a second listing, and closes an
issue that was reopened, or filed by an overlapping pass, between the two although its
finding is reported. `AskedRightlyAlone` names its own bound on failed calls since its proof.

**The pull requests** (`Reconcilers!IInv`, for all three kinds of reconciler at once).
A run is a plan of calls, so that what holds between two calls depends on the next:
`PlansKept` says which call may follow which; `DecisionsKept` ties what the run has
decided to what it read; `LabelsKept` what it does to the label and its comment;
`BodyKept` where the branch's change is, in the body or on its way there; `CommitsKept`
and `AllowanceKept` relate the iterations made (`spent`) to the commits of the branch
and the baselines of body and session; `StatesKept`, `BarrenKept`, `FatesKept` and
`ReopeningsKept` relate the saved state of a Linear issue, through a save that is under
way, to the runs that changed nothing and to the ends of its pull requests.
`TellsTheTruth` and `RunsBounded` follow from it in a state and `EndsStay` in a step.
Proving it found the forgotten end of section 7: without `lost` for it, `FatesKept`
does not survive the close of an empty change.

**Recursion and least elements.** No theorem rests on induction over data. Where a proof
needs it over numbers, it takes the least counterexample, which the well-foundedness of
the natural numbers gives (`SmallestExists`); the doubling delays of the breaker and of the dispatcher, and the
searches of the file tools, are recursive functions that are shown to exist this way
(`DoublingsExist`, `RecursionIsDefined`).

**Assumptions on constants.** The ASSUMEs ask no more than that bounds are numbers,
that sets of processes are finite and that a marker for "nothing" is not one of the
things (`None`, `NoID`). `period % tick = 0`, `baseDelay <= maxDelay` and
`DrainBackstop < Grace` are what the code checks, sets or documents. A refresh interval is
a second or longer (`LeaseAssumption`): the default is five minutes, and only tests set less. A temporary file
has a name that no path has. Issue numbers, rule keys and severities stand for themselves
as numbers, `Numbers` within `1 .. Cardinality(Numbers)`: a number is given again only
when no pass has a call on it (`Referred`), as GitHub never does.

**What stays with TLC.** Liveness under fairness (every property of the kind "in the
end") is out of the prover's reach. `TestsHold` needs no proof: its scripts have no parameter,
so that TLC's run is exhaustive. Of `StepsSound` every conjunct but `TurnAsInOrder` is proved, which compares two interleaved
calls with their two orders, call by call and text by text.

## 5. What is not modelled

| Part | Reason |
|---|---|
| several keys on the bucket; Enumerate's order and limit there | operations touch one key's objects only; the in-memory queue has order and limit |
| metrics, logging, CloudEvents of the dispatcher, state-machine events | output only |
| sealing and encoding of envelopes, digests, signatures | conversions no property is about; `Tracing` has what must be sealed |
| hyperqueue | a stateless hash of the key |
| generated RPC code | stateless; the wire's effect is in `Outcomes` |
| construction of requests and prompts, schemas, judges, evaluations, metrics, Gemini's context cache beyond its start | data transformation without order |
| webhooks, URL parsing, the GraphQL client, gitsign, options | I/O or pure parsing |
| file tools: symbolic links, directories that are made on the way, path checks | no property is about them |
| Linear: mirroring the workflow state, the label gate and a state that cannot be loaded (issue.go:70-98) | no property is about them, or a later run makes up for it |
| issues of a path: labels that the label function gives and that are not declared managed (mergeLabels keeps stale ones), a path label that a person removes, the comment before a close | no property is about them |
| a review thread that stays unresolved across a push | in `PullRequest` it counts as a new `Review`, which the bound on events covers |
| overlapping edits of one file | what they do is no order's (`Disturbs`; section 7); `TurnAsInOrder` is about the other pairs |
| OCI: concurrency of signing; Linear: documents and milestones, truncated attachment pages | see the components' notes |
| examples | samples |

Bodies, names and payloads are abstracted to what the properties tell apart: a
version, a finding, a writer's number.

## 6. Disagreements between code and documentation that a run shows

* **`gcs_cutoff`.** interface.go:70 promises that the backoff requeue "does NOT
  reset the attempt count". When the key was enqueued during the attempt, the
  requeue merges into a queued twin, and `updateMetadata` does not merge attempts
  (gcs.go:732, 166). A key enqueued during each failing attempt is never
  dead-lettered.
* **`dedup_text`.** gcs.go:133 pads priorities "to ensure lexicographic ordering"
  and gcs.go:177 means to "always choose the highest priority". A requeue with an
  explicit priority writes it unpadded (gcs.go:719): "5" compares greater than
  "00000100".
* **`suspend_leftover`.** coordinator.go:246 calls a question whose Consume failed
  harmless, and types.go:17 says a stale answer "can never be mistaken for the
  current one". Suspend parks the new envelope before it replaces the question
  (coordinator.go:141, 155) and the envelope does not name its question. If the
  process dies in between, the next Wake resumes the new run with the old answer.
* **`outcome_dropped`.** A requeue delay is truncated to whole seconds on the wire: one
  below a second, or one that has nearly elapsed, becomes zero, which the dispatcher's
  side reads as success. A key refused by an open circuit is completed undone.

## 7. Further disagreements, without a run of their own

TLC refutes each of these properties, which the modules state, on the named
instance. Constants not named are those of the run in the second column.

| Property | Run to start from | Instance | What the code does |
|---|---|---|---|
| `GCSQueue!NeverForgotten` | `gcs_safety` | StartWindow 3, MaxClock 5, MaxFaults 0, MaxFailures 2 | the delete at the end of a Start carries no precondition (gcs.go:1176): delayed beyond its own lease it removes what was queued since, while gcs.go:754 says dropping a key is not acceptable. This is what `WindowAssumption` excludes |
| `GCSQueue!FloorHonoured` | `gcs_safety` | RevisitPlans FlooredRevisit, MaxClock 5, MaxFaults 0, MaxFailures 0, MaxRevisits 1 | Start copies whatever is queued now and stamps what was listed (gcs.go:1133-1137): a floored requeue in between starts early, against interface.go:81 |
| `GCSQueue!PriorityNeverLowered` | `gcs_safety` | Enqueuers {e1, e2}, Workers {w1}, EnqueueOptions ThreePriorities, MaxClock 3, MaxEvents 3, MaxFaults 0, MaxFailures 0 | reading the metadata and writing the merged one are two requests and the update has no precondition (gcs.go:215): of two enqueues that both read first, the later write undoes the earlier one's priority, against gcs.go:177 |
| `Dispatcher!ConcurrencyCap` | `dispatch_overlap` | Spec, Concurrency 1, no revisits or families, MaxClock 3 | slots are counted from a list (dispatcher.go:104), so unpaced passes exceed the limit that conformance/concurrency.go:33 tests for. This is what the assumptions of `PacedPassesKeepTheCap` exclude |
| `Dispatcher!BackoffCapped` | `dispatch_overlap` | Spec, BackoffPeriod 4, MaximumBackoffPeriod 4, HookDelays {}, no revisits or families, MaxClock 6 | jitter is added after the cap (dispatcher.go:248), against interface.go:27 |
| `SuspendWake!AnswerMatchesPause` | `suspend_leftover` | LateAnswers TRUE, MaxLate 1, MaxFaults 0, MaxDeploys 0 | an `/answer` meant for a replaced question is taken for the new one's (githubquestions.go:210), against types.go:69-71 |
| `Breaker!OnlyProbeCloses` | `service` | as it is | a success of a request that went out before the circuit opened closes it (breaker.go:111), against transport.go:44 |
| `Drain!OwnFailureKept` | `service` | as it is | the cause is read when the result arrives (drain.go:132): a failure that came first may be answered as a requeue, against drain.go:129-131 |
| `Lease!NeverBelievesMore` | `service` | as it is | the expiry is stored in whole seconds (gcs.go:1026) and believed in full (1038): after a refresh the heartbeat believes in up to a second more than others observe, against gcs.go:954-957 |
| `PullRequest!AlwaysExplained` | `reconcilers` | as it is | a 403 on the marker comment is swallowed (session.go:628-638) and the gave-up label is put all the same (giveup.go:86), against giveup.go:76-77 "a labeled PR always has a matching give-up comment" |
| `FileTools!SafeWithinTurn` | `agents` | as it is | an edit plans on one reading of the file and writes what a second one gives it (worktree.go:268-277): of two edits of one file one may be lost, and other pairs (`Disturbs`) mix or miss changes, against worktree.go:28 "safe for concurrent use within a single agent turn" |
| `Lease!NoOverrun` | `service` | as it is | the last attempt that the check admits may end after the lease (gcs.go:1054), against gcs.go:1004 "cannot pin a single attempt past the lease expiry" |

Met while modelling, and excluded or left as they are in the models:

* **Bucket.** Complete deletes the dead-letter object without a precondition before it knows
  whether it still owns the key (gcs.go:846), so a newer attempt's dead-letter may go.
* **Results on the wire.** Keys to queue that an OCI or APK reconciler returns become an
  ordinary failure; a GitHub URL that does not parse is retried where OCI and APK call it
  non-retriable; a NonRetriable that wraps ResourceExhausted is requeued (against
  error.go's "will not requeue the key").
* **Change sessions.** The skip label is read at a session's start and before Edit only
  (session.go:804). manager.go:520's clamp makes commits free after a rebase and a
  crash. "Serialized per resource" (session.go:516) does not hold after a lapsed lease.
  A run that dies between its push and Edit, followed by green checks, leaves an older
  body on a ready pull request; one that dies between an empty push and the close
  leaves an empty pull request open (session.go:741-743).
* **Linear pull requests.** If a person ends the pull request between a run's push of
  an empty change and CloseAnyOutstanding (session.go:785-790), the run saves an active
  state without a URL and the next run opens another: `lost` marks it, and `EndsStay`
  and its theorem exclude it. An attachment is deleted before the new one is uploaded, so a
  crash loses the counters (`RunsBounded` counts faults). issue.go:546-550 resets
  the counter on an Upsert that changed nothing. A rebase without a diff marks an issue
  Failed/NoDiff although its pull request is open (against 475-491).
  A pull request that is gone (404) or whose URL does not parse is followed by a new one
  (issue.go:184-208), also when a person had merged or closed it: the model's pull
  requests can be looked up.
* **Paths.** WithBaseRevalidation may refresh a red pull request each round (`PushesCease`
  excludes it). issue.go lacks path.go's convergence of static labels.
* **Linear client.** attachmentCreate's success=false is ignored (client.go:874-894). A token
  rejected with 401 stays cached until its local expiry. UnprocessedComments
  (state.go:58-80) hands out processed comments again. A comment made between a run's read
  and the bot's first comment is never returned (issue.go:170).
* **GitHub App.** A coalesced installation lookup runs on the leader's context
  (app_tokensource.go:82): its cancellation fails the others.
* **Statuses.** SkipSame may skip a write for an older or another identity's bundle with the same
  payload (`alone` excludes it). A crash between the deletes and the write leaves no status.
* **Stores.** A torn append makes jsonlstore.New fail for ever ("corrupt record"). A save
  whose sync failed may take effect at the next replay, and its generation is given
  again. In blob, GenerationMatch 0 asks for nothing: creating needs DoesNotExist.
* **Branch reconciler.** A failure of the criteria or of onSuccess after the last allowed push
  ends in "max attempts exceeded" although the criteria may hold.
* **Executors.** Two questions in one turn keep the last only (executor.go:767-803; `OneAsk`).
  Gemini's `emptyTurns` is never reset though executor.go:46 and :487 say "consecutive".
  In OpenAI's loop a validator error ends the run even after an accepted submission.
* **Tools.** planReplacements yields overlapping offsets for a pattern that overlaps itself at
  a buffer boundary (the model's patterns do not). read_file with a limit below a character makes no progress. Guards
  and caches of the finding tools are lost on Resume, and record a call before it succeeds.
* **Traces.** Prompt, parameters and results are in the clear when no encryptor is set,
  whatever WithPayloadsEnabled says (against cloudevent_tracer.go:45-46). With Gemini's
  empty call IDs a reason may be attached to the wrong parallel call.

## 8. Plan

Left to prove: `TurnAsInOrder`. Left to model: more of the executors' construction of
requests, and several keys on the bucket.

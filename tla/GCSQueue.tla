------------------------------ MODULE GCSQueue ------------------------------
(***************************************************************************)
(* The life of one key in the lease-based workqueue kept in a bucket       *)
(* (src/workqueue/gcs/gcs.go), driven by the dispatcher's per-key control  *)
(* flow (src/workqueue/dispatcher/dispatcher.go).                          *)
(*                                                                         *)
(* A key is up to three objects: queued/<key>, in-progress/<key> and       *)
(* dead-letter/<key>.  No operation touches the objects of another key, so *)
(* one key carries every interleaving.  Each action is one request to the  *)
(* bucket together with the local work up to the next one; the bucket      *)
(* applies a request atomically, and anything may happen in between.       *)
(*                                                                         *)
(*   Enqueuers  callers of Queue                                           *)
(*   Workers    goroutines of dispatch passes that start the key, invoke   *)
(*              the callback and clean up; a live one heartbeats its lease *)
(*   Observers  goroutines of dispatch passes that return an orphaned key  *)
(*                                                                         *)
(* A process that crashes, or gives up because a request failed, stops     *)
(* where it is and leaves the objects as they are (Abandon).               *)
(***************************************************************************)
EXTENDS Scheduling

CONSTANTS
  Enqueuers, Workers, Observers,
  None,           \* the absent object
  Lease,          \* ticks a lease lasts: 3 * RefreshInterval
  StartWindow,    \* most ticks from Start's copy to its delete of the source
  MaxRetry,       \* the dispatcher's attempt limit; 0 means no limit
  BackoffDelays,  \* delays before a retry: the default curve or a WithBackoff hook
  EnqueueOptions, \* the options callers pass to Queue
  RevisitPlans,   \* the requeues a callback may ask for
  RevisitDelays,  \* DelaySeconds of a key the callback queues for itself
  MaxClock,       \* bounds of the model: time,
  MaxEvents,      \*   accepted enqueues,
  MaxFaults,      \*   crashes, failed and unacknowledged requests,
  MaxRevisits,    \*   requeues the callback asks for,
  MaxFailures,    \*   failed callbacks,
  MaxRefreshes    \*   refreshes of one lease

Procs == Enqueuers \cup Workers \cup Observers

\* The metadata and lease of an in-progress object: its generation, its
\* metageneration (changed by every update) and its lease expiration.
LeaseRecord == [gen : Nat \ {0}, mgen : Nat, exp : Nat, meta : StartedMeta]

ASSUME QueueAssumption ==
  /\ Enqueuers \cap Workers = {} /\ Enqueuers \cap Observers = {}
  /\ Workers \cap Observers = {}
  /\ Lease \in Nat /\ StartWindow \in Nat /\ MaxRetry \in Nat
  /\ BackoffDelays \subseteq Nat \ {0}
  /\ EnqueueOptions \subseteq Options
  /\ RevisitPlans \subseteq Plans
  /\ RevisitDelays \subseteq Nat
  /\ {MaxClock, MaxEvents, MaxFaults, MaxRevisits, MaxFailures, MaxRefreshes}
       \subseteq Nat

ASSUME NoneAssumption == None \notin Meta /\ None \notin LeaseRecord

VARIABLES
  queued,    \* metadata of queued/<key>, or None
  wip,       \* in-progress/<key>, or None
  dead,      \* whether dead-letter/<key> exists
  nextGen,   \* generation the bucket gives to the next in-progress object
  clock,     \* time.Now()
  pc,        \* where each process is
  listed,    \* worker: metadata of the queued object as Enumerate listed it
  own,       \* worker: lease it holds; observer: the one it saw orphaned
  plan,      \* how the key is being returned to the queue
  incoming,  \* metadata being merged into the queued object
  twin,      \* metadata of the queued object as updateMetadata read it
  beating,   \* the workers that may still send, or have land, a refresh
  accepted,  \* history: enqueues that returned success
  seen,      \* history: value of accepted when the worker's callback started
  handled,   \* history: enqueues covered by a callback that ended the work
  failures,  \* history: failed callbacks since the last one that did not fail
  faults,    \* crashes and failed requests so far
  revisits   \* requeues asked for so far

objects == <<queued, wip, dead, nextGen>>
locals  == <<pc, listed, own, plan, incoming, twin, beating>>
history == <<accepted, seen, handled, failures>>
budgets == <<faults, revisits>>
vars    == <<objects, clock, locals, history, budgets>>

Labels == {"idle",
           "write", "read", "patch",                   \* Queue
           "start", "unlink", "run",                   \* Start and the callback
           "clear", "bury",                            \* Complete, Deadletter
           "recheck", "copy", "twinRead", "twinPatch", \* RequeueWithOptions
           "delete"}                                   \* pinned delete, all three

TypeOK ==
  /\ queued \in Meta \cup {None}
  /\ wip \in LeaseRecord \cup {None}
  /\ dead \in BOOLEAN
  /\ nextGen \in Nat \ {0}
  /\ clock \in Nat
  /\ pc \in [Procs -> Labels]
  /\ listed \in [Procs -> Meta \cup {None}]
  /\ own \in [Procs -> LeaseRecord \cup {None}]
  /\ plan \in [Procs -> Plans]
  /\ incoming \in [Procs -> Meta \cup {None}]
  /\ twin \in [Procs -> Meta \cup {None}]
  /\ beating \subseteq Procs
  /\ accepted \in Nat /\ handled \in Nat /\ failures \in Nat
  /\ seen \in [Procs -> Nat]
  /\ faults \in Nat /\ revisits \in Nat

Init ==
  /\ queued = None /\ wip = None /\ dead = FALSE /\ nextGen = 1
  /\ clock = 1
  /\ pc = [p \in Procs |-> "idle"]
  /\ listed = [p \in Procs |-> None]
  /\ own = [p \in Procs |-> None]
  /\ plan = [p \in Procs |-> PlainPlan]
  /\ incoming = [p \in Procs |-> None]
  /\ twin = [p \in Procs |-> None]
  /\ beating = {}
  /\ accepted = 0 /\ handled = 0 /\ failures = 0
  /\ seen = [p \in Procs |-> 0]
  /\ faults = 0 /\ revisits = 0

-----------------------------------------------------------------------------
(* The bucket's preconditions and the processes' control.                  *)

\* Mutated form of Pinned: no generation, whichever object is there.
PinnedToName(p) == wip # None

\* The in-progress object still is the generation p leased or observed.
Pinned(p) == wip # None /\ wip.gen = own[p].gen

\* Mutated forms of DeletePinned: no condition at all; the generation only.
DeleteUnpinned(p) == wip # None
DeleteGenerationPinned(p) == Pinned(p)

\* The conditions of p's delete: an observer also pins the metageneration.
DeletePinned(p) ==
  /\ Pinned(p)
  /\ p \in Observers => wip.mgen = own[p].mgen

\* Mutated form of IsOrphaned: a lease lapses one tick early.
OrphanedAtExpiry(lease) == lease.exp <= clock

IsOrphaned(lease) == lease.exp < clock

Goto(p, label) == pc' = [pc EXCEPT ![p] = label]

\* p is done and keeps nothing.
Finish(p) ==
  /\ Goto(p, "idle")
  /\ listed' = [listed EXCEPT ![p] = None]
  /\ own' = [own EXCEPT ![p] = None]
  /\ plan' = [plan EXCEPT ![p] = PlainPlan]
  /\ incoming' = [incoming EXCEPT ![p] = None]
  /\ twin' = [twin EXCEPT ![p] = None]
  /\ beating' = beating \ {p}
  /\ seen' = [seen EXCEPT ![p] = 0]

\* Every event accepted before w's callback started is taken care of.
Discharge(w) == handled' = IF handled < seen[w] THEN seen[w] ELSE handled

-----------------------------------------------------------------------------
(* Queue and updateMetadata.                                               *)

\* A caller calls Queue with options o.
Enqueue(e, o) ==
  /\ pc[e] = "idle"
  /\ accepted < MaxEvents
  /\ incoming' = [incoming EXCEPT ![e] = Written(o)]
  /\ Goto(e, "write")
  /\ UNCHANGED <<objects, clock, listed, own, plan, twin, beating, history,
                 budgets>>

\* Queue returns nil to p: the event is accepted.  A caller is done; a worker
\* queueing its own key goes on to Complete it.
QueueReturns(p) ==
  /\ accepted' = accepted + 1
  /\ UNCHANGED <<failures, budgets>>
  /\ IF p \in Workers
       THEN /\ Goto(p, "clear")
            /\ Discharge(p)
            /\ incoming' = [incoming EXCEPT ![p] = None]
            /\ twin' = [twin EXCEPT ![p] = None]
            /\ UNCHANGED <<listed, own, plan, beating, seen>>
       ELSE Finish(p) /\ UNCHANGED handled

\* Queue's conditional create of the queued object.
QueueWrite(p) ==
  /\ pc[p] = "write"
  /\ UNCHANGED <<wip, dead, nextGen, clock>>
  /\ \/ /\ queued = None
        /\ queued' = incoming[p]
        /\ QueueReturns(p)
     \/ /\ queued # None
        /\ Goto(p, "read")
        /\ UNCHANGED <<queued, listed, own, plan, incoming, twin, beating,
                       history, budgets>>

\* updateMetadata reads the queued object for Queue.
QueueRead(p) ==
  /\ pc[p] = "read"
  /\ UNCHANGED <<objects, clock>>
  /\ \/ /\ queued = None                       \* deleted: Queue recurses
        /\ Goto(p, "write")
        /\ UNCHANGED <<listed, own, plan, incoming, twin, beating, history,
                       budgets>>
     \/ /\ queued # None
        /\ MergeMetadata(queued, incoming[p]) = queued
        /\ QueueReturns(p)
     \/ /\ queued # None
        /\ MergeMetadata(queued, incoming[p]) # queued
        /\ twin' = [twin EXCEPT ![p] = queued]
        /\ Goto(p, "patch")
        /\ UNCHANGED <<listed, own, plan, incoming, beating, history, budgets>>

\* updateMetadata writes the merged metadata, whatever is queued by then.
QueuePatch(p) ==
  /\ pc[p] = "patch"
  /\ UNCHANGED <<wip, dead, nextGen, clock>>
  /\ \/ /\ queued = None
        /\ Goto(p, "write")
        /\ twin' = [twin EXCEPT ![p] = None]
        /\ UNCHANGED <<queued, listed, own, plan, incoming, beating, history,
                       budgets>>
     \/ /\ queued # None
        /\ queued' = PatchMetadata(queued, MergeMetadata(twin[p], incoming[p]))
        /\ QueueReturns(p)

-----------------------------------------------------------------------------
(* Enumerate and Start.                                                    *)

\* A dispatch pass lists the key as eligible and not actively in progress.
Enumerate(w) ==
  /\ pc[w] = "idle"
  /\ queued # None /\ ~(clock < queued.nb)
  /\ wip # None => IsOrphaned(wip)
  /\ listed' = [listed EXCEPT ![w] = queued]
  /\ Goto(w, "start")
  /\ UNCHANGED <<objects, clock, own, plan, incoming, twin, beating, history,
                 budgets>>

\* Start's copy: the source is whatever is queued now, the metadata is what
\* was listed.  It fails when the key is in progress or no longer queued.
Start(w) ==
  /\ pc[w] = "start"
  /\ UNCHANGED <<queued, dead, clock, accepted, handled, failures, budgets>>
  /\ \/ /\ wip = None /\ queued # None
        /\ wip' = [gen |-> nextGen, mgen |-> 1, exp |-> clock + Lease,
                   meta |-> StartMetadata(listed[w])]
        /\ nextGen' = nextGen + 1
        /\ own' = [own EXCEPT ![w] = wip']
        /\ listed' = [listed EXCEPT ![w] = None]
        /\ Goto(w, "unlink")
        /\ UNCHANGED <<plan, incoming, twin, beating, seen>>
     \/ /\ wip # None \/ queued = None
        /\ Finish(w)
        /\ UNCHANGED <<wip, nextGen>>

\* Start's unpinned delete of the queued object, whose failure is tolerated;
\* then the heartbeat starts and the callback is invoked.
Unlink(w) ==
  /\ pc[w] = "unlink"
  /\ \/ queued' = None /\ UNCHANGED faults
     \/ faults < MaxFaults /\ faults' = faults + 1 /\ UNCHANGED queued
  /\ seen' = [seen EXCEPT ![w] = accepted]
  /\ beating' = beating \cup {w}
  /\ Goto(w, "run")
  /\ UNCHANGED <<wip, dead, nextGen, clock, listed, own, plan, incoming, twin,
                 accepted, handled, failures, revisits>>

-----------------------------------------------------------------------------
(* The heartbeat.                                                          *)

\* A refresh extends the lease of the generation w leased.  Its response may
\* be lost, and one sent before stopHeartbeat may land after it.
Refresh(w) ==
  /\ w \in beating /\ Pinned(w)
  /\ wip.mgen <= MaxRefreshes
  /\ wip' = [gen |-> wip.gen, mgen |-> wip.mgen + 1, exp |-> clock + Lease,
             meta |-> wip.meta]
  /\ \/ pc[w] = "run" /\ own' = [own EXCEPT ![w] = wip'] /\ UNCHANGED <<beating, faults>>
     \/ /\ faults < MaxFaults /\ faults' = faults + 1
        /\ beating' = IF pc[w] = "run" THEN beating ELSE beating \ {w}
        /\ UNCHANGED own
  /\ UNCHANGED <<queued, dead, nextGen, clock, pc, listed, plan, incoming,
                 twin, history, revisits>>

\* The heartbeat stops: the generation is gone, or transient errors lasted
\* until the lease it knows of is about to lapse.
HeartbeatStops(w) ==
  /\ w \in beating /\ pc[w] = "run"
  /\ ~Pinned(w) \/ clock + 1 >= own[w].exp
  /\ beating' = beating \ {w}
  /\ UNCHANGED <<objects, clock, pc, listed, own, plan, incoming, twin,
                 history, budgets>>

-----------------------------------------------------------------------------
(* The dispatcher's handling of the callback's result.                     *)

\* The callback succeeds, or fails for good below the attempt limit.
Succeed(w) ==
  /\ pc[w] = "run"
  /\ Discharge(w)
  /\ failures' = 0
  /\ Goto(w, "clear")
  /\ UNCHANGED <<objects, clock, listed, own, plan, incoming, twin, beating,
                 accepted, seen, budgets>>

\* The callback fails: dead-letter at the attempt limit, else back off.
Fail(w) ==
  /\ pc[w] = "run"
  /\ failures < MaxFailures
  /\ failures' = failures + 1
  /\ \/ /\ MaxRetry > 0 /\ own[w].meta.attempts >= MaxRetry
        /\ Goto(w, "bury")
        /\ UNCHANGED plan
     \/ /\ ~(MaxRetry > 0 /\ own[w].meta.attempts >= MaxRetry)
        /\ \E d \in BackoffDelays :
             plan' = [plan EXCEPT ![w] = BackoffPlan(d)]
        /\ Goto(w, "copy")
  /\ UNCHANGED <<objects, clock, listed, own, incoming, twin, beating,
                 accepted, seen, handled, budgets>>

\* The callback asks to see the key again after a delay.
AskRequeue(w) ==
  /\ pc[w] = "run"
  /\ revisits < MaxRevisits /\ revisits' = revisits + 1
  /\ \E asked \in RevisitPlans : plan' = [plan EXCEPT ![w] = asked]
  /\ failures' = 0
  /\ Goto(w, "copy")
  /\ UNCHANGED <<objects, clock, listed, own, incoming, twin, beating,
                 accepted, seen, handled, faults>>

\* The callback names its own key among the keys to queue: it is queued
\* before the current work is completed.
AskQueueKeys(w) ==
  /\ pc[w] = "run"
  /\ revisits < MaxRevisits /\ revisits' = revisits + 1
  /\ \E d \in RevisitDelays :
       incoming' = [incoming EXCEPT ![w] =
         Written([prio |-> own[w].meta.prio.value,
                  nb |-> IF d > 0 THEN clock + d ELSE 0, floor |-> FALSE])]
  /\ failures' = 0
  /\ Goto(w, "write")
  /\ UNCHANGED <<objects, clock, listed, own, plan, twin, beating,
                 accepted, seen, handled, faults>>

\* Queueing that key fails: the current one is returned to the queue instead.
QueueKeysFails(w) ==
  /\ pc[w] \in {"write", "read", "patch"}
  /\ faults < MaxFaults /\ faults' = faults + 1
  /\ incoming' = [incoming EXCEPT ![w] = None]
  /\ twin' = [twin EXCEPT ![w] = None]
  /\ plan' = [plan EXCEPT ![w] = PlainPlan]
  /\ Goto(w, "copy")
  /\ UNCHANGED <<objects, clock, listed, own, beating, history, revisits>>

-----------------------------------------------------------------------------
(* Complete and Deadletter.                                                *)

\* Complete's best-effort, unpinned delete of the dead-letter object.
ClearDeadLetter(w) ==
  /\ pc[w] = "clear"
  /\ \/ dead' = FALSE /\ UNCHANGED faults
     \/ faults < MaxFaults /\ faults' = faults + 1 /\ UNCHANGED dead
  /\ Goto(w, "delete")
  /\ UNCHANGED <<queued, wip, nextGen, clock, listed, own, plan, incoming,
                 twin, beating, history, revisits>>

\* Deadletter's copy, pinned to the generation w leased.
Bury(w) ==
  /\ pc[w] = "bury"
  /\ UNCHANGED <<queued, wip, nextGen, clock, accepted, budgets>>
  /\ \/ /\ Pinned(w)
        /\ dead' = TRUE
        /\ Discharge(w)
        /\ failures' = 0
        /\ Goto(w, "delete")
        /\ UNCHANGED <<listed, own, plan, incoming, twin, beating, seen>>
     \/ /\ ~Pinned(w)
        /\ Finish(w)
        /\ UNCHANGED <<dead, handled, failures>>

\* The last request of Complete, Deadletter and RequeueWithOptions: delete the
\* in-progress object if it is still the one p leased or observed.
DeleteLease(p) ==
  /\ pc[p] = "delete"
  /\ wip' = IF DeletePinned(p) THEN None ELSE wip
  /\ Finish(p)
  /\ UNCHANGED <<queued, dead, nextGen, clock, accepted, handled, failures,
                 budgets>>

-----------------------------------------------------------------------------
(* RequeueWithOptions.                                                     *)

\* A dispatch pass finds the key in progress with a lapsed lease.
Observe(o) ==
  /\ pc[o] = "idle"
  /\ wip # None /\ IsOrphaned(wip)
  /\ own' = [own EXCEPT ![o] = wip]
  /\ Goto(o, "recheck")
  /\ UNCHANGED <<objects, clock, listed, plan, incoming, twin, beating,
                 history, budgets>>

\* Mutated form of Recheck: the requeue is skipped unless the lease changed.
RecheckInverted(o) ==
  /\ pc[o] = "recheck"
  /\ UNCHANGED <<objects, clock, accepted, handled, failures, budgets>>
  /\ \/ /\ ~DeletePinned(o)
        /\ Goto(o, "copy")
        /\ UNCHANGED <<listed, own, plan, incoming, twin, beating, seen>>
     \/ DeletePinned(o) /\ Finish(o)

\* An observer re-reads the object and skips the requeue if it changed.
Recheck(o) ==
  /\ pc[o] = "recheck"
  /\ UNCHANGED <<objects, clock, accepted, handled, failures, budgets>>
  /\ \/ /\ DeletePinned(o)
        /\ Goto(o, "copy")
        /\ UNCHANGED <<listed, own, plan, incoming, twin, beating, seen>>
     \/ ~DeletePinned(o) /\ Finish(o)

\* requeueOnce's copy of the leased generation to the queued object, which
\* must not exist.  When the source is gone and the target exists the bucket
\* may report either.
CopyBack(p) ==
  /\ pc[p] = "copy"
  /\ UNCHANGED <<wip, dead, nextGen, clock, accepted, handled, failures, budgets>>
  /\ LET returned == RequeueMetadata(own[p].meta, plan[p], clock) IN
     \/ /\ Pinned(p) /\ queued = None
        /\ queued' = returned
        /\ Goto(p, "delete")
        /\ UNCHANGED <<listed, own, plan, incoming, twin, beating, seen>>
     \/ /\ queued # None
        /\ incoming' = [incoming EXCEPT ![p] = returned]
        /\ Goto(p, "twinRead")
        /\ UNCHANGED <<queued, listed, own, plan, twin, beating, seen>>
     \/ /\ ~Pinned(p)                         \* lost ownership: touch nothing
        /\ Finish(p)
        /\ UNCHANGED queued

\* updateMetadata reads the queued twin for requeueOnce.
TwinRead(p) ==
  /\ pc[p] = "twinRead"
  /\ UNCHANGED <<objects, clock, listed, own, plan, beating, history, budgets>>
  /\ \/ /\ queued = None                      \* vanished: run it all again
        /\ incoming' = [incoming EXCEPT ![p] = None]
        /\ Goto(p, "copy")
        /\ UNCHANGED twin
     \/ /\ queued # None /\ MergeMetadata(queued, incoming[p]) = queued
        /\ incoming' = [incoming EXCEPT ![p] = None]
        /\ Goto(p, "delete")
        /\ UNCHANGED twin
     \/ /\ queued # None /\ MergeMetadata(queued, incoming[p]) # queued
        /\ twin' = [twin EXCEPT ![p] = queued]
        /\ Goto(p, "twinPatch")
        /\ UNCHANGED incoming

\* Mutated form of TwinPatch: the write creates the object if it is not there.
TwinPatchUpserts(p) ==
  /\ pc[p] = "twinPatch"
  /\ UNCHANGED <<wip, dead, nextGen, clock, listed, own, plan, beating, history,
                 budgets>>
  /\ incoming' = [incoming EXCEPT ![p] = None]
  /\ twin' = [twin EXCEPT ![p] = None]
  /\ queued' = MergeMetadata(twin[p], incoming[p])
  /\ Goto(p, "delete")

\* updateMetadata writes the merged metadata for requeueOnce.
TwinPatch(p) ==
  /\ pc[p] = "twinPatch"
  /\ UNCHANGED <<wip, dead, nextGen, clock, listed, own, plan, beating, history,
                 budgets>>
  /\ incoming' = [incoming EXCEPT ![p] = None]
  /\ twin' = [twin EXCEPT ![p] = None]
  /\ \/ queued = None /\ Goto(p, "copy") /\ UNCHANGED queued
     \/ /\ queued # None
        /\ queued' = PatchMetadata(queued, MergeMetadata(twin[p], incoming[p]))
        /\ Goto(p, "delete")

-----------------------------------------------------------------------------
(* Crashes, failed requests and time.                                      *)

\* p crashes, or a request of it fails and it returns the error.
Abandon(p) ==
  /\ pc[p] # "idle"
  /\ faults < MaxFaults /\ faults' = faults + 1
  /\ Finish(p)
  /\ UNCHANGED <<objects, clock, accepted, handled, failures, revisits>>

\* Time passes while a lease or a not-before lies ahead; when nothing does, no
\* guard depends on it.  A Start stays within its window:
\* at most StartWindow ticks after its copy, the queued object is deleted.
Tick ==
  /\ clock < MaxClock
  /\ \/ wip # None /\ ~IsOrphaned(wip)
     \/ queued # None /\ clock < queued.nb
  /\ \A w \in Workers :
       pc[w] = "unlink" => clock + 1 <= (own[w].exp - Lease) + StartWindow
  /\ clock' = clock + 1
  /\ UNCHANGED <<objects, locals, history, budgets>>

-----------------------------------------------------------------------------

EnqueuerNext(e) == \E o \in EnqueueOptions : Enqueue(e, o)

QueueNext(p) == QueueWrite(p) \/ QueueRead(p) \/ QueuePatch(p)

CallbackReturns(w) == Succeed(w) \/ Fail(w) \/ AskRequeue(w) \/ AskQueueKeys(w)

WorkerNext(w) ==
  \/ Enumerate(w) \/ Start(w) \/ Unlink(w)
  \/ CallbackReturns(w)
  \/ ClearDeadLetter(w) \/ Bury(w)

HeartbeatNext(w) == Refresh(w) \/ HeartbeatStops(w) \/ QueueKeysFails(w)

ObserverNext(o) == Observe(o) \/ Recheck(o)

CleanupNext(p) == CopyBack(p) \/ TwinRead(p) \/ TwinPatch(p) \/ DeleteLease(p)

Next ==
  \/ \E e \in Enqueuers : EnqueuerNext(e) \/ QueueNext(e)
  \/ \E w \in Workers : \/ WorkerNext(w) \/ HeartbeatNext(w)
                        \/ QueueNext(w) \/ CleanupNext(w)
  \/ \E o \in Observers : ObserverNext(o) \/ CleanupNext(o)
  \/ \E p \in Procs : Abandon(p)
  \/ Tick

Spec == Init /\ [][Next]_vars

-----------------------------------------------------------------------------
(* Safety.                                                                 *)

\* An event whose Queue call succeeded and which no callback has covered yet
\* is still on the bucket: the key is queued or in progress (gcs.go: "dropping
\* a key is not" acceptable).
NoLostWork == accepted > handled => queued # None \/ wip # None

\* An accepted event that is no longer on the bucket is at least covered by a
\* callback that has yet to return.
\* The code does not keep it: README, section 7.
NeverForgotten ==
  accepted > handled
    => queued # None \/ wip # None \/ \E w \in Workers : pc[w] = "run"

\* Two callbacks run at once only if the lease one of them knows of has lapsed:
\* a worker whose heartbeat is acknowledged works alone.
ExclusiveLease ==
  \A v, w \in Workers :
    (v # w /\ pc[v] = "run" /\ pc[w] = "run")
      => own[v].exp < clock \/ own[w].exp < clock

\* While the lease on the in-progress object is live, only the worker that
\* holds it removes the object: the observer's pinned delete never hits a
\* lease refreshed after it looked.
LiveLeaseKept ==
  [][(wip # None /\ ~IsOrphaned(wip) /\ (wip' = None \/ wip'.gen # wip.gen))
       => \E w \in Workers : /\ pc[w] = "delete" /\ pc'[w] = "idle"
                             /\ own[w].gen = wip.gen]_vars

\* A key that keeps failing is dead-lettered at the attempt limit: callbacks
\* never fail more than MaxRetry times in a row (interface.go, BackoffDelay:
\* "so the dispatcher's attempts >= maxRetry dead-letter cutoff keeps firing").
CutoffKeepsFiring == MaxRetry > 0 => failures <= MaxRetry

\* Merging never lowers the priority of a queued entry (gcs.go, updateMetadata:
\* "Always choose the highest priority").
\* The code does not keep it: README, section 7.
PriorityNeverLowered ==
  [][(queued # None /\ queued' # None) => ~TextLess(queued'.prio, queued.prio)]_vars

\* No worker starts the key before the not-before of a floored entry
\* (interface.go, Options.NotBeforeFloor: a floor "cannot dedup to an earlier
\* time").
\* The code does not keep it: README, section 7.
FloorHonoured ==
  [][(wip = None /\ wip' # None) => ~(queued.floor /\ clock < queued.nb)]_vars

-----------------------------------------------------------------------------
(* Liveness.  Every process that can take a step of its own eventually     *)
(* does, a callback returns, time passes, and dispatch passes keep coming  *)
(* (the trigger is periodic).  Callers, faults and refreshes are not fair. *)

Fairness ==
  /\ WF_vars(Tick)
  /\ \A w \in Workers : WF_vars(WorkerNext(w) \/ CleanupNext(w) \/ QueueNext(w))
  /\ \A o \in Observers : WF_vars(ObserverNext(o) \/ CleanupNext(o))

FairSpec == Spec /\ Fairness

\* Every accepted event is eventually covered by a callback that succeeds, or
\* dead-lettered.
EventuallyHandled ==
  \A n \in 1 .. MaxEvents : (accepted >= n) ~> (handled >= n)

-----------------------------------------------------------------------------
(***************************************************************************)
(* The inductive invariant behind NoLostWork, ExclusiveLease and           *)
(* LiveLeaseKept.  It is checked by TLC (MCGCSQueue) and proved inductive  *)
(* in GCSQueue_proofs.                                                     *)
(***************************************************************************)

\* A Start never takes longer than the lease it stamped.
WindowAssumption == StartWindow <= Lease

\* The places of a worker that holds a lease, and of whoever returns a key.
Holding   == Labels \ {"idle", "start", "recheck"}
Returning == {"copy", "twinRead", "twinPatch", "delete"}

\* p is where its role can be, with the data it needs there.
RoleOK(p) ==
  /\ p \in Enqueuers => pc[p] \in {"idle", "write", "read", "patch"}
  /\ p \in Observers => pc[p] \in {"idle", "recheck"} \cup Returning
  /\ p \in Workers   => pc[p] # "recheck"
  /\ (p \notin Enqueuers /\ pc[p] \notin {"idle", "start"}) <=> (own[p] # None)
  /\ p \in beating => p \in Workers /\ pc[p] \in Holding \ {"unlink"}
  /\ pc[p] = "start" => listed[p] # None
  /\ pc[p] \in {"write", "read", "patch", "twinRead", "twinPatch"}
       => incoming[p] # None
  /\ pc[p] \in {"patch", "twinPatch"} => twin[p] # None

RolesOK == \A p \in Procs : RoleOK(p)

\* Generations are handed out once: no two workers lease the same one.
GenerationsFresh ==
  /\ wip # None => wip.gen < nextGen
  /\ \A p \in Procs : own[p] # None => own[p].gen < nextGen
  /\ \A v, w \in Workers :
       (v # w /\ own[v] # None /\ own[w] # None) => own[v].gen # own[w].gen

\* No lease reaches further than a whole lease from now.
LeasesBounded ==
  /\ wip # None => wip.exp <= clock + Lease
  /\ \A p \in Procs : own[p] # None => own[p].exp <= clock + Lease

\* What an observer saw had lapsed, and if the object's metageneration is
\* still the one it saw, so is its expiration.
ObservedLapsed ==
  \A o \in Observers :
    own[o] # None =>
      /\ own[o].exp < clock
      /\ Pinned(o) => /\ own[o].mgen <= wip.mgen
                      /\ own[o].mgen = wip.mgen => own[o].exp = wip.exp

\* A worker whose known lease has not lapsed still has its object.
HoldersPinned ==
  \A w \in Workers :
    (own[w] # None /\ own[w].exp >= clock) => Pinned(w) /\ own[w].exp <= wip.exp

\* A Start deletes the queued object while its own lease is live.
StartInWindow ==
  \A w \in Workers :
    pc[w] = "unlink" => clock <= (own[w].exp - Lease) + StartWindow

\* An event that a worker's callback came too early for is queued, as long as
\* the worker's object is there.
LaterEventsQueued ==
  \A w \in Workers :
    (pc[w] \in Holding \ {"unlink"} /\ Pinned(w) /\ accepted > seen[w])
      => queued # None

\* A worker completing the key has covered the events its callback saw.
CompletionCovered == \A w \in Workers : pc[w] = "clear" => seen[w] <= handled

\* Whoever is about to delete the in-progress object leaves nothing behind.
ReadyToDelete ==
  \A p \in Workers \cup Observers :
    (pc[p] = "delete" /\ DeletePinned(p) /\ accepted > handled) => queued # None

\* The inductive invariant: shape, who holds which lease, and what is covered.
Shape    == TypeOK /\ RolesOK
Leases   == /\ GenerationsFresh /\ LeasesBounded /\ ObservedLapsed
            /\ HoldersPinned /\ StartInWindow
Coverage == /\ LaterEventsQueued /\ CompletionCovered /\ ReadyToDelete
            /\ NoLostWork

IInv == Shape /\ Leases /\ Coverage

-----------------------------------------------------------------------------
(***************************************************************************)
(* The bucket's workqueue implements the contract AtLeastOnce.             *)
(***************************************************************************)

\* The key is kept while one of its two live objects exists.
Kept == queued # None \/ wip # None

\* A worker covers what it saw from Start's return to its last request.
Covers ==
  [w \in Workers |-> IF pc[w] \in Holding \ {"unlink"} THEN seen[w] ELSE -1]

Contract == INSTANCE AtLeastOnce WITH kept <- Kept, covers <- Covers

\* Every behaviour of the bucket's objects and of the dispatchers on them is
\* one the contract allows: no step of Queue, Start, the callback's result or
\* a requeue loses an event, settles one early or revives finished work.
ImplementsContract == Contract!Spec

=============================================================================

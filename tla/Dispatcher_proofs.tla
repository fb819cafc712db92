------------------------- MODULE Dispatcher_proofs --------------------------
(***************************************************************************)
(* Proofs about Dispatcher, for any number of keys and passes and any      *)
(* bounds.                                                                 *)
(***************************************************************************)
EXTENDS Dispatcher, FiniteSetTheorems, TLAPS

-----------------------------------------------------------------------------
(* What the operators of the queue return.                                 *)

LEMMA PriorityNat == ASSUME NEW p \in Priority PROVE p \in Nat
BY DEF Priority

LEMMA MaxPriorityNat == MaxPriority \in Nat
BY SMT DEF MaxPriority

LEMMA NothingCarried == Nothing \in Carried
<1>1. 0 \in Priority
  BY MaxPriorityNat DEF Priority
<1> QED
  BY <1>1 DEF Nothing, Carried

LEMMA MergedOptions ==
  ASSUME NEW e, NEW o \in Options,
         e.prio \in Priority, e.nb \in Nat, e.floor \in BOOLEAN
  PROVE  LET m == MergeOptions(e, o) IN
         m.prio \in Priority /\ m.nb \in Nat /\ m.floor \in BOOLEAN
BY DEF MergeOptions, MergeNotBefore, Options

LEMMA DeduplicatedItem ==
  ASSUME NEW e \in Item, NEW o \in Options PROVE Deduplicated(e, o) \in Item
<1>1. e.prio \in Priority /\ e.nb \in Nat /\ e.floor \in BOOLEAN
  BY DEF Item
<1> DEFINE m == MergeOptions(e, o)
           d == Deduplicated(e, o)
<1>2. m.prio \in Priority /\ m.nb \in Nat /\ m.floor \in BOOLEAN
  BY <1>1, MergedOptions
<1> DEFINE p == m.prio
           n == m.nb
           f == m.floor
<1>3. d = [[[e EXCEPT !.prio = p] EXCEPT !.nb = n] EXCEPT !.floor = f]
  BY DEF Deduplicated
<1>4. p \in Priority /\ n \in Nat /\ f \in BOOLEAN
  BY <1>2
<1> HIDE DEF d, p, n, f
<1>5. [e EXCEPT !.prio = p] \in Item
  BY <1>4 DEF Item
<1>6. [[e EXCEPT !.prio = p] EXCEPT !.nb = n] \in Item
  BY <1>4, <1>5 DEF Item
<1>7. d \in Item
  BY <1>3, <1>4, <1>6 DEF Item
<1> QED
  BY <1>7 DEF d

LEMMA FreshItem ==
  ASSUME NEW o \in Options, NEW n \in Nat, clock \in Nat PROVE Fresh(o, n) \in Item
BY DEF Fresh, Item, Options

\* Queueing one key leaves it queued and the other keys as they were.
LEMMA EnqueuedMap ==
  ASSUME InMemTypeOK, NEW k \in Keys, NEW o \in Options, NEW n \in Nat
  PROVE  /\ Enqueued(k, o, n) \in [Keys -> Item \cup {None}]
         /\ Enqueued(k, o, n)[k] # None
         /\ \A j \in Keys : queue[j] # None => Enqueued(k, o, n)[j] # None
<1>1. queue \in [Keys -> Item \cup {None}] /\ clock \in Nat
  BY DEF InMemTypeOK
<1> DEFINE v == IF queue[k] = None THEN Fresh(o, n) ELSE Deduplicated(queue[k], o)
<1>2. v \in Item
  BY <1>1, FreshItem, DeduplicatedItem
<1>3. Enqueued(k, o, n) = [queue EXCEPT ![k] = v]
  BY <1>1 DEF Enqueued
<1>4. v # None
  BY <1>2, InMemAssumption
<1> HIDE DEF v
<1> QED
  BY <1>1, <1>2, <1>3, <1>4

LEMMA BackoffNat == ASSUME NEW n \in Nat PROVE LinearBackoff(n) \in Nat
BY BackoffAssumption DEF LinearBackoff, Smaller

LEMMA ReturnedOptions ==
  ASSUME NEW c \in Carried, NEW p \in Plans, clock \in Nat
  PROVE  Returned(c, p) \in Options
<1>1. c.prio \in Priority /\ c.attempts \in Nat /\ p.delay \in Nat /\ p.floor \in BOOLEAN
  BY DEF Carried, Plans
<1>2. LinearBackoff(c.attempts) \in Nat
  BY <1>1, BackoffNat
<1> QED
  BY <1>1, <1>2 DEF Returned, Options

\* A requeue puts the key back and takes it out of progress.
LEMMA Requeued ==
  ASSUME InMemTypeOK, NEW k \in Keys, NEW c \in Carried, NEW p \in Plans,
         RequeueKey(k, c, p)
  PROVE  /\ queue' \in [Keys -> Item \cup {None}]
         /\ queue'[k] # None
         /\ \A j \in Keys : queue[j] # None => queue'[j] # None
         /\ wip' = wip \ {k}
<1> DEFINE n == IF p.kind = "delay" /\ p.delay > 0 THEN 0 ELSE c.attempts
<1>1. n \in Nat
  BY DEF Carried
<1>2. Returned(c, p) \in Options
  BY ReturnedOptions DEF InMemTypeOK
<1>3. queue' = Enqueued(k, Returned(c, p), n) /\ wip' = wip \ {k}
  BY DEF RequeueKey
<1> HIDE DEF n
<1> QED
  BY <1>1, <1>2, <1>3, EnqueuedMap

LEMMA ClampedPlan == ASSUME NEW p \in Plans PROVE Clamped(p) \in Plans
<1>1. CASE p.floor = TRUE
  <2> DEFINE d == Smaller(p.delay, MaximumRequeueFloor)
  <2>1. d \in Nat
    BY DispatcherAssumption DEF Smaller, Plans
  <2>2. Clamped(p) = [p EXCEPT !.delay = d]
    BY <1>1 DEF Clamped
  <2> HIDE DEF d
  <2> QED
    BY <2>1, <2>2 DEF Plans
<1>2. CASE p.floor = FALSE
  BY <1>2 DEF Clamped
<1> QED
  BY <1>1, <1>2 DEF Plans

LEMMA FailureDelayNat ==
  ASSUME NEW n \in Nat, NEW d \in FailureDelays(n) PROVE d \in Nat
<1>1. d \in HookDelays \/ d \in 1 .. 2 * MaximumBackoffPeriod
  BY DEF FailureDelays
<1>2. HookDelays \subseteq Nat
  BY DispatcherAssumption
<1>3. \A x \in 1 .. 2 * MaximumBackoffPeriod : x \in Nat
  OBVIOUS
<1> QED
  BY <1>1, <1>2, <1>3

LEMMA PlansAre ==
  /\ PlainPlan \in Plans
  /\ \A d \in Nat : BackoffPlan(d) \in Plans
BY DEF PlainPlan, BackoffPlan, Plans

-----------------------------------------------------------------------------
(* Type correctness.                                                       *)

\* The parts of TypeOK that a task's own bookkeeping touches.
LEMMA ReturnTypes ==
  ASSUME TypeOK, NEW t \in Tasks, Return(t)
  PROVE  /\ at' \in [Tasks -> Places] /\ owned' \in [Tasks -> Carried]
         /\ toQueue' \in [Tasks -> SUBSET Keys] /\ seen' \in [Tasks -> Nat]
BY NothingCarried DEF TypeOK, Return, Goto, Places

LEMMA DischargeTypes ==
  ASSUME TypeOK, NEW t \in Tasks, Discharge(t) PROVE handled' \in [Keys -> Nat]
<1>1. t[2] \in Keys /\ seen[t] \in Nat
  BY DEF TypeOK, Tasks
<1> QED
  BY <1>1 DEF TypeOK, Discharge

LEMMA TypeInit == Init => TypeOK
<1> SUFFICES ASSUME Init PROVE TypeOK
  OBVIOUS
<1>2. InMemTypeOK
  BY DEF Init, InMemInit, InMemTypeOK
<1> QED
  BY NothingCarried, <1>2 DEF Init, TypeOK, Places

LEMMA EnqueueType ==
  ASSUME TypeOK, NEW k \in Keys, NEW o \in EnqueueOptions, Enqueue(k, o)
  PROVE  TypeOK'
<1>1. o \in Options
  BY DispatcherAssumption
<1>2. InMemTypeOK'
  BY <1>1, EnqueuedMap DEF Enqueue, Queue, TypeOK, InMemTypeOK
<1> QED
  BY <1>2 DEF Enqueue, TypeOK, tasks

LEMMA BeginPassType ==
  ASSUME TypeOK, NEW p \in Passes, BeginPass(p) PROVE TypeOK'
<1>1. PICK launch \in Launches :
        /\ at' = [t \in Tasks |->
                    IF t[1] = p /\ t[2] \in launch THEN "start" ELSE at[t]]
        /\ owned' = [t \in Tasks |->
                       IF t[1] = p /\ t[2] \in launch
                         THEN [prio |-> queue[t[2]].prio,
                               attempts |-> queue[t[2]].attempts]
                         ELSE owned[t]]
  BY DEF BeginPass
<1>2. \A k \in launch : k \in Keys /\ queue[k] \in Item
  BY DEF Launches, Listings, Front, Ready, TypeOK, InMemTypeOK
<1>3. at' \in [Tasks -> Places]
  BY <1>1 DEF TypeOK, Places
<1>4. owned' \in [Tasks -> Carried]
  BY <1>1, <1>2 DEF TypeOK, Carried, Item
<1>5. nextPass' \in Nat
  BY DispatcherAssumption DEF BeginPass, TypeOK, InMemTypeOK
<1> QED
  BY <1>3, <1>4, <1>5 DEF BeginPass, TypeOK, InMemTypeOK, maps, ghost

LEMMA StartType == ASSUME TypeOK, NEW t \in Tasks, Start(t) PROVE TypeOK'
<1>1. t[2] \in Keys
  BY DEF Tasks
<1>2. CASE CanStart(t[2]) /\ StartKey(t[2]) /\ Goto(t, "run")
           /\ owned' = [owned EXCEPT ![t].attempts = @ + 1]
           /\ seen' = [seen EXCEPT ![t] = accepted[t[2]]]
           /\ owed' = {e \in owed : e[1] # t[2]} /\ UNCHANGED toQueue
  <2>1. InMemTypeOK'
    BY <1>1, <1>2 DEF Start, StartKey, TypeOK, InMemTypeOK
  <2>2. owned' \in [Tasks -> Carried]
    BY <1>2 DEF TypeOK, Carried
  <2>3. seen' \in [Tasks -> Nat] /\ at' \in [Tasks -> Places]
    BY <1>1, <1>2 DEF TypeOK, Goto, Places
  <2>4. owed' \subseteq Keys \X Keys
    BY <1>2 DEF TypeOK
  <2> QED
    BY <1>2, <2>1, <2>2, <2>3, <2>4 DEF Start, TypeOK
<1>3. CASE Return(t) /\ UNCHANGED <<maps, owed>>
  BY <1>3, ReturnTypes DEF Start, TypeOK, InMemTypeOK, maps
<1> QED
  BY <1>2, <1>3 DEF Start

LEMMA SucceedType == ASSUME TypeOK, NEW t \in Tasks, Succeed(t) PROVE TypeOK'
BY ReturnTypes, DischargeTypes DEF Succeed, Remove, TypeOK, InMemTypeOK

LEMMA CompleteType == ASSUME TypeOK, NEW t \in Tasks, Complete(t) PROVE TypeOK'
BY ReturnTypes, DischargeTypes DEF Complete, Remove, TypeOK, InMemTypeOK

\* The ends of a task that requeue its key.
LEMMA RequeueType ==
  ASSUME TypeOK, NEW t \in Tasks, NEW p \in Plans, RequeueKey(t[2], owned[t], p),
         UNCHANGED clock
  PROVE  InMemTypeOK'
<1>1. t[2] \in Keys /\ owned[t] \in Carried /\ InMemTypeOK
  BY DEF TypeOK, Tasks
<1> QED
  BY <1>1, Requeued DEF InMemTypeOK

LEMMA FailType == ASSUME TypeOK, NEW t \in Tasks, Fail(t) PROVE TypeOK'
<1>1. budget' \in [failures : Nat, revisits : Nat, faults : Nat]
  BY DEF Fail, TypeOK
<1>2. InMemTypeOK' /\ handled' \in [Keys -> Nat]
  <2>1. CASE Remove(t[2]) /\ Discharge(t)
    BY <2>1, DischargeTypes DEF Fail, Remove, TypeOK, InMemTypeOK
  <2>2. ASSUME NEW d \in FailureDelays(owned[t].attempts),
               RequeueKey(t[2], owned[t], BackoffPlan(d)), UNCHANGED handled
        PROVE  InMemTypeOK' /\ handled' \in [Keys -> Nat]
    <3>1. BackoffPlan(d) \in Plans
      BY FailureDelayNat, PlansAre DEF TypeOK, Carried
    <3> QED
      BY <2>2, <3>1, RequeueType DEF Fail, TypeOK
  <2> QED
    BY <2>1, <2>2 DEF Fail
<1> QED
  BY <1>1, <1>2, ReturnTypes DEF Fail, TypeOK

LEMMA AskRequeueType == ASSUME TypeOK, NEW t \in Tasks, AskRequeue(t) PROVE TypeOK'
<1>1. budget' \in [failures : Nat, revisits : Nat, faults : Nat]
  BY DEF AskRequeue, TypeOK
<1>2. PICK asked \in RevisitPlans : RequeueKey(t[2], owned[t], Clamped(asked))
  BY DEF AskRequeue
<1>3. InMemTypeOK'
  BY <1>2, ClampedPlan, DispatcherAssumption, RequeueType DEF AskRequeue
<1> QED
  BY <1>1, <1>3, ReturnTypes DEF AskRequeue, TypeOK

LEMMA QueueKeyFailsType ==
  ASSUME TypeOK, NEW t \in Tasks, QueueKeyFails(t) PROVE TypeOK'
<1>1. budget' \in [failures : Nat, revisits : Nat, faults : Nat]
  BY DEF QueueKeyFails, TypeOK
<1>2. InMemTypeOK'
  BY PlansAre, RequeueType DEF QueueKeyFails
<1> QED
  BY <1>1, <1>2, ReturnTypes DEF QueueKeyFails, TypeOK

LEMMA AskQueueKeysType ==
  ASSUME TypeOK, NEW t \in Tasks, AskQueueKeys(t) PROVE TypeOK'
<1>1. budget' \in [failures : Nat, revisits : Nat, faults : Nat]
  BY DEF AskQueueKeys, TypeOK
<1>2. PICK family \in Families :
        toQueue' = [toQueue EXCEPT ![t] = family] /\ owed' = owed \cup ({t[2]} \X family)
  BY DEF AskQueueKeys
<1>3. family \subseteq Keys /\ t[2] \in Keys
  BY DispatcherAssumption DEF Tasks
<1>4. toQueue' \in [Tasks -> SUBSET Keys]
  BY <1>2, <1>3 DEF TypeOK
<1>5. owed' \subseteq Keys \X Keys
  BY <1>2, <1>3 DEF TypeOK
<1>6. at' \in [Tasks -> Places]
  BY DEF AskQueueKeys, Goto, TypeOK, Places
<1> QED
  BY <1>1, <1>4, <1>5, <1>6 DEF AskQueueKeys, TypeOK, InMemTypeOK, maps

LEMMA QueueKeyType == ASSUME TypeOK, NEW t \in Tasks, QueueKey(t) PROVE TypeOK'
<1>1. PICK k \in toQueue[t], o \in EnqueueOptions :
        /\ Queue(k, o)
        /\ accepted' = [accepted EXCEPT ![k] = @ + 1]
        /\ toQueue' = [toQueue EXCEPT ![t] = @ \ {k}]
        /\ owed' = owed \ {<<t[2], k>>}
        /\ Goto(t, IF toQueue[t] = {k} THEN "complete" ELSE "queueKeys")
  BY DEF QueueKey
<1>2. k \in Keys /\ o \in Options
  BY DispatcherAssumption DEF TypeOK
<1>3. InMemTypeOK'
  BY <1>1, <1>2, EnqueuedMap DEF QueueKey, Queue, TypeOK, InMemTypeOK
<1>4. accepted' \in [Keys -> Nat] /\ toQueue' \in [Tasks -> SUBSET Keys]
      /\ owed' \subseteq Keys \X Keys
  BY <1>1, <1>2 DEF TypeOK
<1>5. at' \in [Tasks -> Places]
  BY <1>1 DEF Goto, TypeOK, Places
<1> QED
  BY <1>3, <1>4, <1>5 DEF QueueKey, TypeOK

LEMMA TickType == ASSUME TypeOK, Tick PROVE TypeOK'
BY DEF Tick, TypeOK, InMemTypeOK, maps, tasks, ghost

LEMMA StutterType == ASSUME TypeOK, UNCHANGED vars PROVE TypeOK'
BY DEF vars, TypeOK, InMemTypeOK, maps, tasks, ghost

LEMMA TypeStep == TypeOK /\ [Next]_vars => TypeOK'
BY EnqueueType, BeginPassType, StartType, SucceedType, FailType, AskRequeueType,
   AskQueueKeysType, QueueKeyType, QueueKeyFailsType, CompleteType, TickType,
   StutterType DEF Next, TaskNext

\* Every key, every task and every counter keeps its type.
THEOREM TypeCorrect == Spec => []TypeOK
BY TypeInit, TypeStep, PTL DEF Spec

-----------------------------------------------------------------------------
(* The invariant behind the safety properties.                             *)

Safe == Ownership /\ Coverage /\ Debts /\ HandledBounded /\ NoLostWork

\* No queued key leaves the queue.
QueueKept == \A k \in Keys : queue[k] # None => queue'[k] # None

LEMMA SafeInit == Init => Safe
BY DEF Init, InMemInit, Safe, Ownership, Coverage, Debts, HandledBounded,
       NoLostWork, Owns, Owning

\* A task that owns its key ends: either its callback's result settled the
\* events it covers, or the key is queued again.
LEMMA EndSafe ==
  ASSUME TypeOK, Safe, NEW t \in Tasks, Owns(t), Return(t),
         wip' = wip \ {t[2]}, QueueKept, UNCHANGED <<accepted, owed>>,
         \/ at[t] # "queueKeys" /\ Discharge(t)
         \/ queue'[t[2]] # None /\ UNCHANGED handled
  PROVE  Safe'
<1> DEFINE k == t[2]
<1>1. k \in Keys /\ seen[t] <= accepted[k] /\ seen[t] \in Nat
      /\ (seen[t] < accepted[k] => queue[k] # None)
  BY DEF Tasks, Safe, Coverage, TypeOK
<1>2. \A u \in Tasks : IF u = t THEN at'[u] = "none" ELSE at'[u] = at[u]
                       /\ toQueue'[u] = toQueue[u] /\ seen'[u] = seen[u]
  BY DEF Return, Goto, TypeOK
<1>3. \A u \in Tasks : Owns(u)' <=> Owns(u) /\ u # t
  BY <1>2 DEF Owns, Owning
<1>4. \A u \in Tasks : Owns(u) /\ u[2] = k => u = t
  BY DEF Safe, Ownership
<1>5. Ownership'
  <2>1. ASSUME NEW u \in Tasks, Owns(u)' PROVE u[2] \in wip'
    BY <2>1, <1>3, <1>4 DEF Safe, Ownership
  <2>2. ASSUME NEW u \in Tasks, NEW v \in Tasks, Owns(u)', Owns(v)', u[2] = v[2]
        PROVE  u = v
    BY <2>2, <1>3 DEF Safe, Ownership
  <2>3. ASSUME NEW j \in wip' PROVE \E u \in Tasks : Owns(u)' /\ u[2] = j
    <3>1. j \in wip /\ j # k
      OBVIOUS
    <3>2. PICK u \in Tasks : Owns(u) /\ u[2] = j
      BY <3>1 DEF Safe, Ownership
    <3>3. Owns(u)'
      BY <3>1, <3>2, <1>3
    <3> QED
      BY <3>2, <3>3
  <2> QED
    BY <2>1, <2>2, <2>3 DEF Ownership
<1>6. Coverage'
  <2> SUFFICES ASSUME NEW u \in Tasks, Owns(u)'
               PROVE  /\ seen'[u] <= accepted'[u[2]]
                      /\ seen'[u] < accepted'[u[2]] => queue'[u[2]] # None
    BY DEF Coverage
  <2>1. Owns(u) /\ u # t
    BY <1>3
  <2>2. seen'[u] = seen[u] /\ u[2] \in Keys
    BY <1>2, <2>1 DEF Tasks
  <2> QED
    BY <2>1, <2>2 DEF Safe, Coverage, QueueKept
<1>7. Debts'
  <2> SUFFICES ASSUME NEW e \in owed
               PROVE \/ \E u \in Tasks : /\ u[2] = e[1] /\ at'[u] = "queueKeys"
                                         /\ e[2] \in toQueue'[u]
                     \/ queue'[e[1]] # None
    BY DEF Debts
  <2>1. e[1] \in Keys
    BY DEF TypeOK
  <2>2. CASE queue[e[1]] # None
    BY <2>1, <2>2 DEF QueueKept
  <2>3. CASE queue[e[1]] = None
    <3>1. PICK u \in Tasks : u[2] = e[1] /\ at[u] = "queueKeys" /\ e[2] \in toQueue[u]
      BY <2>3 DEF Safe, Debts
    <3>2. CASE u = t
      BY <3>1, <3>2
    <3>3. CASE u # t
      BY <1>2, <3>1, <3>3
    <3> QED
      BY <3>2, <3>3
  <2> QED
    BY <2>2, <2>3
<1>8. HandledBounded' /\ NoLostWork'
  <2>1. CASE Discharge(t)
    <3>1. handled' = [handled EXCEPT ![k] = IF @ < seen[t] THEN seen[t] ELSE @]
      BY <2>1 DEF Discharge
    <3>2. handled \in [Keys -> Nat] /\ accepted \in [Keys -> Nat]
      BY DEF TypeOK
    <3>3. HandledBounded'
      BY <1>1, <3>1, <3>2 DEF Safe, HandledBounded
    <3>4. ASSUME NEW j \in Keys, accepted[j] > handled'[j]
          PROVE  queue'[j] # None \/ j \in wip'
      <4>1. CASE j = k
        <5>1. handled'[k] = IF handled[k] < seen[t] THEN seen[t] ELSE handled[k]
          BY <1>1, <3>1, <3>2
        <5>2. seen[t] < accepted[k]
          BY <1>1, <3>2, <3>4, <4>1, <5>1
        <5> QED
          BY <1>1, <4>1, <5>2 DEF QueueKept
      <4>2. CASE j # k
        BY <3>1, <3>2, <3>4, <4>2 DEF Safe, NoLostWork, QueueKept
      <4> QED
        BY <4>1, <4>2
    <3> QED
      BY <3>3, <3>4 DEF NoLostWork
  <2>2. CASE queue'[k] # None /\ UNCHANGED handled
    BY <2>2 DEF Safe, HandledBounded, NoLostWork, QueueKept
  <2> QED
    BY <2>1, <2>2
<1> QED
  BY <1>5, <1>6, <1>7, <1>8 DEF Safe

LEMMA SucceedSafe ==
  ASSUME TypeOK, Safe, NEW t \in Tasks, Succeed(t) PROVE Safe'
<1>1. Owns(t) /\ at[t] # "queueKeys" /\ QueueKept /\ wip' = wip \ {t[2]}
  BY DEF Succeed, Owns, Owning, Remove, QueueKept
<1> QED
  BY <1>1, EndSafe DEF Succeed

LEMMA CompleteSafe ==
  ASSUME TypeOK, Safe, NEW t \in Tasks, Complete(t) PROVE Safe'
<1>1. Owns(t) /\ at[t] # "queueKeys" /\ QueueKept /\ wip' = wip \ {t[2]}
  BY DEF Complete, Owns, Owning, Remove, QueueKept
<1> QED
  BY <1>1, EndSafe DEF Complete

\* What a requeue by a task does to the two maps.
LEMMA RequeueMaps ==
  ASSUME TypeOK, NEW t \in Tasks, NEW p \in Plans, RequeueKey(t[2], owned[t], p)
  PROVE  QueueKept /\ queue'[t[2]] # None /\ wip' = wip \ {t[2]}
<1>1. t[2] \in Keys /\ owned[t] \in Carried /\ InMemTypeOK
  BY DEF TypeOK, Tasks
<1> QED
  BY <1>1, Requeued DEF QueueKept

LEMMA FailSafe ==
  ASSUME TypeOK, Safe, NEW t \in Tasks, Fail(t) PROVE Safe'
<1>1. Owns(t) /\ at[t] # "queueKeys"
  BY DEF Fail, Owns, Owning
<1>2. CASE Remove(t[2]) /\ Discharge(t)
  <2>1. QueueKept /\ wip' = wip \ {t[2]}
    BY <1>2 DEF Remove, QueueKept
  <2> QED
    BY <1>1, <1>2, <2>1, EndSafe DEF Fail
<1>3. ASSUME NEW d \in FailureDelays(owned[t].attempts),
             RequeueKey(t[2], owned[t], BackoffPlan(d)), UNCHANGED handled
      PROVE  Safe'
  <2>1. BackoffPlan(d) \in Plans
    BY FailureDelayNat, PlansAre DEF TypeOK, Carried
  <2>2. QueueKept /\ queue'[t[2]] # None /\ wip' = wip \ {t[2]}
    BY <1>3, <2>1, RequeueMaps
  <2> QED
    BY <1>1, <1>3, <2>2, EndSafe DEF Fail
<1> QED
  BY <1>2, <1>3 DEF Fail

LEMMA AskRequeueSafe ==
  ASSUME TypeOK, Safe, NEW t \in Tasks, AskRequeue(t) PROVE Safe'
<1>1. PICK asked \in RevisitPlans : RequeueKey(t[2], owned[t], Clamped(asked))
  BY DEF AskRequeue
<1>2. QueueKept /\ queue'[t[2]] # None /\ wip' = wip \ {t[2]}
  BY <1>1, ClampedPlan, DispatcherAssumption, RequeueMaps
<1>3. Owns(t)
  BY DEF AskRequeue, Owns, Owning
<1> QED
  BY <1>2, <1>3, EndSafe DEF AskRequeue

LEMMA QueueKeyFailsSafe ==
  ASSUME TypeOK, Safe, NEW t \in Tasks, QueueKeyFails(t) PROVE Safe'
<1>1. QueueKept /\ queue'[t[2]] # None /\ wip' = wip \ {t[2]}
  BY PlansAre, RequeueMaps DEF QueueKeyFails
<1>2. Owns(t)
  BY DEF QueueKeyFails, Owns, Owning
<1> QED
  BY <1>1, <1>2, EndSafe DEF QueueKeyFails

\* One more event for k is accepted while tasks stay where they are.
LEMMA AcceptSafe ==
  ASSUME TypeOK, Safe, NEW k \in Keys, NEW o \in EnqueueOptions, Queue(k, o),
         accepted' = [accepted EXCEPT ![k] = @ + 1], UNCHANGED handled
  PROVE  /\ QueueKept /\ queue'[k] # None /\ wip' = wip
         /\ HandledBounded' /\ NoLostWork'
         /\ \A t \in Tasks : Owns(t) =>
              /\ seen[t] <= accepted'[t[2]]
              /\ seen[t] < accepted'[t[2]] => queue'[t[2]] # None
<1>1. QueueKept /\ queue'[k] # None /\ wip' = wip
  <2>1. o \in Options /\ InMemTypeOK
    BY DispatcherAssumption DEF TypeOK
  <2> QED
    BY <2>1, EnqueuedMap DEF Queue, QueueKept
<1>2. /\ accepted \in [Keys -> Nat] /\ handled \in [Keys -> Nat]
      /\ \A t \in Tasks : seen[t] \in Nat /\ t[2] \in Keys
  BY DEF TypeOK, Tasks
<1>3. accepted'[k] = accepted[k] + 1 /\ \A j \in Keys \ {k} : accepted'[j] = accepted[j]
  BY <1>2
<1>4. HandledBounded'
  BY <1>2, <1>3 DEF Safe, HandledBounded
<1>5. NoLostWork'
  BY <1>1, <1>2, <1>3 DEF Safe, NoLostWork, QueueKept
<1>6. ASSUME NEW t \in Tasks, Owns(t)
      PROVE  /\ seen[t] <= accepted'[t[2]]
             /\ seen[t] < accepted'[t[2]] => queue'[t[2]] # None
  <2>1. CASE t[2] = k
    BY <1>1, <1>2, <1>3, <1>6, <2>1 DEF Safe, Coverage
  <2>2. CASE t[2] # k
    BY <1>1, <1>2, <1>3, <1>6, <2>2 DEF Safe, Coverage, QueueKept
  <2> QED
    BY <2>1, <2>2
<1> QED
  BY <1>1, <1>4, <1>5, <1>6

LEMMA EnqueueSafe ==
  ASSUME TypeOK, Safe, NEW k \in Keys, NEW o \in EnqueueOptions, Enqueue(k, o)
  PROVE  Safe'
<1>1. /\ QueueKept /\ wip' = wip /\ HandledBounded' /\ NoLostWork'
      /\ \A t \in Tasks : Owns(t) =>
           /\ seen[t] <= accepted'[t[2]]
           /\ seen[t] < accepted'[t[2]] => queue'[t[2]] # None
  BY AcceptSafe DEF Enqueue
<1>2. UNCHANGED <<at, toQueue, seen, owed>>
  BY DEF Enqueue, tasks
<1>3. Ownership' /\ Coverage'
  BY <1>1, <1>2 DEF Safe, Ownership, Coverage, Owns
<1>4. Debts'
  <2>1. \A e \in owed : e[1] \in Keys
    BY DEF TypeOK
  <2> QED
    BY <1>1, <1>2, <2>1 DEF Safe, Debts, QueueKept
<1> QED
  BY <1>1, <1>3, <1>4 DEF Safe

LEMMA BeginPassSafe ==
  ASSUME TypeOK, Safe, NEW p \in Passes, BeginPass(p) PROVE Safe'
<1>1. PICK launch \in Launches :
        at' = [t \in Tasks |-> IF t[1] = p /\ t[2] \in launch THEN "start" ELSE at[t]]
  BY DEF BeginPass
<1>2. UNCHANGED <<queue, wip, toQueue, seen, owed, accepted, handled>>
  BY DEF BeginPass, maps, ghost
<1>3. ASSUME NEW t \in Tasks, t[1] = p PROVE at[t] = "none"
  BY <1>3 DEF BeginPass, Idle, Tasks
<1>4. \A t \in Tasks : /\ Owns(t)' <=> Owns(t)
                       /\ at[t] = "queueKeys" => at'[t] = "queueKeys"
  BY <1>1, <1>3 DEF Owns, Owning
<1>5. Ownership' /\ Coverage'
  BY <1>2, <1>4 DEF Safe, Ownership, Coverage
<1>6. Debts'
  BY <1>2, <1>4 DEF Safe, Debts
<1> QED
  BY <1>2, <1>5, <1>6 DEF Safe, HandledBounded, NoLostWork

LEMMA AskQueueKeysSafe ==
  ASSUME TypeOK, Safe, NEW t \in Tasks, AskQueueKeys(t) PROVE Safe'
<1>1. PICK family \in Families :
        toQueue' = [toQueue EXCEPT ![t] = family] /\ owed' = owed \cup ({t[2]} \X family)
  BY DEF AskQueueKeys
<1>2. UNCHANGED <<queue, wip, seen, accepted, handled>>
  BY DEF AskQueueKeys, maps
<1>3. \A u \in Tasks : IF u = t THEN at[u] = "run" /\ at'[u] = "queueKeys"
                                     /\ toQueue'[u] = family
                       ELSE at'[u] = at[u] /\ toQueue'[u] = toQueue[u]
  BY <1>1 DEF AskQueueKeys, Goto, TypeOK
<1>4. \A u \in Tasks : Owns(u)' <=> Owns(u)
  BY <1>3 DEF Owns, Owning
<1>5. Ownership' /\ Coverage'
  BY <1>2, <1>4 DEF Safe, Ownership, Coverage
<1>6. Debts'
  <2> SUFFICES ASSUME NEW e \in owed'
               PROVE \/ \E u \in Tasks : /\ u[2] = e[1] /\ at'[u] = "queueKeys"
                                         /\ e[2] \in toQueue'[u]
                     \/ queue'[e[1]] # None
    BY DEF Debts
  <2>1. CASE e \in {t[2]} \X family
    BY <1>3, <2>1
  <2>2. CASE e \in owed
    <3>1. CASE queue[e[1]] # None
      BY <1>2, <3>1
    <3>2. CASE queue[e[1]] = None
      <4>1. PICK u \in Tasks :
              u[2] = e[1] /\ at[u] = "queueKeys" /\ e[2] \in toQueue[u]
        BY <2>2, <3>2 DEF Safe, Debts
      <4>2. u # t
        BY <4>1, <1>3
      <4> QED
        BY <4>1, <4>2, <1>3
    <3> QED
      BY <3>1, <3>2
  <2> QED
    BY <1>1, <2>1, <2>2
<1> QED
  BY <1>2, <1>5, <1>6 DEF Safe, HandledBounded, NoLostWork

LEMMA QueueKeySafe == ASSUME TypeOK, Safe, NEW t \in Tasks, QueueKey(t) PROVE Safe'
<1>1. PICK k \in toQueue[t], o \in EnqueueOptions :
        /\ Queue(k, o)
        /\ accepted' = [accepted EXCEPT ![k] = @ + 1]
        /\ toQueue' = [toQueue EXCEPT ![t] = @ \ {k}]
        /\ owed' = owed \ {<<t[2], k>>}
        /\ Goto(t, IF toQueue[t] = {k} THEN "complete" ELSE "queueKeys")
  BY DEF QueueKey
<1>2. k \in Keys /\ toQueue[t] \subseteq Keys
  BY DEF TypeOK
<1>3. /\ QueueKept /\ wip' = wip /\ HandledBounded' /\ NoLostWork'
      /\ \A u \in Tasks : Owns(u) =>
           /\ seen[u] <= accepted'[u[2]]
           /\ seen[u] < accepted'[u[2]] => queue'[u[2]] # None
  BY <1>1, <1>2, AcceptSafe DEF QueueKey
<1>4. at[t] = "queueKeys" /\ UNCHANGED seen
  BY DEF QueueKey
<1>5. /\ \A u \in Tasks \ {t} : at'[u] = at[u] /\ toQueue'[u] = toQueue[u]
      /\ at'[t] = IF toQueue[t] = {k} THEN "complete" ELSE "queueKeys"
      /\ toQueue'[t] = toQueue[t] \ {k}
  BY <1>1 DEF Goto, TypeOK
<1>6. \A u \in Tasks : Owns(u)' <=> Owns(u)
  BY <1>4, <1>5 DEF Owns, Owning
<1>7. Ownership' /\ Coverage'
  BY <1>3, <1>4, <1>6 DEF Safe, Ownership, Coverage
<1>8. Debts'
  <2> SUFFICES ASSUME NEW e \in owed'
               PROVE \/ \E u \in Tasks : /\ u[2] = e[1] /\ at'[u] = "queueKeys"
                                         /\ e[2] \in toQueue'[u]
                     \/ queue'[e[1]] # None
    BY DEF Debts
  <2>1. e \in owed /\ e # <<t[2], k>> /\ e[1] \in Keys /\ e = <<e[1], e[2]>>
    BY <1>1 DEF TypeOK
  <2>2. CASE queue[e[1]] # None
    BY <1>3, <2>1, <2>2 DEF QueueKept
  <2>3. CASE queue[e[1]] = None
    <3>1. PICK u \in Tasks : u[2] = e[1] /\ at[u] = "queueKeys" /\ e[2] \in toQueue[u]
      BY <2>1, <2>3 DEF Safe, Debts
    <3>2. CASE u = t
      <4>1. e[2] # k
        BY <2>1, <3>1, <3>2
      <4>2. at'[t] = "queueKeys" /\ e[2] \in toQueue'[t]
        BY <1>5, <3>1, <3>2, <4>1
      <4> QED
        BY <3>1, <3>2, <4>2
    <3>3. CASE u # t
      BY <1>5, <3>1, <3>3
    <3> QED
      BY <3>2, <3>3
  <2> QED
    BY <2>2, <2>3
<1> QED
  BY <1>3, <1>7, <1>8 DEF Safe

\* Starting a key: nobody owned it, and whatever its parent was asked to queue
\* and did not is asked for anew.
LEMMA StartSafe == ASSUME TypeOK, Safe, NEW t \in Tasks, Start(t) PROVE Safe'
<1> DEFINE k == t[2]
<1>0. k \in Keys /\ UNCHANGED <<accepted, handled>>
  BY DEF Tasks, Start
<1>1. CASE ~CanStart(k) /\ Return(t) /\ UNCHANGED <<maps, owed>>
  <2>1. \A u \in Tasks :
          IF u = t THEN at'[u] = "none"
          ELSE at'[u] = at[u] /\ toQueue'[u] = toQueue[u] /\ seen'[u] = seen[u]
    BY <1>1 DEF Return, Goto, TypeOK
  <2>2. \A u \in Tasks : /\ Owns(u)' <=> Owns(u)
                         /\ Owns(u) => u # t
    BY <2>1 DEF Owns, Owning, Start
  <2>3. Ownership' /\ Coverage'
    BY <1>0, <1>1, <2>1, <2>2 DEF Safe, Ownership, Coverage, maps
  <2>4. Debts'
    <3>1. at[t] # "queueKeys"
      BY DEF Start
    <3> QED
      BY <1>1, <2>1, <3>1 DEF Safe, Debts, maps
  <2> QED
    BY <1>0, <1>1, <2>3, <2>4 DEF Safe, HandledBounded, NoLostWork, maps
<1>2. CASE /\ CanStart(k) /\ StartKey(k)
           /\ seen' = [seen EXCEPT ![t] = accepted[k]]
           /\ owed' = {e \in owed : e[1] # k}
           /\ Goto(t, "run") /\ UNCHANGED toQueue
  <2>1. \A u \in Tasks :
          IF u = t THEN at'[u] = "run" /\ seen'[u] = accepted[k] /\ at[u] = "start"
          ELSE at'[u] = at[u] /\ seen'[u] = seen[u]
    BY <1>2 DEF Goto, TypeOK, Start
  <2>2. \A u \in Tasks : Owns(u)' <=> Owns(u) \/ u = t
    BY <2>1 DEF Owns, Owning
  <2>3. /\ k \notin wip /\ wip' = wip \cup {k}
        /\ queue'[k] = None /\ \A j \in Keys \ {k} : queue'[j] = queue[j]
    BY <1>0, <1>2 DEF CanStart, StartKey, TypeOK, InMemTypeOK
  <2>4. \A u \in Tasks : Owns(u) => u[2] # k
    BY <2>3 DEF Safe, Ownership
  <2>5. Ownership'
    <3>1. \A u \in Tasks : Owns(u)' => u[2] \in wip'
      BY <2>2, <2>3 DEF Safe, Ownership
    <3>2. \A u, v \in Tasks : Owns(u)' /\ Owns(v)' /\ u[2] = v[2] => u = v
      BY <2>2, <2>4 DEF Safe, Ownership
    <3>3. \A j \in wip' : \E u \in Tasks : Owns(u)' /\ u[2] = j
      BY <2>2, <2>3 DEF Safe, Ownership
    <3> QED
      BY <3>1, <3>2, <3>3 DEF Ownership
  <2>6. Coverage'
    <3> SUFFICES ASSUME NEW u \in Tasks, Owns(u)'
                 PROVE  /\ seen'[u] <= accepted'[u[2]]
                        /\ seen'[u] < accepted'[u[2]] => queue'[u[2]] # None
      BY DEF Coverage
    <3>1. CASE u = t
      <4>1. seen'[u] = accepted'[u[2]] /\ accepted'[u[2]] \in Nat
        BY <1>0, <2>1, <3>1 DEF TypeOK
      <4> QED
        BY <4>1
    <3>2. CASE u # t
      <4>1. Owns(u) /\ seen'[u] = seen[u] /\ u[2] \in Keys \ {k}
        BY <2>1, <2>2, <2>4, <3>2 DEF Tasks
      <4> QED
        BY <1>0, <2>3, <4>1 DEF Safe, Coverage
    <3> QED
      BY <3>1, <3>2
  <2>7. Debts'
    <3> SUFFICES ASSUME NEW e \in owed'
                 PROVE \/ \E u \in Tasks : /\ u[2] = e[1] /\ at'[u] = "queueKeys"
                                           /\ e[2] \in toQueue'[u]
                       \/ queue'[e[1]] # None
      BY DEF Debts
    <3>1. e \in owed /\ e[1] \in Keys \ {k}
      BY <1>2 DEF TypeOK
    <3>2. CASE queue[e[1]] # None
      BY <2>3, <3>1, <3>2
    <3>3. CASE queue[e[1]] = None
      <4>1. PICK u \in Tasks :
              u[2] = e[1] /\ at[u] = "queueKeys" /\ e[2] \in toQueue[u]
        BY <3>1, <3>3 DEF Safe, Debts
      <4>2. u # t
        BY <2>1, <4>1
      <4> QED
        BY <1>2, <2>1, <4>1, <4>2
    <3> QED
      BY <3>2, <3>3
  <2>8. NoLostWork'
    BY <1>0, <2>3 DEF Safe, NoLostWork
  <2> QED
    BY <1>0, <2>5, <2>6, <2>7, <2>8 DEF Safe, HandledBounded
<1> QED
  BY <1>1, <1>2 DEF Start

LEMMA IdleSafe ==
  ASSUME TypeOK, Safe,
         UNCHANGED <<queue, wip, at, toQueue, seen, owed, accepted, handled>>
  PROVE  Safe'
BY DEF Safe, Ownership, Coverage, Debts, HandledBounded, NoLostWork, Owns

LEMMA SafeStep == TypeOK /\ Safe /\ [Next]_vars => Safe'
<1> SUFFICES ASSUME TypeOK, Safe, [Next]_vars PROVE Safe'
  OBVIOUS
<1>1. ASSUME NEW t \in Tasks, TaskNext(t) PROVE Safe'
  BY <1>1, StartSafe, SucceedSafe, FailSafe, AskRequeueSafe, AskQueueKeysSafe,
     QueueKeySafe, QueueKeyFailsSafe, CompleteSafe DEF TaskNext
<1>2. CASE Tick
  BY <1>2, IdleSafe DEF Tick, maps, tasks, ghost
<1>3. CASE UNCHANGED vars
  BY <1>3, IdleSafe DEF vars, maps, tasks, ghost
<1> QED
  BY <1>1, <1>2, <1>3, EnqueueSafe, BeginPassSafe DEF Next

LEMMA Invariant == Spec => [](TypeOK /\ Safe)
BY TypeInit, SafeInit, TypeStep, SafeStep, PTL DEF Spec

\* The inductive invariant of the passes holds (dispatcher.go, inmem.go).
THEOREM InvariantHolds == Spec => []IInv
<1>1. TypeOK /\ Safe => IInv
  BY DEF Safe, IInv
<1> QED
  BY <1>1, Invariant, PTL

\* However many passes overlap, each key in progress has exactly one task.
THEOREM EveryKeyHasOneOwner == Spec => []OneOwner
<1>1. TypeOK /\ Safe => OneOwner
  <2> SUFFICES ASSUME TypeOK, Safe, NEW k \in Keys
               PROVE  Cardinality({p \in Passes : at[<<p, k>>] \in Owning})
                        = IF k \in wip THEN 1 ELSE 0
    BY DEF OneOwner
  <2> DEFINE owners == {p \in Passes : at[<<p, k>>] \in Owning}
  <2>1. CASE k \in wip
    <3>1. PICK t \in Tasks : Owns(t) /\ t[2] = k
      BY <2>1 DEF Safe, Ownership
    <3>2. t[1] \in Passes /\ t = <<t[1], k>>
      BY <3>1 DEF Tasks
    <3>3. t[1] \in owners
      BY <3>1, <3>2 DEF Owns
    <3>4. ASSUME NEW p \in owners PROVE p = t[1]
      <4>1. <<p, k>> \in Tasks /\ Owns(<<p, k>>)
        BY DEF Tasks, Owns
      <4>2. <<p, k>> = t
        BY <3>1, <4>1 DEF Safe, Ownership
      <4> QED
        BY <3>2, <4>2
    <3>5. owners = {t[1]}
      BY <3>3, <3>4
    <3> QED
      BY <2>1, <3>5, FS_Singleton
  <2>2. CASE k \notin wip
    <3>1. ASSUME NEW p \in owners PROVE FALSE
      <4>1. <<p, k>> \in Tasks /\ Owns(<<p, k>>)
        BY DEF Tasks, Owns
      <4> QED
        BY <2>2, <4>1 DEF Safe, Ownership
    <3>2. owners = {}
      BY <3>1
    <3> QED
      BY <2>2, <3>2, FS_EmptySet
  <2> QED
    BY <2>1, <2>2
<1> QED
  BY <1>1, Invariant, PTL

\* An accepted event that no callback has covered stays in the queue's maps.
THEOREM WorkIsNeverLost == Spec => []NoLostWork
<1>1. Safe => NoLostWork
  BY DEF Safe
<1> QED
  BY <1>1, Invariant, PTL

\* A parent never completes without the keys its callback asked to queue.
THEOREM ChildrenAreNotForgotten == Spec => []ChildrenNotForgotten
<1>1. TypeOK /\ Safe => ChildrenNotForgotten
  <2> SUFFICES ASSUME TypeOK, Safe, NEW e \in owed, queue[e[1]] = None
               PROVE  e[1] \in wip
    BY DEF ChildrenNotForgotten
  <2>1. PICK t \in Tasks : t[2] = e[1] /\ at[t] = "queueKeys"
    BY DEF Safe, Debts
  <2>2. Owns(t)
    BY <2>1 DEF Owns, Owning
  <2> QED
    BY <2>1, <2>2 DEF Safe, Ownership
<1> QED
  BY <1>1, Invariant, PTL

-----------------------------------------------------------------------------
(* The concurrency limit.                                                  *)

\* A step that only starts launched keys, or ends them, keeps to the limit.
LEMMA PacedFrame ==
  ASSUME TypeOK, Paced, UNCHANGED <<clock, nextPass>>,
         Launching' \subseteq Launching,
         wip' \subseteq wip \cup Launching
  PROVE  Paced'
<1>1. IsFiniteSet(wip \cup Launching)
  <2>1. wip \cup Launching \subseteq Keys
    BY DEF TypeOK, InMemTypeOK, Launching
  <2> QED
    BY <2>1, InMemAssumption, FS_Subset
<1>2. wip' \cup Launching' \subseteq wip \cup Launching
  OBVIOUS
<1>3. /\ Cardinality(wip' \cup Launching') <= Cardinality(wip \cup Launching)
      /\ Cardinality(wip' \cup Launching') \in Nat
      /\ Cardinality(wip \cup Launching) \in Nat
  BY <1>1, <1>2, FS_Subset, FS_CardinalityType
<1>4. Cardinality(wip' \cup Launching') <= Concurrency
  BY <1>3, DispatcherAssumption DEF Paced
<1> QED
  BY <1>4 DEF Paced

\* A task's step never adds a launch, and it starts a key only if launched.
LEMMA TaskPaced ==
  ASSUME TypeOK, Paced, NEW t \in Tasks, TaskNext(t) PROVE Paced'
<1> DEFINE k == t[2]
<1>1. k \in Keys /\ t[1] \in Passes /\ t = <<t[1], k>>
  BY DEF Tasks
<1>2. /\ UNCHANGED <<clock, nextPass>>
      /\ \A u \in Tasks : at'[u] = "start" => at[u] = "start"
      /\ wip' \subseteq wip \/ (at[t] = "start" /\ wip' = wip \cup {k})
  <2>1. CASE Start(t)
    BY <2>1 DEF Start, StartKey, Return, Goto, TypeOK, maps
  <2>2. CASE Succeed(t) \/ Complete(t)
    BY <2>2 DEF Succeed, Complete, Remove, Return, Goto, TypeOK
  <2>3. CASE Fail(t)
    BY <2>3 DEF Fail, Remove, RequeueKey, Return, Goto, TypeOK
  <2>4. CASE AskRequeue(t) \/ QueueKeyFails(t)
    BY <2>4 DEF AskRequeue, QueueKeyFails, RequeueKey, Return, Goto, TypeOK
  <2>5. CASE AskQueueKeys(t)
    BY <2>5 DEF AskQueueKeys, Goto, TypeOK, maps
  <2>6. CASE QueueKey(t)
    BY <2>6 DEF QueueKey, Queue, Goto, TypeOK
  <2> QED
    BY <2>1, <2>2, <2>3, <2>4, <2>5, <2>6 DEF TaskNext
<1>3. Launching' \subseteq Launching
  <2>1. \A p \in Passes, j \in Keys : <<p, j>> \in Tasks
    BY DEF Tasks
  <2> QED
    BY <1>2, <2>1 DEF Launching
<1>4. at[t] = "start" => k \in Launching
  BY <1>1 DEF Launching
<1> QED
  BY <1>2, <1>3, <1>4, PacedFrame

\* A pass launches no more than the slots that are free when it lists.
LEMMA BeginPassPaced ==
  ASSUME TypeOK, Paced, DispatchPeriod > 0, NEW p \in Passes, BeginPass(p)
  PROVE  Paced'
<1>1. PICK launch \in Launches :
        at' = [t \in Tasks |-> IF t[1] = p /\ t[2] \in launch THEN "start" ELSE at[t]]
  BY DEF BeginPass
<1>2. clock \in Nat /\ nextPass \in Nat /\ wip' = wip /\ wip \subseteq Keys
  BY DEF BeginPass, TypeOK, InMemTypeOK, maps
<1>3. Launching = {}
  BY <1>2 DEF BeginPass, Paced
<1>4. Launching' \subseteq launch
  <2>1. \A q \in Passes, j \in Keys : <<q, j>> \in Tasks
    BY DEF Tasks
  <2> QED
    BY <1>1, <1>3, <2>1 DEF Launching
<1>5. nextPass' > clock'
  BY <1>2, DispatcherAssumption DEF BeginPass
<1>6. PICK S \in SUBSET Keys : launch \in Front(S, LaunchLimit)
  BY DEF Launches, Listings, Front, Ready
<1>7. IsFiniteSet(wip) /\ IsFiniteSet(S) /\ IsFiniteSet(launch)
  BY <1>2, <1>6, InMemAssumption, FS_Subset DEF Front
<1>8. Cardinality(wip) \in Nat /\ Cardinality(S) \in Nat /\ Cardinality(launch) \in Nat
  BY <1>7, FS_CardinalityType
<1>9. Cardinality(wip) <= Concurrency
  BY <1>3, <1>8 DEF Paced
<1>10. LaunchLimit \in Nat /\ LaunchLimit <= Concurrency - Cardinality(wip)
  BY <1>8, <1>9, DispatcherAssumption DEF LaunchLimit, Batch, Smaller
<1>11. Cardinality(launch) <= LaunchLimit
  BY <1>6, <1>8, <1>10 DEF Front
<1>12. /\ IsFiniteSet(wip \cup launch)
       /\ Cardinality(wip \cup launch)
            = Cardinality(wip) + Cardinality(launch) - Cardinality(wip \cap launch)
  BY <1>7, FS_Union
<1>13. Cardinality(wip \cap launch) \in Nat
  BY <1>7, FS_Intersection, FS_CardinalityType
<1>14. Cardinality(wip \cup launch) <= Concurrency
  BY <1>8, <1>10, <1>11, <1>12, <1>13, DispatcherAssumption
<1>15. /\ wip' \cup Launching' \subseteq wip \cup launch
       /\ Cardinality(wip' \cup Launching') <= Cardinality(wip \cup launch)
       /\ Cardinality(wip' \cup Launching') \in Nat
       /\ Cardinality(wip \cup launch) \in Nat
  BY <1>2, <1>4, <1>12, FS_Subset, FS_CardinalityType
<1>16. Cardinality(wip' \cup Launching') <= Concurrency
  BY <1>14, <1>15, DispatcherAssumption
<1> QED
  BY <1>5, <1>16 DEF Paced

\* If triggers are rate limited and tasks start promptly, the passes together
\* keep to the concurrency that each of them is given.
THEOREM PacedPassesKeepTheCap ==
  ASSUME PromptStarts, DispatchPeriod > 0 PROVE Spec => []ConcurrencyCap
<1>1. Init => Paced
  <2> SUFFICES ASSUME Init PROVE Paced
    OBVIOUS
  <2>1. wip = {} /\ Launching = {}
    BY DEF Init, InMemInit, Launching, Tasks
  <2> QED
    BY <2>1, FS_EmptySet, DispatcherAssumption DEF Paced
<1>2. TypeOK /\ Paced /\ [Next]_vars => Paced'
  <2> SUFFICES ASSUME TypeOK, Paced, [Next]_vars PROVE Paced'
    OBVIOUS
  <2>1. ASSUME NEW k \in Keys, NEW o \in EnqueueOptions, Enqueue(k, o) PROVE Paced'
    BY <2>1 DEF Enqueue, Queue, tasks, Paced, Launching
  <2>2. CASE Tick
    <3>1. Launching = {} /\ Launching' = {} /\ wip' = wip
      BY <2>2 DEF Tick, Launching, Tasks, tasks, maps
    <3> QED
      BY <3>1 DEF Paced
  <2>3. CASE UNCHANGED vars
    BY <2>3 DEF vars, maps, tasks, Paced, Launching
  <2> QED
    BY <2>1, <2>2, <2>3, TaskPaced, BeginPassPaced DEF Next
<1>3. TypeOK /\ Paced => ConcurrencyCap
  <2> SUFFICES ASSUME TypeOK, Paced PROVE Cardinality(wip) <= Concurrency
    BY DEF ConcurrencyCap
  <2>1. wip \cup Launching \subseteq Keys /\ wip \subseteq wip \cup Launching
    BY DEF TypeOK, InMemTypeOK, Launching
  <2>2. IsFiniteSet(wip \cup Launching)
    BY <2>1, InMemAssumption, FS_Subset
  <2>3. /\ Cardinality(wip) <= Cardinality(wip \cup Launching)
        /\ Cardinality(wip) \in Nat /\ Cardinality(wip \cup Launching) \in Nat
    BY <2>1, <2>2, FS_Subset, FS_CardinalityType
  <2> QED
    BY <2>3, DispatcherAssumption DEF Paced
<1> QED
  BY <1>1, <1>2, <1>3, TypeCorrect, PTL DEF Spec

-----------------------------------------------------------------------------
(* The contract of every key.                                              *)

Mapped(k) == KeyContract(k)!Next \/ UNCHANGED KeyContract(k)!contract

LEMMA ContractInit == Init => \A k \in Keys : KeyContract(k)!Init
BY DEF Init, InMemInit, Covers, Owning, Tasks, KeyContract!Init,
       KeyContract!NoCallback

\* A step that the contract of k does not see.
LEMMA Unseen ==
  ASSUME NEW k \in Keys, accepted'[k] = accepted[k], handled'[k] = handled[k],
         (queue'[k] # None \/ k \in wip') = (queue[k] # None \/ k \in wip),
         \A p \in Passes : /\ Owns(<<p, k>>)' <=> Owns(<<p, k>>)
                           /\ Owns(<<p, k>>) => seen'[<<p, k>>] = seen[<<p, k>>]
  PROVE  Mapped(k)
<1>1. Covers(k)' = Covers(k)
  BY DEF Covers, Owns
<1> QED
  BY <1>1 DEF Mapped, KeyContract!contract

\* One more accepted event of j.
LEMMA MapsAccept ==
  ASSUME TypeOK, NEW k \in Keys, NEW j \in Keys, NEW o \in EnqueueOptions,
         Queue(j, o), accepted' = [accepted EXCEPT ![j] = @ + 1],
         UNCHANGED <<handled, seen>>,
         \A t \in Tasks : Owns(t)' <=> Owns(t)
  PROVE  Mapped(k)
<1>1. o \in Options /\ InMemTypeOK /\ \A p \in Passes : <<p, k>> \in Tasks
  BY DispatcherAssumption DEF TypeOK, Tasks
<1>2. queue'[j] # None /\ queue' = Enqueued(j, o, 0) /\ wip' = wip
  BY <1>1, EnqueuedMap DEF Queue
<1>3. CASE j = k
  <2>1. Covers(k)' = Covers(k)
    BY <1>1 DEF Covers, Owns
  <2>2. accepted'[k] = accepted[k] + 1
    BY <1>3 DEF TypeOK
  <2> QED
    BY <1>2, <1>3, <2>1, <2>2 DEF Mapped, KeyContract!Next, KeyContract!Accept
<1>4. CASE j # k
  <2>1. queue'[k] = queue[k] /\ accepted'[k] = accepted[k]
    BY <1>1, <1>2, <1>4 DEF Enqueued, InMemTypeOK, TypeOK
  <2> QED
    BY <1>1, <1>2, <2>1, Unseen
<1> QED
  BY <1>3, <1>4

\* The end of a task of another key.
LEMMA MapsOther ==
  ASSUME TypeOK, NEW t \in Tasks, NEW k \in Keys, k # t[2], Return(t),
         UNCHANGED accepted, Discharge(t) \/ UNCHANGED handled,
         queue'[k] = queue[k], wip' = wip \ {t[2]} \/ wip' = wip
  PROVE  Mapped(k)
<1>1. handled'[k] = handled[k]
  BY DEF Discharge, TypeOK
<1>2. \A p \in Passes : <<p, k>> \in Tasks /\ <<p, k>> # t
  BY DEF Tasks
<1>3. \A p \in Passes : /\ Owns(<<p, k>>)' <=> Owns(<<p, k>>)
                        /\ seen'[<<p, k>>] = seen[<<p, k>>]
  BY <1>2 DEF Return, Goto, TypeOK, Owns
<1> QED
  BY <1>1, <1>3, Unseen

\* The end of a task that owned k.
LEMMA MapsEnd ==
  ASSUME TypeOK, Safe, NEW t \in Tasks, Owns(t), Return(t), UNCHANGED accepted,
         wip' = wip \ {t[2]}, queue[t[2]] # None => queue'[t[2]] # None,
         Discharge(t) \/ (queue'[t[2]] # None /\ UNCHANGED handled)
  PROVE  Mapped(t[2])
<1> DEFINE k == t[2]
           w == t[1]
           held == queue[k] # None \/ k \in wip
           heldNext == queue'[k] # None \/ k \in wip'
<1>1. k \in Keys /\ w \in Passes /\ t = <<w, k>>
      /\ \A p \in Passes : <<p, k>> \in Tasks
  BY DEF Tasks
<1>2. /\ accepted[k] \in Nat /\ handled \in [Keys -> Nat] /\ seen[t] \in Nat
      /\ seen[t] <= accepted[k] /\ (seen[t] < accepted[k] => queue[k] # None)
      /\ k \in wip
  BY <1>1 DEF TypeOK, Safe, Coverage, Ownership
<1>3. /\ Covers(k)[w] = seen[t] /\ seen[t] # KeyContract(k)!NoCallback
      /\ Covers(k)' = [Covers(k) EXCEPT ![w] = KeyContract(k)!NoCallback]
  <2>1. Covers(k)[w] = seen[t]
    BY <1>1 DEF Covers, Owns
  <2>2. seen[t] # -1
    BY <1>2
  <2>3. \A p \in Passes : IF p = w THEN at'[<<p, k>>] = "none"
                          ELSE /\ at'[<<p, k>>] = at[<<p, k>>]
                               /\ seen'[<<p, k>>] = seen[<<p, k>>]
    BY <1>1 DEF Return, Goto, TypeOK
  <2>4. Covers(k)' = [Covers(k) EXCEPT ![w] = -1]
    BY <1>1, <2>3 DEF Covers, Owning
  <2> QED
    BY <2>1, <2>2, <2>4 DEF KeyContract!NoCallback
<1>4. /\ \/ handled'[k] = handled[k]
         \/ handled'[k] = IF handled[k] < Covers(k)[w] THEN Covers(k)[w] ELSE handled[k]
      /\ heldNext \/ accepted[k] <= handled'[k]
  <2>1. CASE Discharge(t)
    <3>1. handled'[k] = IF handled[k] < seen[t] THEN seen[t] ELSE handled[k]
      BY <1>1, <1>2, <2>1 DEF Discharge
    <3>2. heldNext \/ accepted[k] <= handled'[k]
      <4>1. CASE seen[t] < accepted[k]
        BY <1>2, <4>1
      <4>2. CASE ~(seen[t] < accepted[k])
        <5>1. handled[k] \in Nat /\ accepted[k] = seen[t]
          BY <1>1, <1>2, <4>2
        <5> QED
          BY <1>2, <3>1, <5>1
      <4> QED
        BY <4>1, <4>2
    <3> QED
      BY <1>3, <3>1, <3>2
  <2>2. CASE queue'[k] # None /\ UNCHANGED handled
    BY <2>2
  <2> QED
    BY <2>1, <2>2
<1>5. held /\ accepted'[k] = accepted[k]
  BY <1>2
<1>6. KeyContract(k)!LetGo \/ heldNext = held
  BY <1>4, <1>5 DEF KeyContract!LetGo
<1>7. KeyContract(k)!End(w)
  BY <1>3, <1>4, <1>5, <1>6 DEF KeyContract!End, KeyContract!Settled
<1> QED
  BY <1>1, <1>7 DEF Mapped, KeyContract!Next

LEMMA MapsStart ==
  ASSUME TypeOK, Safe, NEW t \in Tasks, NEW k \in Keys, Start(t) PROVE Mapped(k)
<1> DEFINE w == t[1]
<1>1. w \in Passes /\ t[2] \in Keys /\ t = <<w, t[2]>>
      /\ \A p \in Passes : <<p, k>> \in Tasks
  BY DEF Tasks
<1>2. UNCHANGED <<accepted, handled>> /\ ~Owns(t)
  BY DEF Start, Owns, Owning
<1>3. CASE Return(t) /\ UNCHANGED <<maps, owed>>
  <2>1. \A u \in Tasks : IF u = t THEN ~Owns(u)' ELSE /\ Owns(u)' <=> Owns(u)
                                                      /\ seen'[u] = seen[u]
    BY <1>3 DEF Return, Goto, TypeOK, Owns, Owning
  <2> QED
    BY <1>1, <1>2, <1>3, <2>1, Unseen DEF maps
<1>4. CASE /\ CanStart(t[2]) /\ StartKey(t[2]) /\ Goto(t, "run")
           /\ seen' = [seen EXCEPT ![t] = accepted[t[2]]]
  <2>1. \A u \in Tasks : IF u = t THEN Owns(u)' /\ seen'[u] = accepted[t[2]]
                         ELSE /\ Owns(u)' <=> Owns(u)
                              /\ seen'[u] = seen[u]
    BY <1>4 DEF Goto, TypeOK, Owns, Owning
  <2>2. CASE k # t[2]
    <3>1. queue'[k] = queue[k] /\ (k \in wip' <=> k \in wip)
      BY <1>4, <2>2 DEF StartKey, TypeOK, InMemTypeOK
    <3>2. \A p \in Passes : <<p, k>> # t
      BY <1>1, <2>2
    <3> QED
      BY <1>1, <1>2, <2>1, <3>1, <3>2, Unseen
  <2>3. CASE k = t[2]
    <3>1. queue[k] # None /\ k \in wip'
      BY <1>4, <2>3 DEF CanStart, StartKey
    <3>2. Covers(k)[w] = -1
      BY <1>1, <1>2, <2>3 DEF Covers, Owns
    <3>3. Covers(k)' = [Covers(k) EXCEPT ![w] = accepted[k]]
      <4>1. \A p \in Passes : IF p = w THEN Owns(<<p, k>>)' /\ seen'[<<p, k>>] = accepted[k]
                              ELSE /\ Owns(<<p, k>>)' <=> Owns(<<p, k>>)
                                   /\ seen'[<<p, k>>] = seen[<<p, k>>]
        BY <1>1, <2>1, <2>3
      <4> QED
        BY <1>1, <4>1 DEF Covers, Owns
    <3>4. KeyContract(k)!Begin(w)
      BY <1>2, <3>1, <3>2, <3>3 DEF KeyContract!Begin, KeyContract!NoCallback
    <3> QED
      BY <1>1, <3>4 DEF Mapped, KeyContract!Next
  <2> QED
    BY <2>2, <2>3
<1> QED
  BY <1>3, <1>4 DEF Start

\* The ends of a task: to its own key a step End, to the others nothing.
LEMMA MapsReturn ==
  ASSUME TypeOK, Safe, NEW t \in Tasks, NEW k \in Keys,
         Succeed(t) \/ Complete(t) \/ Fail(t) \/ AskRequeue(t) \/ QueueKeyFails(t)
  PROVE  Mapped(k)
<1>1. Owns(t) /\ Return(t) /\ UNCHANGED accepted
  BY DEF Succeed, Complete, Fail, AskRequeue, QueueKeyFails, Owns, Owning
<1>2. t[2] \in Keys /\ owned[t] \in Carried /\ InMemTypeOK
  BY DEF TypeOK, Tasks
<1>3. CASE Remove(t[2]) /\ Discharge(t)
  <2>1. queue' = queue /\ wip' = wip \ {t[2]}
    BY <1>3 DEF Remove
  <2> QED
    BY <1>1, <1>2, <1>3, <2>1, MapsEnd, MapsOther
<1>4. ASSUME NEW p \in Plans, RequeueKey(t[2], owned[t], p), UNCHANGED handled
      PROVE  Mapped(k)
  <2>1. queue'[t[2]] # None /\ wip' = wip \ {t[2]}
    BY <1>2, <1>4, Requeued
  <2>2. k # t[2] => queue'[k] = queue[k]
    BY <1>2, <1>4 DEF RequeueKey, Enqueued, InMemTypeOK
  <2> QED
    BY <1>1, <1>4, <2>1, <2>2, MapsEnd, MapsOther
<1>5. CASE Fail(t)
  <2>1. \A d \in FailureDelays(owned[t].attempts) : BackoffPlan(d) \in Plans
    BY <1>2, FailureDelayNat, PlansAre DEF Carried
  <2> QED
    BY <1>3, <1>4, <1>5, <2>1 DEF Fail
<1>6. CASE AskRequeue(t)
  BY <1>4, <1>6, ClampedPlan, DispatcherAssumption DEF AskRequeue
<1>7. CASE QueueKeyFails(t)
  BY <1>4, <1>7, PlansAre DEF QueueKeyFails
<1> QED
  BY <1>3, <1>5, <1>6, <1>7 DEF Succeed, Complete

LEMMA MapsTask ==
  ASSUME TypeOK, Safe, NEW t \in Tasks, NEW k \in Keys, TaskNext(t) PROVE Mapped(k)
<1>1. \A p \in Passes : <<p, k>> \in Tasks
  BY DEF Tasks
<1>2. CASE AskQueueKeys(t)
  <2>1. \A u \in Tasks : Owns(u)' <=> Owns(u)
    BY <1>2 DEF AskQueueKeys, Goto, TypeOK, Owns, Owning
  <2> QED
    BY <1>1, <1>2, <2>1, Unseen DEF AskQueueKeys, maps
<1>3. CASE QueueKey(t)
  <2>1. PICK j \in toQueue[t], o \in EnqueueOptions :
          /\ Queue(j, o) /\ accepted' = [accepted EXCEPT ![j] = @ + 1]
          /\ Goto(t, IF toQueue[t] = {j} THEN "complete" ELSE "queueKeys")
    BY <1>3 DEF QueueKey
  <2>2. j \in Keys
    BY DEF TypeOK
  <2>3. \A u \in Tasks : Owns(u)' <=> Owns(u)
    BY <1>3, <2>1 DEF QueueKey, Goto, TypeOK, Owns, Owning
  <2> QED
    BY <1>3, <2>1, <2>2, <2>3, MapsAccept DEF QueueKey
<1> QED
  BY <1>2, <1>3, MapsStart, MapsReturn DEF TaskNext

LEMMA MapsNext ==
  ASSUME TypeOK, Safe, [Next]_vars, NEW k \in Keys PROVE Mapped(k)
<1>1. \A p \in Passes : <<p, k>> \in Tasks
  BY DEF Tasks
<1>2. ASSUME NEW j \in Keys, NEW o \in EnqueueOptions, Enqueue(j, o) PROVE Mapped(k)
  BY <1>2, MapsAccept DEF Enqueue, tasks, Owns
<1>3. ASSUME NEW p \in Passes, BeginPass(p) PROVE Mapped(k)
  <2>1. PICK launch \in Launches :
          at' = [t \in Tasks |-> IF t[1] = p /\ t[2] \in launch THEN "start" ELSE at[t]]
    BY <1>3 DEF BeginPass
  <2>2. ASSUME NEW t \in Tasks, t[1] = p PROVE at[t] = "none"
    BY <1>3, <2>2 DEF BeginPass, Idle, Tasks
  <2>3. \A t \in Tasks : Owns(t)' <=> Owns(t)
    BY <2>1, <2>2 DEF Owns, Owning
  <2> QED
    BY <1>1, <1>3, <2>3, Unseen DEF BeginPass, maps, ghost
<1>4. CASE Tick
  BY <1>4, Unseen DEF Tick, maps, tasks, ghost, Owns
<1>5. CASE UNCHANGED vars
  BY <1>5, Unseen DEF vars, maps, tasks, ghost, Owns
<1> QED
  BY <1>2, <1>3, <1>4, <1>5, MapsTask DEF Next

\* The dispatcher on the in-memory queue keeps the contract of every key,
\* whatever the passes and callbacks do.
THEOREM EveryKeyKeepsTheContract == Spec => KeepsContract
<1>1. Init => \A k \in Keys : KeyContract(k)!Init
  BY ContractInit
<1>2. TypeOK /\ Safe /\ [Next]_vars =>
        [\A k \in Keys : KeyContract(k)!Next \/ UNCHANGED KeyContract(k)!contract]_vars
  BY MapsNext DEF Mapped
<1> QED
  BY <1>1, <1>2, Invariant, PTL DEF Spec, KeepsContract

-----------------------------------------------------------------------------
(* Which keys a pass launches.                                             *)

\* Cutting a list that is at least n longer than the keys it holds in vain
\* loses none of the first n of the others.
LEMMA FrontOfRest ==
  ASSUME TypeOK, NEW R \in SUBSET Keys, NEW n \in Nat, NEW L \in Front(R, Limit),
         n = 0 \/ n + Cardinality(wip) <= Limit,
         NEW F \in Front(L \ wip, n)
  PROVE  F \in Front(R \ wip, n)
<1>1. /\ L \subseteq R /\ F \subseteq L \ wip
      /\ Cardinality(L) = IF Cardinality(R) < Limit THEN Cardinality(R) ELSE Limit
      /\ \A k \in L, j \in R \ L : ~Ahead(j, k)
      /\ Cardinality(F) = IF Cardinality(L \ wip) < n THEN Cardinality(L \ wip) ELSE n
      /\ \A k \in F, j \in (L \ wip) \ F : ~Ahead(j, k)
  BY DEF Front
<1>2. /\ wip \subseteq Keys /\ Limit \in Nat
      /\ \A S \in SUBSET Keys : IsFiniteSet(S) /\ Cardinality(S) \in Nat
  BY InMemAssumption, FS_Subset, FS_CardinalityType DEF TypeOK, InMemTypeOK
<1>3. Cardinality(F) = IF Cardinality(R \ wip) < n THEN Cardinality(R \ wip) ELSE n
  <2>1. CASE Cardinality(R) < Limit
    <3>1. L = R
      BY <1>1, <1>2, <2>1, FS_Subset
    <3> QED
      BY <1>1, <3>1
  <2>2. CASE ~(Cardinality(R) < Limit)
    <3>1. Cardinality(L \ wip) = Limit - Cardinality(L \cap wip)
      BY <1>1, <1>2, <2>2, FS_Difference
    <3>2. Cardinality(L \cap wip) <= Cardinality(wip)
      BY <1>2, FS_Subset
    <3>3. /\ Cardinality(L \cap wip) \in Nat /\ Cardinality(wip) \in Nat
          /\ Cardinality(L \ wip) \in Nat /\ Cardinality(R \ wip) \in Nat
      <4>1. L \cap wip \subseteq Keys /\ L \ wip \subseteq Keys /\ R \ wip \subseteq Keys
        BY <1>1
      <4> QED
        BY <1>2, <4>1
    <3>4. n <= Cardinality(L \ wip)
      BY <1>2, <3>1, <3>2, <3>3
    <3>5. Cardinality(L \ wip) <= Cardinality(R \ wip)
      <4>1. L \ wip \subseteq R \ wip /\ IsFiniteSet(R \ wip)
        BY <1>1, <1>2
      <4> QED
        BY <4>1, FS_Subset
    <3> QED
      BY <1>1, <3>3, <3>4, <3>5
  <2> QED
    BY <2>1, <2>2
<1>4. \A k \in F, j \in (R \ wip) \ F : ~Ahead(j, k)
  BY <1>1
<1> QED
  BY <1>1, <1>3, <1>4 DEF Front

\* If Enumerate lists at least as many keys as may be in progress, its cut never
\* makes a pass leave a slot empty or launch a worse key.
THEOREM BestKeysAreLaunched == ASSUME Concurrency <= Limit PROVE Spec => BestReady
<1>1. ASSUME TypeOK, NEW p \in Passes, BeginPass(p)
      PROVE  Launched(p) \in Front(Ready \ wip, LaunchLimit)
  <2>1. PICK launch \in Launches :
          at' = [t \in Tasks |->
                   IF t[1] = p /\ t[2] \in launch THEN "start" ELSE at[t]]
    BY <1>1 DEF BeginPass
  <2>2. PICK listing \in Front(Ready, Limit) : launch \in Front(listing \ wip, LaunchLimit)
    BY DEF Launches, Listings
  <2>3. launch \subseteq Keys
    BY <2>2 DEF Front, Ready
  <2>4. Launched(p) = launch
    <3>1. \A k \in Keys : /\ <<p, k>> \in Tasks /\ at[<<p, k>>] = "none"
      BY <1>1 DEF BeginPass, Idle, Tasks
    <3>2. \A k \in Keys : at'[<<p, k>>] = IF k \in launch THEN "start" ELSE "none"
      BY <2>1, <3>1
    <3> QED
      BY <2>3, <3>1, <3>2 DEF Launched
  <2>5. Cardinality(wip) \in Nat
    <3>1. IsFiniteSet(wip)
      BY <1>1, InMemAssumption, FS_Subset DEF TypeOK, InMemTypeOK
    <3> QED
      BY <3>1, FS_CardinalityType
  <2>6. /\ LaunchLimit \in Nat
        /\ LaunchLimit = 0 \/ LaunchLimit + Cardinality(wip) <= Limit
    BY <2>5, DispatcherAssumption, InMemAssumption DEF LaunchLimit, Batch, Smaller
  <2>7. Ready \in SUBSET Keys
    BY DEF Ready
  <2> QED
    BY <1>1, <2>2, <2>4, <2>6, <2>7, FrontOfRest
<1>2. TypeOK /\ [Next]_vars =>
        [\A p \in Passes :
           BeginPass(p) => Launched(p) \in Front(Ready \ wip, LaunchLimit)]_vars
  BY <1>1
<1> QED
  BY <1>2, TypeCorrect, PTL DEF Spec, BestReady

=============================================================================

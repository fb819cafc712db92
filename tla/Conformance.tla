----------------------------- MODULE Conformance -----------------------------
(***************************************************************************)
(* The repository's own conformance tests of a workqueue                   *)
(* (src/workqueue/conformance/conformance.go), run on the in-memory queue  *)
(* of InMemQueue: every scenario as a script, drained at its end.  A call  *)
(* takes a tick; a sleep takes its time, or a tick more.                   *)
(***************************************************************************)
EXTENDS Integers, Sequences

delay       == 10      \* BackoffPeriod, and longer than the calls between two sleeps
concurrency == 2
TestKeys    == {"foo", "bar", "baz"}

\* The times that the tests sleep and the priorities that they give.
twice  == 2 * delay
thrice == 3 * delay
long   == 10 * delay
low    == 1
some   == 100
high   == 1000
higher == 1001

NoItem == [prio |-> -1, nb |-> 0, floor |-> FALSE, attempts |-> 0, ts |-> 0]

VARIABLES
  script,      \* what is left of the scenario
  testQueue, testWip, testClock,   \* the queue's maps, and the time
  inHand,        \* the owned key: its name, priority and attempts
  drained      \* whether the queue reported itself empty at the end

Q == INSTANCE InMemQueue WITH
       Keys <- TestKeys, None <- NoItem, Limit <- concurrency,
       BackoffPeriod <- delay, MaximumBackoffPeriod <- 2 * delay,
       queue <- testQueue, wip <- testWip, clock <- testClock

conformanceVars == <<script, testQueue, testWip, testClock, inHand, drained>>

-----------------------------------------------------------------------------
(* The steps of a script.                                                  *)

Queues(k, p, after, floored) ==
  [op |-> "queue", key |-> k, prio |-> p, after |-> after, floor |-> floored]
Add(k)        == Queues(k, 0, 0, FALSE)
AddAt(k, p)   == Queues(k, p, 0, FALSE)
LaterAt(k, p, d) == Queues(k, p, d, FALSE)
Later(k, d)   == LaterAt(k, 0, d)
Floored(k, d) == Queues(k, 0, d, TRUE)

Shows(W, s)  == [op |-> "check", wip |-> W, queued |-> s]
Lists(s)     == Shows({}, s)
WithFoo(s)   == Shows({"foo"}, s)   \* "foo" is in progress
Hidden       == Lists(<<>>)
Began(k)     == [op |-> "start", key |-> k]
Back(plan)   == [op |-> "requeue", plan |-> plan]
Gone         == [op |-> "remove"]      \* Complete, and Deadletter
Sleep(d)     == [op |-> "sleep", time |-> d]
AttemptIs(n)   == [op |-> "attempts", count |-> n]
Is(k, s, p)  == [op |-> "get", key |-> k, status |-> s, prio |-> p]

BareRequeue == Back(Q!PlainPlan)
Delayed(d)  == Back(Q!DelayPlan(d, FALSE))
ToFloor(d)  == Back(Q!DelayPlan(d, TRUE))
BackedOff(d)  == Back(Q!BackoffPlan(d))

Foo == <<"foo">>
Bar == <<"bar">>
FooBar == <<"foo", "bar">>
BarFoo == <<"bar", "foo">>

FooBusy      == WithFoo(<<>>)
Moment       == Sleep(1)
Attempt1     == AttemptIs(1)
Attempt2     == AttemptIs(2)
Attempt3     == AttemptIs(3)
Absent       == Is("foo", "not found", 0)
QueuedAtSome == Is("foo", "queued", some)
InProgress   == Is("foo", "in progress", 0)

-----------------------------------------------------------------------------
(* TestSemantics.                                                          *)

SimpleQueueOrdering == <<Add("foo"), Lists(Foo), Moment, Add("bar"), Lists(FooBar)>>

MoreThanConcurrency ==
  <<Moment, Add("foo"), Moment, Add("bar"), Moment, Add("baz"), Lists(FooBar)>>

SimpleDeduplication == <<Add("foo"), Lists(Foo), Add("foo"), Lists(Foo)>>

PriorityOrdering ==
  <<Add("foo"), Lists(Foo), Moment, Add("bar"), Lists(FooBar),
    AddAt("bar", high), Lists(BarFoo), AddAt("foo", high), Lists(FooBar),
    AddAt("bar", higher), Lists(BarFoo)>>

StartAndComplete ==
  <<Add("foo"), Lists(Foo), Began("foo"), FooBusy, Sleep(twice), Gone, Hidden>>

StartAndRequeue ==
  <<Add("foo"), Moment, Add("bar"), Lists(FooBar), Began("foo"), WithFoo(Bar),
    BareRequeue, Lists(BarFoo)>>

StartAndQueue ==
  <<Add("foo"), Lists(Foo), Began("foo"), Add("foo"), WithFoo(Foo)>>

RequeueWithPriority ==
  <<AddAt("foo", high), Moment, Add("bar"), Lists(FooBar), Began("foo"), BareRequeue,
    Lists(Bar), Sleep(delay), Lists(FooBar)>>

SimpleNotBefore ==
  <<Later("foo", delay), Hidden, Sleep(delay), Lists(Foo), Later("foo", delay), Lists(Foo)>>

NotBeforeWithPriorities ==
  <<Add("foo"), Lists(Foo), LaterAt("bar", high, delay), Lists(Foo), Sleep(delay),
    Lists(BarFoo)>>

EarliestNotBeforeWins ==
  <<Later("foo", long), Hidden, Later("foo", delay), Hidden, Sleep(delay), Lists(Foo)>>

NotBeforeIsAFloor ==
  <<Add("foo"), Lists(Foo), Began("foo"), FooBusy, ToFloor(delay), Hidden,
    Add("foo"), Hidden, Sleep(delay), Lists(Foo)>>

QueueWithFloor ==
  <<Floored("foo", delay), Hidden, Add("foo"), Hidden, Sleep(delay), Lists(Foo)>>

LaterFloorExtends ==
  <<Floored("foo", delay), Hidden, Floored("foo", thrice), Sleep(delay), Hidden,
    Sleep(thrice), Lists(Foo)>>

PlainRequeueClearsFloor ==
  <<Add("foo"), Lists(Foo), Began("foo"), ToFloor(delay), Hidden, Sleep(delay), Lists(Foo),
    Began("foo"), Delayed(delay), Hidden, Add("foo"), Lists(Foo)>>

FloorReplaces ==
  <<Later("foo", thrice), Hidden, Floored("foo", delay), Hidden, Add("foo"), Hidden,
    Sleep(delay), Lists(Foo)>>

FloorReplacesOnRequeue ==
  <<AddAt("foo", low), Lists(Foo), Began("foo"), Later("foo", thrice), ToFloor(delay), Hidden,
    Sleep(delay), Lists(Foo)>>

RequeueHasBackoff ==
  <<AddAt("foo", high), Lists(Foo), Began("foo"), FooBusy, BareRequeue, Hidden,
    Sleep(delay), Lists(Foo), Began("foo"), FooBusy, BareRequeue, Hidden,
    Sleep(delay), Hidden, Sleep(delay), Lists(Foo), Began("foo"), FooBusy,
    BareRequeue, Hidden, Sleep(twice), Lists(Foo)>>

GetKeyStates ==
  <<Absent, AddAt("foo", some), QueuedAtSome, Lists(Foo),
    Began("foo"), InProgress, Gone, Absent>>

QueuedAndInProgress ==
  <<AddAt("foo", some), Lists(Foo), Began("foo"), AddAt("foo", some), WithFoo(Foo),
    InProgress, Gone, Lists(Foo)>>

-----------------------------------------------------------------------------
(* TestBackoffDelay and TestMaxRetry.                                      *)

BackoffDefers ==
  <<Add("foo"), Lists(Foo), Began("foo"), FooBusy, BackedOff(delay), Hidden,
    Sleep(twice), Lists(Foo)>>

BackoffPreservesAttempts ==
  <<AddAt("foo", high), Lists(Foo), Began("foo"), Attempt1, BareRequeue, Sleep(twice),
    Lists(Foo), Began("foo"), Attempt2, BackedOff(delay), Hidden, Sleep(twice), Lists(Foo),
    Began("foo"), Attempt3, Gone, Hidden>>

MaxRetryLimit ==
  <<AddAt("foo", high), Lists(Foo), Began("foo"), FooBusy, Attempt1, BareRequeue,
    Hidden, Sleep(delay), Lists(Foo), Began("foo"), FooBusy, Attempt2, Gone,
    Hidden, Sleep(twice), Hidden>>

Scenarios ==
  {SimpleQueueOrdering, MoreThanConcurrency, SimpleDeduplication, PriorityOrdering,
   StartAndComplete, StartAndRequeue, StartAndQueue, RequeueWithPriority, SimpleNotBefore,
   NotBeforeWithPriorities, EarliestNotBeforeWins, NotBeforeIsAFloor, QueueWithFloor,
   LaterFloorExtends, PlainRequeueClearsFloor, FloorReplaces, FloorReplacesOnRequeue,
   RequeueHasBackoff, GetKeyStates, QueuedAndInProgress, BackoffDefers,
   BackoffPreservesAttempts, MaxRetryLimit}

-----------------------------------------------------------------------------
(* The test runs.                                                          *)

NobodyHeld == [key |-> "none", prio |-> 0, attempts |-> 0]

ConformanceInit ==
  /\ script \in Scenarios
  /\ testQueue = [k \in TestKeys |-> NoItem] /\ testWip = {} /\ testClock = 1
  /\ inHand = NobodyHeld /\ drained = FALSE

Upcoming(op) == script # <<>> /\ Head(script).op = op

\* A call to the queue is made, and takes a tick.
TestCalls(op) ==
  /\ Upcoming(op) /\ script' = Tail(script)
  /\ testClock' = testClock + 1 /\ UNCHANGED drained

TestQueues ==
  /\ TestCalls("queue") /\ UNCHANGED inHand
  /\ LET s == Head(script) IN
     Q!Queue(s.key, [prio |-> s.prio, floor |-> s.floor,
                     nb |-> IF s.after = 0 THEN 0 ELSE testClock + s.after])

\* Start gives the caller the entry it was listed with, one attempt on.
TestStarts ==
  /\ TestCalls("start")
  /\ LET k == Head(script).key IN
     /\ Q!CanStart(k) /\ Q!StartKey(k)
     /\ inHand' = [key |-> k, prio |-> testQueue[k].prio, attempts |-> testQueue[k].attempts + 1]

TestRequeues ==
  /\ TestCalls("requeue") /\ Q!RequeueKey(inHand.key, inHand, Head(script).plan)
  /\ UNCHANGED inHand

TestRemoves == TestCalls("remove") /\ Q!Remove(inHand.key) /\ UNCHANGED inHand

\* checkQueue, Get and GetAttempts look without changing anything.
TestLooks ==
  /\ \E op \in {"check", "get", "attempts"} : TestCalls(op)
  /\ UNCHANGED <<testQueue, testWip, inHand>>

TestSleeps ==
  /\ Upcoming("sleep") /\ script' = Tail(script)
  /\ \E late \in 0 .. 1 : testClock' = testClock + Head(script).time + late
  /\ UNCHANGED <<testQueue, testWip, inHand, drained>>

\* One round of drain: whatever is in progress is requeued, by an observer who
\* knows neither its priority nor its attempts, and what was listed before is
\* started and completed.
TestDrains ==
  /\ script = <<>> /\ ~drained
  /\ \E L \in Q!Listings :
       /\ drained' = (L = {} /\ testWip = {})
       /\ testWip' = {}
       /\ testQueue' = [k \in TestKeys |->
            IF k \in L THEN NoItem
            ELSE IF k \in testWip
              THEN Q!Enqueued(k, Q!Returned(NobodyHeld, Q!PlainPlan), 0)[k]
            ELSE testQueue[k]]
  /\ UNCHANGED <<script, testClock, inHand>>

ConformanceNext ==
  \/ TestQueues \/ TestStarts \/ TestRequeues \/ TestRemoves
  \/ TestLooks \/ TestSleeps \/ TestDrains

ConformanceTypeOK == Q!InMemTypeOK /\ drained \in BOOLEAN

-----------------------------------------------------------------------------
(* What the tests assert.                                                  *)

\* The list is exactly the sequence s, however equals are ordered.
MustList(s) ==
  LET listed == {s[i] : i \in DOMAIN s} IN
  /\ Q!Listings = {listed}
  /\ \A i, j \in DOMAIN s : i < j => Q!Ahead(s[i], s[j])

\* Get: in progress takes precedence over queued.
StatusOf(k) ==
  IF k \in testWip THEN "in progress"
  ELSE IF testQueue[k] # NoItem THEN "queued" ELSE "not found"

\* The next assertion of the scenario holds, and a scenario leaves nothing in the
\* queue once it was drained, listed or not ("a durable queue will bleed across
\* tests", conformance.go:70-71).
Conforms ==
  /\ Upcoming("check") => LET s == Head(script) IN testWip = s.wip /\ MustList(s.queued)
  /\ Upcoming("attempts") => inHand.attempts = Head(script).count
  /\ Upcoming("get") =>
       LET s == Head(script) IN
       /\ StatusOf(s.key) = s.status
       /\ s.status = "queued" => testQueue[s.key].prio = s.prio
  /\ Upcoming("start") => Q!CanStart(Head(script).key)
  /\ drained => testWip = {} /\ \A k \in TestKeys : testQueue[k] = NoItem

=============================================================================

--------------------------- MODULE Service_proofs ---------------------------
(***************************************************************************)
(* Proofs about the parts of a service, each for itself first: enqueues    *)
(* that meet in both queues, the drain of a shutdown, the heartbeat of a   *)
(* lease, the circuit breaker, what becomes of an outcome, the clones, the *)
(* branches, the resync and the tests of a queue.  The sections after them *)
(* lift the results to behaviours of a service.  What reconciles share     *)
(* beside the clones is in Shared_proofs.                                  *)
(***************************************************************************)
EXTENDS Service, Shared_proofs

-----------------------------------------------------------------------------
(***************************************************************************)
(* Proofs about Dedup, for every set of enqueues.                          *)
(***************************************************************************)

LEMMA PriorityNat == ASSUME NEW p \in Priority PROVE p \in Nat
BY DEF Priority

\* What is held is well formed.
WellFormed == arrived \subseteq Options /\ entry \in Options

LEMMA MergedOptions ==
  ASSUME NEW e \in Options, NEW o \in Options PROVE MergeOptions(e, o) \in Options
BY DEF MergeOptions, MergeNotBefore, Options

LEMMA WellFormedAlways == DedupSpec => []WellFormed
<1>1. DedupInit => WellFormed
  BY DedupAssumption DEF DedupInit, WellFormed
<1>2. WellFormed /\ [DedupNext]_dedupVars => WellFormed'
  BY DedupAssumption, MergedOptions DEF WellFormed, DedupNext, Arrive, dedupVars
<1> QED
  BY <1>1, <1>2, PTL DEF DedupSpec

\* One enqueue is its own summary.
LEMMA OneSummarised == ASSUME NEW o \in Options PROVE Summarises(o, {o})
<1>1. o.prio \in Nat /\ o.nb \in Nat /\ o.floor \in BOOLEAN
  BY PriorityNat DEF Options
<1>2. Deciding({o}) = {o}
  BY DEF Deciding
<1>3. o.floor = \E x \in {o} : x.floor
  BY <1>1
<1> QED
  BY <1>1, <1>2, <1>3 DEF Summarises

\* The heart of it: merging one more enqueue into a summary summarises the lot.
LEMMA MergeSummarises ==
  ASSUME NEW A \in SUBSET Options, NEW e \in Options, NEW o \in Options,
         Summarises(e, A)
  PROVE  Summarises(MergeOptions(e, o), A \cup {o})
<1> DEFINE m == MergeOptions(e, o)
           B == A \cup {o}
<1>1. /\ \A x \in B : x.prio \in Nat /\ x.nb \in Nat /\ x.floor \in BOOLEAN
      /\ o \in B /\ o.prio \in Nat /\ o.nb \in Nat /\ o.floor \in BOOLEAN
      /\ e.prio \in Nat /\ e.nb \in Nat /\ e.floor \in BOOLEAN
  BY PriorityNat DEF Options
<1>2. /\ m.prio = IF e.prio < o.prio THEN o.prio ELSE e.prio
      /\ m.nb = MergeNotBefore(e, o)
      /\ m.floor = (e.floor \/ o.floor)
  BY DEF MergeOptions
<1>3. (\E x \in B : x.prio = m.prio) /\ \A x \in B : x.prio <= m.prio
  BY <1>1, <1>2 DEF Summarises
<1>4. m.floor = \E x \in B : x.floor
  BY <1>1, <1>2 DEF Summarises
<1>5. /\ \E x \in Deciding(B) : x.nb = m.nb
      /\ \A x \in Deciding(B) : IF m.floor THEN x.nb <= m.nb ELSE m.nb <= x.nb
  <2>1. /\ \E x \in Deciding(A) : x.nb = e.nb
        /\ \A x \in Deciding(A) : IF e.floor THEN x.nb <= e.nb ELSE e.nb <= x.nb
        /\ Deciding(A) \subseteq A
    BY DEF Summarises, Deciding
  <2>2. CASE e.floor /\ o.floor
    <3>1. Deciding(B) = Deciding(A) \cup {o}
      BY <2>2 DEF Deciding, Summarises
    <3>2. m.floor /\ m.nb = IF e.nb < o.nb THEN o.nb ELSE e.nb
      BY <1>2, <2>2 DEF MergeNotBefore
    <3>3. \A x \in Deciding(A) : x.nb <= e.nb /\ x.nb \in Nat
      BY <1>1, <2>1, <2>2
    <3> HIDE DEF m
    <3>4. \E x \in Deciding(B) : x.nb = m.nb
      <4>1. CASE e.nb < o.nb
        <5>1. o \in Deciding(B) /\ o.nb = m.nb
          BY <4>1, <3>1, <3>2
        <5> QED
          BY <5>1
      <4>2. CASE ~(e.nb < o.nb)
        <5>1. PICK x \in Deciding(A) : x.nb = e.nb
          BY <2>1
        <5>2. x \in Deciding(B) /\ x.nb = m.nb
          BY <4>2, <5>1, <3>1, <3>2
        <5> QED
          BY <5>2
      <4> QED
        BY <4>1, <4>2
    <3>5. \A x \in Deciding(B) : x.nb <= m.nb
      BY <1>1, <3>1, <3>2, <3>3
    <3> QED
      BY <3>2, <3>4, <3>5
  <2>3. CASE ~e.floor /\ o.floor
    <3>1. Deciding(B) = {o}
      BY <1>1, <2>3 DEF Deciding, Summarises
    <3>2. m.floor /\ m.nb = o.nb
      BY <1>2, <2>3 DEF MergeNotBefore
    <3> HIDE DEF m
    <3>3. \E x \in Deciding(B) : x.nb = m.nb
      BY <3>1, <3>2
    <3>4. \A x \in Deciding(B) : x.nb <= m.nb
      BY <1>1, <3>1, <3>2
    <3> QED
      BY <3>2, <3>3, <3>4
  <2>4. CASE e.floor /\ ~o.floor
    <3>1. Deciding(B) = Deciding(A)
      BY <2>4 DEF Deciding, Summarises
    <3>2. m.floor /\ m.nb = e.nb
      BY <1>2, <2>4 DEF MergeNotBefore
    <3> HIDE DEF m
    <3> QED
      BY <2>1, <2>4, <3>1, <3>2
  <2>5. CASE ~e.floor /\ ~o.floor
    <3>1. Deciding(A) = A /\ Deciding(B) = A \cup {o}
      BY <1>1, <2>5 DEF Deciding, Summarises
    <3>2. ~m.floor /\ m.nb = IF e.nb > o.nb THEN o.nb ELSE e.nb
      BY <1>2, <2>5 DEF MergeNotBefore
    <3>3. \A x \in A : e.nb <= x.nb /\ x.nb \in Nat
      BY <1>1, <2>1, <2>5, <3>1
    <3>4. \E x \in A : x.nb = e.nb
      BY <2>1, <3>1
    <3> HIDE DEF m
    <3> QED
      BY <1>1, <3>1, <3>2, <3>3, <3>4
  <2> QED
    BY <1>1, <2>2, <2>3, <2>4, <2>5
<1> QED
  BY <1>3, <1>4, <1>5 DEF Summarises

\* Whatever is enqueued in whatever order, the in-memory entry is what all the
\* enqueues come to when they are looked at together.
THEOREM OrderIsIrrelevant == DedupSpec => []EntrySummarises
<1>1. DedupInit => EntrySummarises
  BY DedupAssumption, OneSummarised DEF DedupInit, EntrySummarises
<1>2. WellFormed /\ EntrySummarises /\ [DedupNext]_dedupVars => EntrySummarises'
  <2> SUFFICES ASSUME WellFormed, EntrySummarises, [DedupNext]_dedupVars
               PROVE  EntrySummarises'
    OBVIOUS
  <2>1. ASSUME NEW o \in Enqueues, Arrive(o) PROVE EntrySummarises'
    BY <2>1, DedupAssumption, MergeSummarises
       DEF Arrive, EntrySummarises, WellFormed
  <2>2. CASE UNCHANGED dedupVars
    BY <2>2 DEF dedupVars, EntrySummarises
  <2> QED
    BY <2>1, <2>2 DEF DedupNext
<1> QED
  BY <1>1, <1>2, WellFormedAlways, PTL DEF DedupSpec

-----------------------------------------------------------------------------
(* The bucket's text.                                                      *)

LEMMA PaddedOrder ==
  ASSUME NEW a \in Priority, NEW b \in Priority
  PROVE  TextLess(Padded(a), Padded(b)) <=> a < b
BY DEF TextLess, Padded

\* While every priority on the bucket is zero-padded, its object says the same
\* as the in-memory entry.
THEOREM TextAgrees == ASSUME Revisited = {} PROVE DedupSpec => []ObjectAgrees
<1>1. DedupInit => ObjectAgrees
  BY DEF DedupInit, ObjectAgrees, Written
<1>2. WellFormed /\ ObjectAgrees /\ [DedupNext]_dedupVars => ObjectAgrees'
  <2> SUFFICES ASSUME WellFormed, ObjectAgrees, [DedupNext]_dedupVars PROVE ObjectAgrees'
    OBVIOUS
  <2>1. ASSUME NEW o \in Enqueues, Arrive(o) PROVE ObjectAgrees'
    <3> DEFINE w == Written(o)
               merged == MergeMetadata(object, w)
    <3>1. /\ o \in Options /\ entry \in Options
          /\ o.prio \in Priority /\ entry.prio \in Priority
          /\ o.floor \in BOOLEAN /\ entry.floor \in BOOLEAN
      BY DedupAssumption DEF WellFormed, Options
    <3>2. w.prio = Padded(o.prio) /\ w.nb = o.nb /\ w.floor = o.floor
      BY DEF Written
    <3>3. merged.prio = Padded(IF entry.prio < o.prio THEN o.prio ELSE entry.prio)
      BY <3>1, <3>2, PaddedOrder DEF MergeMetadata, ObjectAgrees
    <3>4. merged.nb = MergeNotBefore(entry, o) /\ merged.floor = (entry.floor \/ o.floor)
      BY <3>2 DEF MergeMetadata, MergeNotBefore, ObjectAgrees
    <3>5. /\ object'.prio = merged.prio /\ object'.nb = merged.nb
          /\ object'.floor = (object.floor \/ merged.floor)
      BY <2>1 DEF Arrive, PatchMetadata
    <3>6. /\ entry'.prio = IF entry.prio < o.prio THEN o.prio ELSE entry.prio
          /\ entry'.nb = MergeNotBefore(entry, o)
          /\ entry'.floor = (entry.floor \/ o.floor)
      BY <2>1 DEF Arrive, MergeOptions
    <3> QED
      BY <3>1, <3>3, <3>4, <3>5, <3>6 DEF ObjectAgrees
  <2>2. CASE UNCHANGED dedupVars
    BY <2>2 DEF dedupVars, ObjectAgrees
  <2> QED
    BY <2>1, <2>2 DEF DedupNext
<1> QED
  BY <1>1, <1>2, WellFormedAlways, PTL DEF DedupSpec

\* Both queues summarise the enqueues of a key, and agree (inmem.go, gcs.go).
THEOREM EnqueuesMerge == ASSUME Revisited = {} PROVE DedupSpec => []EnqueuesAgree
<1>1. EntrySummarises /\ ObjectAgrees => EnqueuesAgree
  BY DEF EnqueuesAgree
<1> QED BY <1>1, OrderIsIrrelevant, TextAgrees, PTL

-----------------------------------------------------------------------------
(***************************************************************************)
(* Proofs about Drain, for any number of calls, any backstop and any grace *)
(* that is longer.                                                         *)
(***************************************************************************)

\* No time passes while a call has still to arrive at its handler or at its
\* backstop, so every backstop has been running for as long as the grace has.
ClocksAgree ==
  /\ ~draining => grace = Grace
  /\ \A c \in Calls :
       /\ stage[c] \in {"arrived", "select"} => grace = Grace
       /\ stage[c] = "backstop" => draining /\ timer[c] + Grace = DrainBackstop + grace
       /\ stage[c] \in {"new", "arrived", "select"} => timer[c] = DrainBackstop

\* What an answer says of its call.
AnswersExplained ==
  \A c \in Calls :
    /\ stage[c] \in {"new", "arrived", "select", "backstop"} => answer[c] \in {"none", "severed"}
    /\ stage[c] \in {"new", "arrived"} => handler[c] = "none"
    /\ answer[c] \in {"ok", "error"} => handler[c] = answer[c]
    /\ answer[c] = "requeue" /\ handler[c] \in {"running", "ok"} => timer[c] = 0
    /\ excuse[c] = "draining" => cause[c] = "draining"

DrainIInv ==
  /\ DrainTypeOK /\ ClocksAgree /\ AnswersExplained
  /\ AnsweredInTime /\ ShutdownIsFree

LEMMA DrainInitInv == DrainInit => DrainIInv
<1> SUFFICES ASSUME DrainInit PROVE DrainIInv
  OBVIOUS
<1> USE DrainAssumption DEF DrainInit
<1>1. DrainTypeOK
  <2>1. draining \in BOOLEAN /\ alive \in BOOLEAN
    BY Zenon
  <2>2. grace \in 0 .. Grace
    OBVIOUS
  <2>3. timer \in [Calls -> 0 .. DrainBackstop]
    OBVIOUS
  <2> QED BY <2>1, <2>2, <2>3 DEF DrainTypeOK
<1>2. ClocksAgree
  BY DEF ClocksAgree
<1>3. AnswersExplained
  BY DEF AnswersExplained
<1>4. AnsweredInTime /\ ShutdownIsFree
  BY DEF AnsweredInTime, ShutdownIsFree
<1> QED BY <1>1, <1>2, <1>3, <1>4 DEF DrainIInv

-----------------------------------------------------------------------------
(* One lemma per action.                                                   *)

\* An answer is given by an interceptor that has not given one.
LEMMA CallArrivesInv ==
  ASSUME DrainIInv, NEW c \in Calls, CallArrives(c) PROVE DrainIInv'
<1> USE DrainAssumption DEF DrainIInv, CallArrives, AnswerCall
<1>1. DrainTypeOK'
  BY DEF DrainTypeOK
<1>2. ClocksAgree'
  BY DEF DrainTypeOK, ClocksAgree
<1>3. AnswersExplained'
  BY DEF DrainTypeOK, AnswersExplained
<1>4. AnsweredInTime'
  BY DEF DrainTypeOK, AnsweredInTime
<1>5. ShutdownIsFree'
  BY DEF DrainTypeOK, ShutdownIsFree
<1> QED BY <1>1, <1>2, <1>3, <1>4, <1>5

LEMMA BeginInv ==
  ASSUME DrainIInv, NEW c \in Calls, Begin(c) PROVE DrainIInv'
<1> USE DrainAssumption DEF DrainIInv, Begin
<1>1. DrainTypeOK'
  BY DEF DrainTypeOK
<1>2. ClocksAgree'
  BY DEF DrainTypeOK, ClocksAgree
<1>3. AnswersExplained'
  BY DEF DrainTypeOK, AnswersExplained
<1>4. AnsweredInTime'
  BY DEF DrainTypeOK, AnsweredInTime
<1>5. ShutdownIsFree'
  BY DEF DrainTypeOK, ShutdownIsFree
<1> QED BY <1>1, <1>2, <1>3, <1>4, <1>5

LEMMA SelectInv ==
  ASSUME DrainIInv, NEW c \in Calls, Select(c) PROVE DrainIInv'
<1> USE DrainAssumption DEF DrainIInv, Select, finish, AnswerCall, Returned
<1>1. DrainTypeOK'
  BY DEF DrainTypeOK
<1>2. ClocksAgree'
  BY DEF DrainTypeOK, ClocksAgree
<1>3. AnswersExplained'
  BY DEF DrainTypeOK, AnswersExplained
<1>4. AnsweredInTime'
  BY DEF DrainTypeOK, AnsweredInTime
<1>5. ShutdownIsFree'
  BY DEF DrainTypeOK, AnswersExplained, ShutdownIsFree
<1> QED BY <1>1, <1>2, <1>3, <1>4, <1>5

LEMMA BackstopInv ==
  ASSUME DrainIInv, NEW c \in Calls, Backstop(c) PROVE DrainIInv'
<1> USE DrainAssumption DEF DrainIInv, Backstop, finish, AnswerCall, Returned
<1>1. DrainTypeOK'
  BY DEF DrainTypeOK
<1>2. ClocksAgree'
  BY DEF DrainTypeOK, ClocksAgree
<1>3. AnswersExplained'
  BY DEF DrainTypeOK, AnswersExplained
<1>4. AnsweredInTime'
  BY DEF DrainTypeOK, AnsweredInTime
<1>5. ShutdownIsFree'
  BY DEF DrainTypeOK, AnswersExplained, ShutdownIsFree
<1> QED BY <1>1, <1>2, <1>3, <1>4, <1>5

\* The cause of a cancellation is set once, and stays what an earlier failure
\* found it to be.
LEMMA CancelCallInv ==
  ASSUME DrainIInv, NEW c \in Calls, NEW why \in {"draining", "client"}, CancelCall(c, why)
  PROVE  DrainIInv'
<1> USE DrainAssumption DEF DrainIInv, CancelCall
<1>1. DrainTypeOK'
  BY DEF DrainTypeOK
<1>2. ClocksAgree'
  BY DEF DrainTypeOK, ClocksAgree
<1>3. AnswersExplained'
  BY DEF DrainTypeOK, AnswersExplained
<1>4. AnsweredInTime'
  BY DEF DrainTypeOK, AnsweredInTime
<1>5. ShutdownIsFree'
  BY DEF DrainTypeOK, ShutdownIsFree
<1> QED BY <1>1, <1>2, <1>3, <1>4, <1>5

\* A handler that ends after its call was answered found its backstop run out.
LEMMA HandlerEndsInv ==
  ASSUME DrainIInv, NEW c \in Calls, HandlerEnds(c) PROVE DrainIInv'
<1> USE DrainAssumption DEF DrainIInv, HandlerEnds
<1>1. DrainTypeOK'
  BY DEF DrainTypeOK
<1>2. ClocksAgree'
  BY DEF DrainTypeOK, ClocksAgree
<1>3. AnswersExplained'
  BY DEF DrainTypeOK, AnswersExplained
<1>4. AnsweredInTime'
  BY DEF DrainTypeOK, AnsweredInTime
<1>5. ShutdownIsFree'
  BY DEF DrainTypeOK, AnswersExplained, ShutdownIsFree
<1> QED BY <1>1, <1>2, <1>3, <1>4, <1>5

LEMMA TerminateInv == ASSUME DrainIInv, Terminate PROVE DrainIInv'
BY DEF DrainIInv, Terminate, DrainTypeOK, ClocksAgree, AnswersExplained, AnsweredInTime,
       ShutdownIsFree

\* The clocks of the backstops that have not run out and of the grace tick
\* together.
LEMMA DrainTickInv == ASSUME DrainIInv, DrainTick PROVE DrainIInv'
<1> USE DrainAssumption DEF DrainIInv, DrainTick, Runnable, Returned
<1>1. DrainTypeOK'
  BY DEF DrainTypeOK
<1>2. ClocksAgree'
  BY DEF DrainTypeOK, ClocksAgree
<1>3. AnswersExplained'
  BY DEF DrainTypeOK, AnswersExplained
<1>4. AnsweredInTime' /\ ShutdownIsFree'
  BY DEF AnsweredInTime, ShutdownIsFree
<1> QED BY <1>1, <1>2, <1>3, <1>4

\* When the grace is over no interceptor is left to sever: before its backstop
\* the grace would be whole, and its backstop would have run longer than it may.
LEMMA KillInv == ASSUME DrainIInv, Kill PROVE DrainIInv'
<1>1. \A c \in Calls : stage[c] \notin {"arrived", "select", "backstop"}
  BY DrainAssumption DEF DrainIInv, DrainTypeOK, ClocksAgree, Kill
<1>2. answer' = answer
  BY <1>1 DEF Kill, DrainIInv, DrainTypeOK
<1> QED BY <1>2 DEF DrainIInv, Kill, DrainTypeOK, ClocksAgree, AnswersExplained,
                   AnsweredInTime, ShutdownIsFree

-----------------------------------------------------------------------------

LEMMA DrainStepInv == DrainIInv /\ [DrainNext]_drainVars => DrainIInv'
<1> SUFFICES ASSUME DrainIInv, [DrainNext]_drainVars PROVE DrainIInv'
  OBVIOUS
<1>1. CASE UNCHANGED drainVars
  BY <1>1 DEF drainVars, DrainIInv, DrainTypeOK, ClocksAgree, AnswersExplained,
              AnsweredInTime, ShutdownIsFree
<1>2. CASE \E c \in Calls : InterceptorNext(c) \/ HandlerEnds(c)
  BY <1>2, CallArrivesInv, BeginInv, SelectInv, BackstopInv, HandlerEndsInv
  DEF InterceptorNext
<1>3. CASE \E c \in Calls, why \in {"draining", "client"} : CancelCall(c, why)
  BY <1>3, CancelCallInv
<1>4. CASE Terminate \/ DrainTick \/ Kill
  BY <1>4, TerminateInv, DrainTickInv, KillInv
<1> QED BY <1>1, <1>2, <1>3, <1>4 DEF DrainNext

LEMMA DrainInvariant == DrainSpec => []DrainIInv
<1> QED BY DrainInitInv, DrainStepInv, PTL DEF DrainSpec

\* Every variable of the drain keeps its type.
THEOREM DrainTypeCorrect == DrainSpec => []DrainTypeOK
<1>1. DrainIInv => DrainTypeOK
  BY DEF DrainIInv
<1> QED BY <1>1, DrainInvariant, PTL

\* Whenever a call comes, and whether or not its handler heeds its context, the
\* platform's kill finds it answered: the backstop fits inside the grace
\* (drain.go).
THEOREM CallsAnsweredInTime == DrainSpec => []AnsweredInTime
<1>1. DrainIInv => AnsweredInTime
  BY DEF DrainIInv
<1> QED BY <1>1, DrainInvariant, PTL

\* A handler that succeeds before its backstop runs out keeps its response
\* (drain.go, finish).
THEOREM ResponsesKept == DrainSpec => []SuccessKept
<1>1. DrainIInv => SuccessKept
  BY DEF DrainIInv, AnswersExplained, SuccessKept
<1> QED BY <1>1, DrainInvariant, PTL

\* No answer charges a key for the cancellation that the drain itself brought
\* about (drain.go, finish).
THEOREM DrainCostsNothing == DrainSpec => []ShutdownIsFree
<1>1. DrainIInv => ShutdownIsFree
  BY DEF DrainIInv
<1> QED BY <1>1, DrainInvariant, PTL

\* The three together: what a drain promises each call (drain.go).
THEOREM DrainIsSafe == DrainSpec => []DrainSafe
<1>1. AnsweredInTime /\ SuccessKept /\ ShutdownIsFree => DrainSafe
  BY DEF DrainSafe
<1> QED BY <1>1, CallsAnsweredInTime, ResponsesKept, DrainCostsNothing, PTL

-----------------------------------------------------------------------------
(***************************************************************************)
(* Proofs about Lease, for any intervals and any outages of the bucket.    *)
(***************************************************************************)

LEMMA PaceTypes ==
  ASSUME pace \in Paces
  PROVE  /\ pace.refresh \in Nat /\ pace.retry \in Nat
         /\ retryInterval \in Nat /\ 1 <= retryInterval /\ retryInterval <= pace.refresh
         /\ Term = 3 * pace.refresh /\ Term \in Nat
<1>1. pace.refresh \in Nat \ {0} /\ pace.retry \in Nat \ {0}
  BY LeaseAssumption
<1> QED BY <1>1 DEF retryInterval, Term

\* A stamp loses less than a second.
LEMMA StampLosesLittle ==
  ASSUME subsecond \in 0 .. Second - 1, NEW t \in Nat
  PROVE  Stamped(t) \in 0 .. t /\ t < Stamped(t) + Second
<1>1. Second \in Nat \ {0} /\ subsecond + t \in Nat
  BY LeaseAssumption
<1> DEFINE fraction == (subsecond + t) % Second
<1>2. fraction \in 0 .. Second - 1
  BY <1>1
<1>3. Stamped(t) = IF t < fraction THEN 0 ELSE t - fraction
  BY DEF Stamped
<1> HIDE DEF fraction
<1> QED BY <1>1, <1>2, <1>3

\* A refresh interval has a second or more.
LEMMA SecondFits ==
  ASSUME pace \in Paces PROVE Second \in Nat \ {0} /\ Second <= pace.refresh
BY LeaseAssumption

\* How the clocks of a heartbeat hang together while it works.  A refresh begins
\* with two thirds of the lease left, less what the first stamp lost, an attempt that
\* counts is at most one retry interval old, and a pause ends before the believed
\* lease does, of which a lapsed lease leaves less than a second.
ClocksBound ==
  /\ believed < lease + Second
  /\ lease = 0 /\ believed > 0 => overrun + believed < Second
  /\ heartbeat = "waiting" =>
       /\ refused = 0 /\ believed + Second > 2 * pace.refresh
       /\ ~fired => believed + Second > 2 * pace.refresh + ticker
  /\ heartbeat = "trying" =>
       /\ countdown <= retryInterval
       /\ believed <= newExpiry
       /\ newExpiry + retryInterval = Term + countdown
       /\ ~fired => newExpiry >= 2 * pace.refresh + ticker
       /\ lease = 0 => overrun + countdown < retryInterval + Second - 1
  /\ heartbeat = "pausing" => countdown < believed
  /\ heartbeat \in {"trying", "pausing"} => believed + refused + Second > 2 * pace.refresh

LeaseIInv == LeaseTypeOK /\ ClocksBound /\ OverrunBounded

LEMMA LeaseInitInv == LeaseInit => LeaseIInv
<1> SUFFICES ASSUME LeaseInit PROVE LeaseIInv
  OBVIOUS
<1>1. pace \in Paces /\ subsecond \in 0 .. Second - 1
  BY DEF LeaseInit
<1>2. Term \in Nat /\ lease \in 0 .. Term /\ Term < lease + Second
  BY <1>1, PaceTypes, StampLosesLittle DEF LeaseInit
<1>3. LeaseTypeOK
  <2>1. {fired, taken, available} \subseteq BOOLEAN
    BY Zenon DEF LeaseInit
  <2> QED BY <1>1, <1>2, <2>1, PaceTypes DEF LeaseInit, LeaseTypeOK
<1> QED BY <1>1, <1>2, <1>3, PaceTypes, SecondFits
        DEF LeaseIInv, LeaseInit, ClocksBound, OverrunBounded

-----------------------------------------------------------------------------

LEMMA RefreshInv == ASSUME LeaseIInv, Refresh PROVE LeaseIInv'
<1>1. pace \in Paces
  BY DEF LeaseIInv, LeaseTypeOK
<1>2. ({fired, taken, available} \subseteq BOOLEAN)'
  BY Zenon DEF LeaseIInv, LeaseTypeOK, Refresh, Attempt
<1> QED BY <1>1, <1>2, PaceTypes, SecondFits
  DEF LeaseIInv, LeaseTypeOK, ClocksBound, OverrunBounded, Working, Refresh, Attempt,
      retryInterval, Term

LEMMA RefreshAgainInv == ASSUME LeaseIInv, RefreshAgain PROVE LeaseIInv'
<1>1. pace \in Paces
  BY DEF LeaseIInv, LeaseTypeOK
<1> QED BY <1>1, PaceTypes, SecondFits
  DEF LeaseIInv, LeaseTypeOK, ClocksBound, OverrunBounded, Working, RefreshAgain, Attempt,
      retryInterval, Term

LEMMA LandInv == ASSUME LeaseIInv, Land PROVE LeaseIInv'
<1>1. /\ pace \in Paces
      /\ lease' \in 0 .. newExpiry /\ newExpiry < lease' + Second
  BY StampLosesLittle DEF LeaseIInv, LeaseTypeOK, Land
<1> QED BY <1>1, PaceTypes, SecondFits
  DEF LeaseIInv, LeaseTypeOK, ClocksBound, OverrunBounded, Working, Land, retryInterval, Term

LEMMA RefreshedInv == ASSUME LeaseIInv, Refreshed PROVE LeaseIInv'
<1>1. pace \in Paces /\ newExpiry < lease + Second
  BY StampLosesLittle DEF LeaseIInv, LeaseTypeOK, Refreshed
<1> QED BY <1>1, PaceTypes, SecondFits
  DEF LeaseIInv, LeaseTypeOK, ClocksBound, OverrunBounded, Working, Refreshed,
      retryInterval, Term

LEMMA lostOwnershipInv == ASSUME LeaseIInv, lostOwnership PROVE LeaseIInv'
BY DEF LeaseIInv, LeaseTypeOK, ClocksBound, OverrunBounded, Working, lostOwnership,
       retryInterval, Term

LEMMA AttemptFailsInv == ASSUME LeaseIInv, AttemptFails PROVE LeaseIInv'
<1>1. pace \in Paces
  BY DEF LeaseIInv, LeaseTypeOK
<1> QED BY <1>1, PaceTypes, SecondFits
  DEF LeaseIInv, LeaseTypeOK, ClocksBound, OverrunBounded, Working, AttemptFails, CanRetry,
      retryInterval, Term

\* What happens around the heartbeat moves none of its clocks.
LEMMA AroundInv == ASSUME LeaseIInv, stopHeartbeat \/ TakeOver \/ Outage PROVE LeaseIInv'
<1>1. CASE stopHeartbeat
  BY <1>1 DEF LeaseIInv, LeaseTypeOK, ClocksBound, OverrunBounded, Working, stopHeartbeat,
              retryInterval, Term
<1>2. CASE TakeOver
  BY <1>2 DEF LeaseIInv, LeaseTypeOK, ClocksBound, OverrunBounded, Working, TakeOver,
              retryInterval, Term
<1>3. CASE Outage
  <2>1. available' \in BOOLEAN
    BY <1>3, Zenon DEF Outage
  <2> QED BY <1>3, <2>1 DEF LeaseIInv, LeaseTypeOK, ClocksBound, OverrunBounded, Working,
                            Outage, retryInterval, Term
<1> QED BY <1>1, <1>2, <1>3

\* A tick takes one off every clock that runs.
LEMMA LeaseTickInv == ASSUME LeaseIInv, LeaseTick PROVE LeaseIInv'
<1>1. pace \in Paces /\ UNCHANGED <<pace, heartbeat>>
  BY DEF LeaseIInv, LeaseTypeOK, LeaseTick
<1>2. LeaseTypeOK'
  <2>1. ({fired, taken, available} \subseteq BOOLEAN)'
    BY Zenon DEF LeaseIInv, LeaseTypeOK, LeaseTick
  <2>2. (ticker \in 1 .. pace.refresh)'
    BY <1>1, PaceTypes, SecondFits DEF LeaseIInv, LeaseTypeOK, LeaseTick
  <2>3. ({believed, newExpiry, lease} \subseteq 0 .. Term /\ countdown \in 0 .. pace.refresh)'
    BY <1>1, PaceTypes, SecondFits DEF LeaseIInv, LeaseTypeOK, LeaseTick, Left, Term
  <2>4. ({refused, overrun} \subseteq 0 .. Term)'
    BY <1>1, PaceTypes, SecondFits DEF LeaseIInv, LeaseTypeOK, LeaseTick, Term
  <2>5. (subsecond \in 0 .. Second - 1)'
    BY <1>1, SecondFits DEF LeaseIInv, LeaseTypeOK, LeaseTick
  <2> QED BY <1>1, <2>1, <2>2, <2>3, <2>4, <2>5 DEF LeaseIInv, LeaseTypeOK
<1>3. ClocksBound'
  <2> USE <1>1, PaceTypes, SecondFits DEF LeaseIInv, LeaseTypeOK, LeaseTick, Left, ClocksBound, Due,
                              retryInterval, Term
  <2>1. /\ (believed < lease + Second)'
        /\ (lease = 0 /\ believed > 0 => overrun + believed < Second)'
    OBVIOUS
  <2>2. CASE heartbeat = "waiting"
    BY <2>1, <2>2
  <2>3. CASE heartbeat = "trying"
    BY <2>1, <2>3
  <2>4. CASE heartbeat = "pausing"
    BY <2>1, <2>4
  <2> QED BY <2>1, <2>2, <2>3, <2>4 DEF Working
<1>4. OverrunBounded'
  BY <1>1, PaceTypes, SecondFits
  DEF LeaseIInv, LeaseTypeOK, LeaseTick, Left, ClocksBound, OverrunBounded, Due, Working,
      retryInterval, Term
<1> QED BY <1>2, <1>3, <1>4 DEF LeaseIInv

LEMMA LeaseStepInv == LeaseIInv /\ [LeaseNext]_leaseVars => LeaseIInv'
<1> SUFFICES ASSUME LeaseIInv, [LeaseNext]_leaseVars PROVE LeaseIInv'
  OBVIOUS
<1>1. CASE UNCHANGED leaseVars
  BY <1>1 DEF leaseVars, LeaseIInv, LeaseTypeOK, ClocksBound, OverrunBounded, Working,
              retryInterval, Term
<1>2. CASE LeaseNext
  BY <1>2, RefreshInv, RefreshAgainInv, LandInv, RefreshedInv, lostOwnershipInv,
     AttemptFailsInv, AroundInv, LeaseTickInv
  DEF LeaseNext, HeartbeatSteps
<1> QED BY <1>1, <1>2

LEMMA LeaseInvariant == LeaseSpec => []LeaseIInv
<1> QED BY LeaseInitInv, LeaseStepInv, PTL DEF LeaseSpec

\* The clocks stay inside their ranges.
THEOREM LeaseTypeCorrect == LeaseSpec => []LeaseTypeOK
<1>1. LeaseIInv => LeaseTypeOK
  BY DEF LeaseIInv
<1> QED BY <1>1, LeaseInvariant, PTL

\* Whatever attempts land, are acknowledged or are given up on, the heartbeat
\* believes in less than a second more of the lease than the bucket's object, which
\* holds whole seconds, shows (gcs.go, startHeartbeat and refreshLease).
THEOREM BeliefIsBacked == LeaseSpec => []BeliefBacked
<1>1. LeaseIInv => BeliefBacked
  BY DEF LeaseIInv, ClocksBound, BeliefBacked
<1> QED BY <1>1, LeaseInvariant, PTL

\* Work outlives its lease by less than one retry interval and the part of a second
\* that its stamp lost, at any intervals (gcs.go, refreshLease).
THEOREM OverrunIsBounded == LeaseSpec => []OverrunBounded
<1>1. LeaseIInv => OverrunBounded
  BY DEF LeaseIInv
<1> QED BY <1>1, LeaseInvariant, PTL

\* A heartbeat that still owns its object gives it up only after its refreshes have
\* failed for a refresh interval, less what the stamp of its first lease lost
\* (gcs.go, refreshLease).
THEOREM OutagesSurvived == LeaseSpec => GivesUpRightly
<1>1. LeaseIInv /\ [LeaseNext]_leaseVars
        => [Working /\ heartbeat' = "lost" /\ ~taken => refused + Second > pace.refresh]_leaseVars
  <2> SUFFICES ASSUME LeaseIInv, LeaseNext, Working, heartbeat' = "lost", ~taken
               PROVE  refused + Second > pace.refresh
    BY DEF leaseVars
  <2>1. pace \in Paces
    BY DEF LeaseIInv, LeaseTypeOK
  <2>2. AttemptFails /\ ~CanRetry
    BY DEF LeaseNext, HeartbeatSteps, Refresh, RefreshAgain, Attempt, Land, Refreshed,
           lostOwnership, AttemptFails, stopHeartbeat, TakeOver, Outage, LeaseTick, Working
  <2> QED BY <2>1, <2>2, PaceTypes, SecondFits
    DEF LeaseIInv, LeaseTypeOK, ClocksBound, AttemptFails, CanRetry
<1> QED BY <1>1, LeaseInvariant, PTL DEF LeaseSpec, GivesUpRightly

\* The three together: how far the work trusts its lease, how far it outlives it,
\* and when it may give it up (gcs.go).
THEOREM LeaseIsHonoured == LeaseSpec => LeaseHonoured
BY BeliefIsBacked, OverrunIsBounded, OutagesSurvived, PTL DEF LeaseHonoured

-----------------------------------------------------------------------------
(***************************************************************************)
(* Proofs about Breaker, for every set of callers and any delays.          *)
(***************************************************************************)

\* The doublings of b up to the nth.
Doublings(b, n, g) ==
  /\ g \in [0 .. n -> Nat] /\ g[0] = b
  /\ \A i \in 1 .. n : g[i] = 2 * g[i - 1]

LEMMA DoublingsExist == ASSUME NEW b \in Nat PROVE \A n \in Nat : \E g : Doublings(b, n, g)
<1> DEFINE T == {n \in Nat : ~\E g : Doublings(b, n, g)}
<1> SUFFICES ASSUME T # {} PROVE FALSE
  OBVIOUS
<1>1. PICK n \in T : \A m \in T : n <= m
  BY SmallestExists
<1>2. n # 0
  <2>1. Doublings(b, 0, [i \in 0 .. 0 |-> b])
    BY DEF Doublings
  <2> QED BY <2>1
<1>3. n \in Nat /\ n - 1 \in Nat /\ n - 1 \notin T
  BY <1>1, <1>2
<1>4. PICK g : Doublings(b, n - 1, g)
  BY <1>3
<1> DEFINE h == [i \in 0 .. n |-> IF i = n THEN 2 * g[n - 1] ELSE g[i]]
<1>5. h \in [0 .. n -> Nat]
  BY <1>3, <1>4 DEF Doublings
<1>6. h[0] = b
  BY <1>3, <1>2, <1>4 DEF Doublings
<1>7. ASSUME NEW i \in 1 .. n PROVE h[i] = 2 * h[i - 1]
  <2>1. CASE i = n
    BY <2>1, <1>3
  <2>2. CASE i # n
    BY <2>2, <1>3, <1>4 DEF Doublings
  <2> QED BY <2>1, <2>2
<1>8. Doublings(b, n, h)
  BY <1>5, <1>6, <1>7 DEF Doublings
<1> QED BY <1>1, <1>8

LEMMA DoublingsAgree ==
  ASSUME NEW b \in Nat, NEW n \in Nat, NEW m \in Nat, NEW g, NEW h,
         Doublings(b, n, g), Doublings(b, m, h)
  PROVE  \A k \in 0 .. n : k <= m => g[k] = h[k]
<1> DEFINE T == {k \in 0 .. n : k <= m /\ g[k] # h[k]}
<1> SUFFICES ASSUME T # {} PROVE FALSE
  OBVIOUS
<1>1. PICK k \in T : \A j \in T : k <= j
  <2>1. T \in SUBSET Nat
    OBVIOUS
  <2> HIDE DEF T
  <2> QED BY <2>1, SmallestExists
<1>2. k # 0
  BY DEF Doublings
<1>3. k - 1 \in 0 .. n /\ k - 1 <= m /\ k - 1 \notin T /\ k \in 1 .. n /\ k \in 1 .. m
  BY <1>1, <1>2
<1>4. g[k - 1] = h[k - 1]
  BY <1>3
<1> QED BY <1>3, <1>4 DEF Doublings

Doubles(b, F) == F = [k \in Nat |-> IF k = 0 THEN b ELSE 2 * F[k - 1]]

\* A function defined by doubling exists, and there is but one.
LEMMA DoublingExists == ASSUME NEW b \in Nat PROVE \E F \in [Nat -> Nat] : Doubles(b, F)
<1> DEFINE G(n) == CHOOSE g : Doublings(b, n, g)
           F == [n \in Nat |-> G(n)[n]]
<1>1. \A n \in Nat : Doublings(b, n, G(n))
  BY DoublingsExist
<1> HIDE DEF G
<1>2. F \in [Nat -> Nat] /\ F[0] = b
  BY <1>1 DEF Doublings
<1>3. ASSUME NEW k \in Nat PROVE F[k + 1] = 2 * F[k]
  <2>1. G(k + 1)[k + 1] = 2 * G(k + 1)[k]
    BY <1>1 DEF Doublings
  <2>2. G(k + 1)[k] = G(k)[k]
    BY <1>1, DoublingsAgree
  <2> QED BY <2>1, <2>2
<1>4. F = [k \in Nat |-> IF k = 0 THEN b ELSE 2 * F[k - 1]]
  <2>1. ASSUME NEW k \in Nat PROVE F[k] = IF k = 0 THEN b ELSE 2 * F[k - 1]
    <3>1. CASE k = 0
      BY <3>1, <1>2
    <3>2. CASE k # 0
      <4>1. k - 1 \in Nat /\ (k - 1) + 1 = k
        BY <3>2
      <4> QED BY <3>2, <4>1, <1>3
    <3> QED BY <3>1, <3>2
  <2> HIDE DEF F
  <2> QED BY <2>1, <1>2
<1> HIDE DEF F
<1> QED BY <1>2, <1>4 DEF Doubles

LEMMA DoublingFacts ==
  ASSUME NEW b \in Nat, NEW D, Doubles(b, D)
  PROVE  /\ D \in [Nat -> Nat] /\ D[0] = b
         /\ \A k \in Nat : D[k + 1] = 2 * D[k]
<1>1. PICK F \in [Nat -> Nat] : Doubles(b, F)
  BY DoublingExists
<1>2. F[0] = b /\ \A k \in Nat : F[k + 1] = 2 * F[k]
  BY <1>1 DEF Doubles
<1>3. /\ D[0] = b /\ \A k \in Nat : D[k + 1] = 2 * D[k]
      /\ D = [k \in Nat |-> D[k]] /\ F = [k \in Nat |-> F[k]]
  BY <1>1 DEF Doubles
<1>4. \A k \in Nat : D[k] = F[k]
  <2> DEFINE T == {k \in Nat : D[k] # F[k]}
  <2> SUFFICES ASSUME T # {} PROVE FALSE
    OBVIOUS
  <2>1. PICK k \in T : \A j \in T : k <= j
    BY SmallestExists
  <2>2. k \in Nat /\ k # 0 /\ D[k] # F[k]
    BY <1>2, <1>3
  <2>3. k - 1 \in Nat /\ k - 1 \notin T /\ (k - 1) + 1 = k
    BY <2>1, <2>2
  <2>4. D[k - 1] = F[k - 1]
    BY <2>3
  <2> QED BY <2>2, <2>3, <2>4, <1>2, <1>3
<1> QED BY <1>1, <1>3, <1>4

LEMMA DoubledFacts ==
  /\ Doubled \in [Nat -> Nat] /\ Doubled[0] = baseDelay
  /\ \A k \in Nat : Doubled[k + 1] = 2 * Doubled[k]
<1>1. baseDelay \in Nat
  BY BreakerAssumption
<1>2. PICK F \in [Nat -> Nat] : Doubles(baseDelay, F)
  BY <1>1, DoublingExists
<1>3. Doubles(baseDelay, Doubled)
  BY <1>2 DEF Doubled, Doubles
<1> QED BY <1>1, <1>3, DoublingFacts

LEMMA RetryDelayFacts == RetryDelay \in [Nat -> Nat]
<1>1. BackoffPeriod \in Nat
  BY BackoffAssumption
<1>2. PICK F \in [Nat -> Nat] : Doubles(BackoffPeriod, F)
  BY <1>1, DoublingExists
<1>3. Doubles(BackoffPeriod, RetryDelay)
  BY <1>2 DEF RetryDelay, Doubles
<1> QED BY <1>1, <1>3, DoublingFacts

\* More failures, longer windows.
LEMMA DoubledGrows ==
  ASSUME NEW a \in Nat, NEW b \in Nat, a <= b PROVE Doubled[a] <= Doubled[b]
<1> DEFINE T == {c \in Nat : a <= c /\ ~(Doubled[a] <= Doubled[c])}
<1> SUFFICES ASSUME T # {} PROVE FALSE
  OBVIOUS
<1>1. PICK c \in T : \A j \in T : c <= j
  BY SmallestExists
<1>2. c \in Nat /\ a <= c /\ ~(Doubled[a] <= Doubled[c]) /\ Doubled \in [Nat -> Nat]
  BY DoubledFacts
<1>3. a # c /\ c # 0 /\ c - 1 \in Nat /\ (c - 1) + 1 = c /\ a <= c - 1
  BY <1>2
<1>4. Doubled[a] <= Doubled[c - 1]
  BY <1>1, <1>3
<1>5. Doubled[c] = 2 * Doubled[c - 1]
  BY <1>3, DoubledFacts
<1>6. Doubled[c - 1] \in Nat /\ Doubled[a] \in Nat
  BY <1>2, <1>3
<1> QED BY <1>2, <1>4, <1>5, <1>6

LEMMA BaseFacts ==
  ASSUME NEW n \in Nat \ {0}
  PROVE  /\ Base(n) \in 1 .. maxDelay
         /\ backoff(n) \subseteq 1 .. Longest
         /\ \A d \in backoff(n) : Base(n) <= d
<1>1. n - 1 \in Nat /\ Doubled[n - 1] \in Nat /\ 0 <= n - 1 /\ maxDelay \in Nat \ {0}
      /\ baseDelay \in Nat \ {0}
  BY DoubledFacts, BreakerAssumption
<1>2. baseDelay <= Doubled[n - 1]
  BY <1>1, DoubledGrows, DoubledFacts
<1>3. Base(n) \in 1 .. maxDelay
  BY <1>1, <1>2 DEF Base
<1> QED BY <1>1, <1>3 DEF backoff, Longest

LEMMA WindowIsShortest ==
  ASSUME NEW n \in Nat, n >= threshold
  PROVE  n \in Nat \ {0} /\ Window \in 1 .. maxDelay /\ Window <= Base(n)
<1>1. threshold \in Nat \ {0} /\ n \in Nat \ {0}
  BY BreakerAssumption
<1>2. /\ threshold - 1 \in Nat /\ n - 1 \in Nat /\ threshold - 1 <= n - 1
      /\ Doubled[threshold - 1] \in Nat /\ Doubled[n - 1] \in Nat /\ maxDelay \in Nat
  BY <1>1, DoubledFacts, BreakerAssumption
<1>3. Doubled[threshold - 1] <= Doubled[n - 1]
  BY <1>2, DoubledGrows
<1> QED BY <1>1, <1>2, <1>3, BaseFacts DEF Window, Base

-----------------------------------------------------------------------------

\* An open circuit cools down for as long as its last probe asks for.
CooledSinceProbe == Open => cooldown + sinceProbe >= Window

BreakerIInv == BreakerTypeOK /\ CooledSinceProbe

LEMMA BreakerInitInv == BreakerInit => BreakerIInv
<1>1. Window \in Nat /\ threshold \in Nat /\ threshold > 0
      /\ Longest \in Nat /\ MaxFailures \in Nat /\ MaxUnreported \in Nat
  BY BreakerAssumption, WindowIsShortest DEF Longest
<1>2. BreakerInit => BreakerTypeOK
  <2>1. BreakerInit => healthy \in BOOLEAN
    BY Zenon DEF BreakerInit
  <2>2. BreakerInit => failures = 0 /\ cooldown = 0 /\ unreported = 0 /\ sinceProbe = Window
    BY Zenon DEF BreakerInit
  <2>3. BreakerInit => /\ where \in [Callers -> {"away", "out"}] /\ probing \subseteq Callers
                       /\ pause \in [Callers -> 0 .. Longest]
    BY <1>1 DEF BreakerInit
  <2> QED BY <1>1, <2>1, <2>2, <2>3 DEF BreakerTypeOK
<1>3. BreakerInit => CooledSinceProbe
  <2>1. Window <= 0 + Window
    BY <1>1
  <2> QED BY <2>1 DEF BreakerInit, CooledSinceProbe
<1> QED BY <1>2, <1>3 DEF BreakerIInv

LEMMA BreakerStepInv == BreakerIInv /\ [BreakerNext]_breakerVars => BreakerIInv'
<1> SUFFICES ASSUME BreakerIInv, [BreakerNext]_breakerVars PROVE BreakerIInv'
  OBVIOUS
<1>1. /\ Window \in Nat /\ threshold \in Nat /\ threshold > 0
      /\ Longest \in Nat /\ MaxFailures \in Nat /\ MaxUnreported \in Nat
  BY BreakerAssumption, WindowIsShortest DEF Longest
<1>2. \A n \in Nat \ {0} : backoff(n) \subseteq 1 .. Longest
  BY BaseFacts
<1>3. \A n \in Nat : n >= threshold => \A d \in backoff(n) : d >= Window
  <2> SUFFICES ASSUME NEW n \in Nat, n >= threshold, NEW d \in backoff(n) PROVE d >= Window
    OBVIOUS
  <2>1. n \in Nat \ {0} /\ Window <= Base(n) /\ Base(n) <= d /\ Base(n) \in 1 .. maxDelay
        /\ d \in 1 .. Longest
    BY WindowIsShortest, BaseFacts
  <2> QED BY <2>1, <1>1
<1> USE DEF BreakerIInv, BreakerTypeOK, CooledSinceProbe, Open
<1>4. ASSUME NEW r \in Callers, AllowClosed(r) PROVE BreakerIInv'
  BY <1>4, <1>1 DEF AllowClosed, Comes, GoesOut
<1>5. ASSUME NEW r \in Callers, AllowProbe(r) PROVE BreakerIInv'
  <2>1. failures \in Nat \ {0} /\ failures >= threshold
    BY <1>1, <1>5 DEF AllowProbe
  <2>2. cooldown' \in 1 .. Longest /\ cooldown' >= Window
    BY <1>2, <1>3, <1>5, <2>1 DEF AllowProbe
  <2>3. cooldown' >= Window /\ cooldown' \in 0 .. Longest /\ sinceProbe' = 0
    BY <1>1, <1>5, <2>2 DEF AllowProbe
  <2>4. BreakerTypeOK'
    BY <1>5, <1>1, <2>3 DEF AllowProbe, Comes, GoesOut
  <2>5. CooledSinceProbe'
    BY <1>5, <2>3 DEF AllowProbe
  <2> QED BY <2>4, <2>5
<1>6. ASSUME NEW r \in Callers, Refuse(r) PROVE BreakerIInv'
  BY <1>6, <1>1 DEF Refuse, Comes
<1>7. ASSUME NEW r \in Callers, Succeed(r) PROVE BreakerIInv'
  BY <1>7, <1>1 DEF Succeed, ComesBack
<1>8. ASSUME NEW r \in Callers, Fail(r) PROVE BreakerIInv'
  <2>1. failures' = failures + 1 /\ failures + 1 \in Nat \ {0} /\ failures' \in 0 .. MaxFailures
    BY <1>1, <1>8 DEF Fail, RecordFailure
  <2>2. cooldown' \in 1 .. Longest /\ (failures' >= threshold => cooldown' >= Window)
    BY <1>2, <1>3, <1>8, <2>1 DEF Fail, RecordFailure
  <2>3. cooldown' \in 0 .. Longest /\ sinceProbe' = sinceProbe
    BY <1>1, <1>8, <2>2 DEF Fail
  <2>4. pause' \in [Callers -> 0 .. Longest]
    BY <1>8, <2>3 DEF Fail, RecordFailure
  <2>5. BreakerTypeOK'
    BY <1>8, <1>1, <2>1, <2>3, <2>4 DEF Fail, ComesBack
  <2>6. sinceProbe \in Nat /\ cooldown' \in Nat
    BY <1>1, <2>3
  <2>7. failures' >= threshold => cooldown' + sinceProbe' >= Window
    <3> DEFINE d == cooldown'
               t == sinceProbe
    <3>1. d \in Nat /\ t \in Nat /\ Window \in Nat /\ sinceProbe' = t
          /\ (failures' >= threshold => d >= Window)
      BY <1>1, <2>2, <2>3, <2>6
    <3> HIDE DEF d, t
    <3>2. d >= Window => d + t >= Window
      BY <3>1
    <3>3. failures' >= threshold => d + t >= Window
      BY <3>1, <3>2, Zenon
    <3> QED BY <3>1, <3>3, Zenon DEF d
  <2>8. CooledSinceProbe'
    BY <2>7
  <2> QED BY <2>5, <2>8
<1>9. ASSUME NEW r \in Callers, Lose(r) PROVE BreakerIInv'
  BY <1>9, <1>1 DEF Lose, ComesBack
<1>10. CASE Recover
  BY <1>10, <1>1 DEF Recover
<1>11. CASE BreakerTick
  <2>1. pause' \in [Callers -> 0 .. Longest]
    BY <1>11, <1>1 DEF BreakerTick, Less
  <2>2. cooldown' = (IF cooldown = 0 THEN 0 ELSE cooldown - 1)
        /\ sinceProbe' = IF sinceProbe < Window THEN sinceProbe + 1 ELSE Window
    BY <1>11 DEF BreakerTick, Less
  <2> QED BY <1>11, <1>1, <2>1, <2>2 DEF BreakerTick
<1>12. CASE UNCHANGED breakerVars
  BY <1>12 DEF breakerVars
<1> QED BY <1>4, <1>5, <1>6, <1>7, <1>8, <1>9, <1>10, <1>11, <1>12
        DEF BreakerNext, CallerNext

LEMMA ProbeIsApart ==
  BreakerIInv /\ [BreakerNext]_breakerVars
    => [\A r \in Callers :
          Open /\ where[r] = "away" /\ where'[r] = "out" => sinceProbe >= Window]_breakerVars
<1> SUFFICES ASSUME BreakerIInv, BreakerNext, NEW r \in Callers,
                    Open, where[r] = "away", where'[r] = "out"
             PROVE  sinceProbe >= Window
  BY DEF breakerVars
<1>1. \E q \in Callers : AllowProbe(q)
  BY DEF BreakerNext, CallerNext, AllowClosed, Refuse, Succeed, Fail, Lose, Recover, BreakerTick,
         ComesBack, BreakerIInv, BreakerTypeOK
<1>2. cooldown = 0
  BY <1>1 DEF AllowProbe
<1>3. Window \in Int
  BY BreakerAssumption, WindowIsShortest
<1> QED BY <1>2, <1>3 DEF BreakerIInv, BreakerTypeOK, CooledSinceProbe

-----------------------------------------------------------------------------
(***************************************************************************)
(* Proofs about Outcomes, for any frameworks, waits, cooldowns and number  *)
(* of attempts.                                                            *)
(***************************************************************************)

\* What passes by itself is none of the other ends of a reconcile.
PassingMarks == {"rateLimit", "abuse", "exhausted", "breaker", "transient"}

LEMMA KnownMarks ==
  ASSUME NEW f \in {"github", "linear", "oci", "apk"}
  PROVE  /\ DOMAIN Known(f) \subseteq Nat
         /\ \A i \in DOMAIN Known(f) : Known(f)[i] \in PassingMarks
         /\ f # "linear" => \E i \in DOMAIN Known(f) : Known(f)[i] = "breaker"
<1>1. CASE f = "github"
  <2>1. Known(f) = <<"rateLimit", "abuse", "exhausted", "breaker", "transient">>
    BY <1>1 DEF Known
  <2>2. DOMAIN Known(f) = 1 .. 5 /\ Known(f)[4] = "breaker"
    BY <2>1
  <2>3. \A i \in 1 .. 5 : Known(f)[i] \in PassingMarks
    BY <2>1 DEF PassingMarks
  <2> QED BY <2>2, <2>3
<1>2. CASE f = "linear"
  <2>1. Known(f) = <<"rateLimit">>
    BY <1>2 DEF Known
  <2> QED BY <2>1, <1>2 DEF PassingMarks
<1>3. CASE f \in {"oci", "apk"}
  <2>1. Known(f) = <<"breaker", "transient">>
    BY <1>3 DEF Known
  <2>2. DOMAIN Known(f) = 1 .. 2 /\ Known(f)[1] = "breaker" /\ Known(f)[2] = "transient"
    BY <2>1
  <2> QED BY <2>2 DEF PassingMarks
<1> QED BY <1>1, <1>2, <1>3

\* The first of what is known is a mark of the error.
LEMMA FirstIsAMark ==
  ASSUME NEW f \in {"github", "linear", "oci", "apk"}, NEW e, Passing(f, e) # {}
  PROVE  First(f, e) \in e.marks /\ First(f, e) \in PassingMarks
<1> DEFINE i == CHOOSE i \in Passing(f, e) : \A j \in Passing(f, e) : i <= j
<1>1. Passing(f, e) \in SUBSET Nat
  BY KnownMarks DEF Passing
<1>2. i \in Passing(f, e)
  BY <1>1, SmallestExists
<1>3. First(f, e) = Known(f)[i]
  BY DEF First
<1> HIDE DEF i
<1> QED BY <1>2, <1>3, KnownMarks DEF Passing

-----------------------------------------------------------------------------

\* A request to be left alone is the floor of the queued key.
FloorHeld ==
  spare > 0 => /\ item.at = "queued" /\ item.meta.floor
               /\ item.meta.nb \in Nat /\ item.meta.nb >= spare

\* Attempts are not counted beyond the lasting failures in a row.
AttemptsEarned ==
  item.at = "queued" =>
    item.meta.attempts \in Nat \cup {NoAttempts} /\ item.meta.attempts <= lasting

ItemShape ==
  /\ DOMAIN item = {"at", "meta"} /\ item.at \in {"queued", "gone", "dead"}
  /\ DOMAIN item.meta = {"prio", "nb", "floor", "attempts"}

OutcomesIInv ==
  /\ framework \in {"github", "linear", "oci", "apk"} /\ ItemShape
  /\ cool \in Nat /\ spare \in Nat /\ lasting \in Nat
  /\ FloorHeld /\ AttemptsEarned /\ OutagesKillNothing

LEMMA OutcomesInitInv == OutcomesInit => OutcomesIInv /\ OnlyShortDelaysDrop
<1> SUFFICES ASSUME OutcomesInit PROVE OutcomesIInv /\ OnlyShortDelaysDrop
  OBVIOUS
<1>1. /\ item.at = "queued" /\ item.meta = Fresh /\ DOMAIN item = {"at", "meta"}
      /\ DOMAIN Fresh = {"prio", "nb", "floor", "attempts"} /\ Fresh.attempts = NoAttempts
      /\ cool = 0 /\ spare = 0 /\ lasting = 0
      /\ framework \in {"github", "linear", "oci", "apk"}
  BY OutcomesAssumption DEF OutcomesInit, Fresh, Written
<1>2. NoAttempts <= 0
  BY DEF NoAttempts
<1> QED BY <1>1, <1>2
        DEF OutcomesIInv, ItemShape, FloorHeld, AttemptsEarned, OutagesKillNothing,
            OnlyShortDelaysDrop

-----------------------------------------------------------------------------
(* The end of a run.                                                       *)

LEMMA Times ==
  ASSUME NEW n \in Nat, NEW d \in Nat \ {0}
  PROVE  n * d \in Nat /\ (n > 0 => n * d > 0) /\ (n = 0 => n * d = 0)
OBVIOUS

LEMMA WireSeconds ==
  ASSUME NEW d \in Nat
  PROVE  /\ d \div TicksPerSecond \in Nat
         /\ TicksPerSecond <= d => d \div TicksPerSecond > 0
BY OutcomesAssumption

\* What returning to the queue leaves.
LEMMA ReturnedMetadata ==
  ASSUME NEW m, NEW plan
  PROVE  LET r == RequeueMetadata(m, plan, 0) IN
         /\ DOMAIN r = {"prio", "nb", "floor", "attempts"}
         /\ r.floor = (m.floor \/ plan.floor)
         /\ r.attempts = IF plan.kind = "delay" /\ plan.delay > 0 THEN 0 ELSE m.attempts
         /\ plan.delay > 0 => r.nb = 0 + plan.delay
BY DEF RequeueMetadata

LEMMA ClampFacts ==
  ASSUME NEW d \in Nat, NEW floored \in BOOLEAN
  PROVE  /\ Clamp(d, floored) \in Nat /\ (d > 0 => Clamp(d, floored) > 0)
         /\ floored => Clamp(d, floored) = Smaller(d, MaximumRequeueFloor)
<1>1. MaximumRequeueFloor \in Nat \ {0}
  BY OutcomesAssumption
<1>2. CASE floored
  <2>1. Clamp(d, floored) = Smaller(d, MaximumRequeueFloor)
    BY <1>2 DEF Clamp
  <2> QED BY <1>1, <2>1 DEF Smaller
<1>3. CASE ~floored
  <2>1. Clamp(d, floored) = d
    BY <1>3 DEF Clamp
  <2> QED BY <1>3, <2>1
<1> QED BY <1>2, <1>3

\* A positive delay.
LEMMA DelayReturns ==
  ASSUME ItemShape, NEW m, NEW d \in Nat \ {0}, NEW floored \in BOOLEAN,
         Returns(m, DelayPlan(d, floored))
  PROVE  /\ ItemShape' /\ item'.at = item.at /\ item'.meta.attempts = 0
         /\ item'.meta.nb = d /\ (floored => item'.meta.floor)
<1> DEFINE r == RequeueMetadata(m, DelayPlan(d, floored), 0)
<1>1. /\ DOMAIN r = {"prio", "nb", "floor", "attempts"}
      /\ r.floor = (m.floor \/ floored) /\ r.attempts = 0 /\ r.nb = d
  BY ReturnedMetadata DEF DelayPlan
<1>2. item' = [item EXCEPT !.meta = r]
  BY DEF Returns
<1> HIDE DEF r
<1>3. DOMAIN item' = {"at", "meta"} /\ item'.at = item.at /\ item'.meta = r
  BY <1>2 DEF ItemShape
<1> QED BY <1>1, <1>3 DEF ItemShape

\* No delay, or one for a failure.
LEMMA CountReturns ==
  ASSUME ItemShape, NEW m, NEW plan, plan.kind # "delay", Returns(m, plan)
  PROVE  /\ ItemShape' /\ item'.at = item.at /\ item'.meta.attempts = m.attempts
<1> DEFINE r == RequeueMetadata(m, plan, 0)
<1>1. DOMAIN r = {"prio", "nb", "floor", "attempts"} /\ r.attempts = m.attempts
  BY ReturnedMetadata
<1>2. item' = [item EXCEPT !.meta = r]
  BY DEF Returns
<1> HIDE DEF r
<1>3. DOMAIN item' = {"at", "meta"} /\ item'.at = item.at /\ item'.meta = r
  BY <1>2 DEF ItemShape
<1> QED BY <1>1, <1>3 DEF ItemShape

LEMMA LeavesQueue ==
  ASSUME ItemShape, NEW place \in {"gone", "dead"}, Leaves(place)
  PROVE  ItemShape' /\ item'.at = place
BY DEF ItemShape, Leaves

\* A response that asks to come back, or for nothing.
LEMMA RequeueDisposed ==
  ASSUME ItemShape, item.at = "queued", NEW m, NEW s \in Nat, NEW floored \in BOOLEAN,
         Disposes(m, [says |-> "ok", seconds |-> s, floor |-> floored])
  PROVE  /\ ItemShape' /\ UNCHANGED undone
         /\ s = 0 => item'.at = "gone"
         /\ s > 0 => /\ item'.at = "queued" /\ item'.meta.attempts = 0
                     /\ item'.meta.nb = Clamp(s * TicksPerSecond, floored)
                     /\ item'.meta.nb \in Nat /\ (floored => item'.meta.floor)
<1> DEFINE r == [says |-> "ok", seconds |-> s, floor |-> floored]
           t == s * TicksPerSecond
<1>1. r.says = "ok" /\ r.seconds = s /\ r.floor = floored
  OBVIOUS
<1>2. t \in Nat /\ (s > 0 => t > 0)
  BY Times, OutcomesAssumption
<1>3. \/ s > 0 /\ UNCHANGED undone /\ Returns(m, DelayPlan(Clamp(t, floored), floored))
      \/ s <= 0 /\ UNCHANGED undone /\ Leaves("gone")
  BY <1>1 DEF Disposes
<1> HIDE DEF r, t
<1>4. CASE s > 0 /\ UNCHANGED undone /\ Returns(m, DelayPlan(Clamp(t, floored), floored))
  <2>1. Clamp(t, floored) \in Nat \ {0}
    BY <1>2, <1>4, ClampFacts
  <2> QED BY <1>4, <2>1, DelayReturns DEF t
<1>5. CASE s <= 0 /\ UNCHANGED undone /\ Leaves("gone")
  BY <1>5, LeavesQueue
<1> QED BY <1>3, <1>4, <1>5

\* The key is started: one attempt more.
LEMMA StartedAttempts ==
  ASSUME OutcomesIInv, item.at = "queued"
  PROVE  LET m == StartMetadata(item.meta) IN
         m.attempts \in Nat \ {0} /\ m.attempts <= lasting + 1
<1>1. /\ item.meta.attempts \in Nat \cup {NoAttempts} /\ item.meta.attempts <= lasting
      /\ lasting \in Nat
  BY DEF OutcomesIInv, AttemptsEarned
<1> QED BY <1>1 DEF StartMetadata, NoAttempts

\* A passing failure, or an error that asks for it, costs no attempt.
LEMMA PassingDisposed ==
  ASSUME OutcomesIInv, NEW m, NEW d \in Nat \ {0}, NEW floored \in BOOLEAN,
         item.at = "queued", UNCHANGED framework, cool' \in Nat,
         lasting' = 0,
         Disposes(m, [says |-> "ok", seconds |-> d \div TicksPerSecond, floor |-> floored]),
         spare' = 0 \/ (floored /\ spare' = Smaller((d \div TicksPerSecond) * TicksPerSecond,
                                                    MaximumRequeueFloor))
  PROVE  OutcomesIInv' /\ (TicksPerSecond <= d => item'.at = "queued")
<1> DEFINE s == d \div TicksPerSecond
           t == s * TicksPerSecond
<1>1. s \in Nat /\ (TicksPerSecond <= d => s > 0)
  BY WireSeconds
<1>2. t \in Nat /\ (s = 0 => t = 0) /\ MaximumRequeueFloor \in Nat \ {0}
  BY <1>1, Times, OutcomesAssumption
<1>3. /\ ItemShape' /\ UNCHANGED undone
      /\ s = 0 => item'.at = "gone"
      /\ s > 0 => /\ item'.at = "queued" /\ item'.meta.attempts = 0
                  /\ item'.meta.nb = Clamp(t, floored)
                  /\ item'.meta.nb \in Nat /\ (floored => item'.meta.floor)
  BY <1>1, RequeueDisposed DEF OutcomesIInv
<1>4. spare' = 0 \/ (floored /\ spare' = Smaller(t, MaximumRequeueFloor))
  OBVIOUS
<1>5. floored => Clamp(t, floored) = Smaller(t, MaximumRequeueFloor)
  BY <1>2, ClampFacts
<1> HIDE DEF s, t
<1>6. spare' \in Nat /\ FloorHeld'
  <2>1. CASE spare' = 0
    BY <2>1 DEF FloorHeld
  <2>2. CASE floored /\ spare' = Smaller(t, MaximumRequeueFloor)
    <3>1. CASE s = 0
      <4>1. spare' = 0
        BY <1>2, <2>2, <3>1 DEF Smaller
      <4> QED BY <4>1 DEF FloorHeld
    <3>2. CASE s > 0
      <4>1. spare' \in Nat /\ item'.meta.nb = spare' /\ item'.at = "queued" /\ item'.meta.floor
        BY <1>3, <1>5, <2>2, <3>2
      <4> QED BY <4>1 DEF FloorHeld
    <3> QED BY <1>1, <3>1, <3>2
  <2> QED BY <1>4, <2>1, <2>2
<1>7. AttemptsEarned' /\ OutagesKillNothing' /\ (TicksPerSecond <= d => item'.at = "queued")
  BY <1>1, <1>3 DEF AttemptsEarned, OutagesKillNothing
<1> QED BY <1>3, <1>6, <1>7 DEF OutcomesIInv

\* What is known to pass becomes a request to come back.
LEMMA KnownReconciled ==
  ASSUME OutcomesIInv, NEW e, Passing(framework, e) # {}, e.wait \in Nat \ {0},
         NEW seen \in Reconciled(framework, e)
  PROVE  \E d \in Nat \ {0}, floored \in BOOLEAN :
           /\ Response(framework, seen) =
                [says |-> "ok", seconds |-> d \div TicksPerSecond, floor |-> floored]
           /\ "requeue" \in seen.marks /\ seen.wait = d
           /\ First(framework, e) = "breaker" => floored /\ d = e.wait
<1> DEFINE F == First(framework, e)
<1>1. ASSUME NEW d, NEW floored \in BOOLEAN, seen = Asks(d, floored)
      PROVE  /\ Response(framework, seen) =
                  [says |-> "ok", seconds |-> d \div TicksPerSecond, floor |-> floored]
             /\ "requeue" \in seen.marks /\ seen.wait = d
  <2>1. /\ "requeue" \in seen.marks /\ seen.wait = d
        /\ ("floor" \in seen.marks) = floored
    BY <1>1 DEF Asks
  <2> QED BY <2>1 DEF Response
<1>2. CASE F = "breaker"
  <2>1. seen = Asks(e.wait, TRUE)
    BY <1>2 DEF Reconciled
  <2> QED BY <1>1, <2>1, Zenon
<1>3. CASE F # "breaker"
  <2>1. \E d \in Nat \ {0} : seen = Asks(d, FALSE)
    <3>1. CASE F = "transient"
      <4>1. seen \in {Asks(d, FALSE) : d \in Waits}
        BY <3>1 DEF Reconciled
      <4> QED BY <4>1, OutcomesAssumption
    <3>2. CASE F # "transient"
      <4>1. seen \in {Asks(d, FALSE) : d \in Jittered(e.wait)}
        BY <3>2, <1>3 DEF Reconciled
      <4>2. Jittered(e.wait) \subseteq Nat \ {0}
        BY DEF Jittered
      <4> QED BY <4>1, <4>2
    <3> QED BY <3>1, <3>2
  <2> QED BY <1>1, <1>3, <2>1, Zenon
<1> QED BY <1>2, <1>3

\* An error that neither passes nor asks to come back costs an attempt.
LEMMA LastingDisposed ==
  ASSUME OutcomesIInv, NEW e, NEW m, m.attempts \in Nat \ {0}, m.attempts <= lasting + 1,
         item.at = "queued", "requeue" \notin e.marks, UNCHANGED framework, cool' \in Nat,
         lasting' = lasting + 1, spare' = 0, declared' = (declared \/ "final" \in e.marks),
         Disposes(m, Response(framework, e))
  PROVE  OutcomesIInv' /\ (item'.at = "gone" => undone' = {} \/ declared')
<1> DEFINE r == Response(framework, e)
<1>1. \/ r = KeysToo
      \/ r = Success /\ "final" \in e.marks
      \/ r = Failure
  BY DEF Response
<1>2. maxRetry \in Nat /\ lasting + 1 \in Nat /\ ItemShape
  BY OutcomesAssumption DEF OutcomesIInv
<1>3. /\ r.seconds = 0 /\ ~(r.seconds > 0)
      /\ r = KeysToo => r.says = "keys"
      /\ r = Success => r.says = "ok"
      /\ r = Failure => r.says = "error"
  BY <1>1 DEF KeysToo, Success, Failure
<1>4. Disposes(m, r)
  OBVIOUS
<1> HIDE DEF r
<1>5. \/ Leaves("gone") /\ (undone' = {} \/ "final" \in e.marks)
      \/ Leaves("dead") /\ m.attempts >= maxRetry
      \/ \E plan : plan.kind # "delay" /\ Returns(m, plan)
  <2>1. CASE r = KeysToo
    <3>1. PlainPlan.kind # "delay"
      BY DEF PlainPlan
    <3> QED BY <1>3, <1>4, <2>1, <3>1 DEF Disposes
  <2>2. CASE r = Success /\ "final" \in e.marks
    BY <1>3, <1>4, <2>2 DEF Disposes
  <2>3. CASE r = Failure
    <3>1. \A d : BackoffPlan(d).kind # "delay"
      BY DEF BackoffPlan
    <3> QED BY <1>3, <1>4, <2>3, <3>1 DEF Disposes
  <2> QED BY <1>1, <2>1, <2>2, <2>3
<1>6. CASE Leaves("gone") /\ (undone' = {} \/ "final" \in e.marks)
  <2>1. ItemShape' /\ item'.at = "gone"
    BY <1>2, <1>6, LeavesQueue
  <2>2. OutcomesIInv'
    BY <1>2, <2>1 DEF OutcomesIInv, FloorHeld, AttemptsEarned, OutagesKillNothing
  <2> QED BY <1>6, <2>2
<1>7. CASE Leaves("dead") /\ m.attempts >= maxRetry
  <2>1. ItemShape' /\ item'.at = "dead"
    BY <1>2, <1>7, LeavesQueue
  <2>2. lasting' >= maxRetry
    BY <1>2, <1>7
  <2> QED BY <1>2, <2>1, <2>2 DEF OutcomesIInv, FloorHeld, AttemptsEarned, OutagesKillNothing
<1>8. CASE \E plan : plan.kind # "delay" /\ Returns(m, plan)
  <2>1. ItemShape' /\ item'.at = "queued" /\ item'.meta.attempts = m.attempts
    BY <1>2, <1>8, CountReturns
  <2> QED BY <1>2, <2>1 DEF OutcomesIInv, FloorHeld, AttemptsEarned, OutagesKillNothing
<1> QED BY <1>5, <1>6, <1>7, <1>8

LEMMA RunReturnsInv ==
  ASSUME OutcomesIInv, NEW e, e.wait \in Nat \ {0}, Ready, RunReturns(e), cool' \in Nat
  PROVE  OutcomesIInv' /\ OnlyShortDelaysDrop'
<1> DEFINE m == StartMetadata(item.meta)
<1>1. item.at = "queued" /\ UNCHANGED framework
      /\ framework \in {"github", "linear", "oci", "apk"}
  BY DEF Ready, RunReturns, OutcomesIInv
<1>2. m.attempts \in Nat \ {0} /\ m.attempts <= lasting + 1
  BY <1>1, StartedAttempts
<1>3. PICK seen \in Reconciled(framework, e) :
        /\ Disposes(m, Response(framework, seen))
        /\ shortened' = ("requeue" \in seen.marks /\ seen.wait < TicksPerSecond)
  BY DEF RunReturns
<1>4. /\ declared' = (declared \/ "final" \in e.marks)
      /\ spare' = SpareTime(framework, e)
      /\ lasting' = IF LastingFailure(framework, e) THEN lasting + 1 ELSE 0
  BY Zenon DEF RunReturns
<1> HIDE DEF m
<1>5. CASE Passing(framework, e) # {}
  <2>1. PICK d \in Nat \ {0}, floored \in BOOLEAN :
           /\ Response(framework, seen) =
                [says |-> "ok", seconds |-> d \div TicksPerSecond, floor |-> floored]
           /\ "requeue" \in seen.marks /\ seen.wait = d
           /\ First(framework, e) = "breaker" => floored /\ d = e.wait
    BY <1>5, KnownReconciled
  <2>2. lasting' = 0
    BY <1>4, <1>5 DEF LastingFailure
  <2>3. spare' = 0 \/ (floored /\ spare' = Smaller((d \div TicksPerSecond) * TicksPerSecond,
                                                    MaximumRequeueFloor))
    BY <1>4, <1>5, <2>1 DEF SpareTime
  <2>4. OutcomesIInv' /\ (TicksPerSecond <= d => item'.at = "queued")
    BY <1>1, <1>3, <2>1, <2>2, <2>3, PassingDisposed
  <2>5. ~shortened' => ~(d < TicksPerSecond)
    BY <1>3, <2>1, Zenon
  <2>6. ~(d < TicksPerSecond) => TicksPerSecond <= d
    BY OutcomesAssumption, SMT
  <2> QED BY <2>4, <2>5, <2>6, Zenon DEF OnlyShortDelaysDrop
<1>6. CASE Passing(framework, e) = {}
  <2>1. seen = e /\ spare' = 0
    BY <1>4, <1>6 DEF Reconciled, SpareTime
  <2>2. CASE "requeue" \in e.marks
    <3>1. lasting' = 0
      BY <1>4, <2>2 DEF LastingFailure
    <3>2. Response(framework, e) = [says |-> "ok", seconds |-> e.wait \div TicksPerSecond,
                                    floor |-> "floor" \in e.marks]
      BY <2>2 DEF Response
    <3>3. ("floor" \in e.marks) \in BOOLEAN
      OBVIOUS
    <3>4. OutcomesIInv' /\ (TicksPerSecond <= e.wait => item'.at = "queued")
      BY <1>1, <1>3, <2>1, <3>1, <3>2, <3>3, PassingDisposed
    <3>5. ~shortened' => ~(e.wait < TicksPerSecond)
      BY <1>3, <2>1, <2>2, Zenon
    <3>6. ~(e.wait < TicksPerSecond) => TicksPerSecond <= e.wait
      BY OutcomesAssumption, SMT
    <3> QED BY <3>4, <3>5, <3>6, Zenon DEF OnlyShortDelaysDrop
  <2>3. CASE "requeue" \notin e.marks
    <3>1. lasting' = lasting + 1
      BY <1>4, <1>6, <2>3 DEF LastingFailure
    <3>2. OutcomesIInv' /\ (item'.at = "gone" => undone' = {} \/ declared')
      BY <1>1, <1>2, <1>3, <1>4, <2>1, <2>3, <3>1, LastingDisposed
    <3> QED BY <3>2 DEF OnlyShortDelaysDrop
  <2> QED BY <2>2, <2>3
<1> QED BY <1>5, <1>6

-----------------------------------------------------------------------------
(* The other steps.                                                        *)

LEMMA EventInv ==
  ASSUME OutcomesIInv, OnlyShortDelaysDrop, Event PROVE OutcomesIInv' /\ OnlyShortDelaysDrop'
<1>1. /\ DOMAIN Fresh = {"prio", "nb", "floor", "attempts"} /\ Fresh.attempts = NoAttempts
      /\ Fresh.floor = FALSE
  BY DEF Fresh, Written
<1>2. item' = [at |-> "queued",
               meta |-> IF item.at = "gone" THEN Fresh ELSE MergeMetadata(item.meta, Fresh)]
      /\ UNCHANGED <<framework, cool, spare>> /\ item.at \in {"queued", "gone"}
      /\ lasting' = IF item.at = "gone" THEN 0 ELSE lasting
  BY DEF Event, OutcomesIInv, ItemShape
<1>3. item'.at = "queued"
  BY <1>2
<1>4. CASE item.at = "gone"
  <2>1. item'.meta = Fresh /\ lasting' = 0 /\ DOMAIN item' = {"at", "meta"}
    BY <1>2, <1>4
  <2>2. ~(spare > 0)
    BY <1>4 DEF OutcomesIInv, FloorHeld
  <2> QED BY <1>1, <1>2, <1>3, <2>1, <2>2
    DEF OutcomesIInv, ItemShape, FloorHeld, AttemptsEarned, OutagesKillNothing, NoAttempts,
        OnlyShortDelaysDrop
<1>5. CASE item.at = "queued"
  <2> DEFINE m == MergeMetadata(item.meta, Fresh)
  <2>1. /\ DOMAIN m = {"prio", "nb", "floor", "attempts"}
        /\ m.attempts = item.meta.attempts /\ (item.meta.floor => m.floor)
        /\ item.meta.floor => m.nb = item.meta.nb
    BY <1>1 DEF MergeMetadata, MergeNotBefore
  <2> HIDE DEF m
  <2>2. item'.meta = m /\ DOMAIN item' = {"at", "meta"} /\ lasting' = lasting
    BY <1>2, <1>5 DEF m
  <2> QED BY <1>2, <1>3, <1>5, <2>1, <2>2
    DEF OutcomesIInv, ItemShape, FloorHeld, AttemptsEarned, OutagesKillNothing,
        OnlyShortDelaysDrop
<1> QED BY <1>2, <1>4, <1>5

LEMMA OutcomesTickInv ==
  ASSUME OutcomesIInv, OnlyShortDelaysDrop, OutcomesTick PROVE OutcomesIInv' /\ OnlyShortDelaysDrop'
<1>1. /\ item' = [item EXCEPT !.meta.nb = Elapsed(item.meta.nb)]
      /\ cool' = Elapsed(cool) /\ spare' = Elapsed(spare)
      /\ UNCHANGED <<framework, undone, declared, lasting, shortened>>
  BY DEF OutcomesTick
<1>2. ItemShape' /\ item'.at = item.at /\ item'.meta.nb = Elapsed(item.meta.nb)
      /\ item'.meta.attempts = item.meta.attempts /\ item'.meta.floor = item.meta.floor
  BY <1>1 DEF OutcomesIInv, ItemShape
<1>3. cool' \in Nat /\ spare' \in Nat
  BY <1>1 DEF OutcomesIInv, Elapsed
<1>4. FloorHeld'
  <2> SUFFICES ASSUME spare' > 0
               PROVE  /\ item'.at = "queued" /\ item'.meta.floor
                      /\ item'.meta.nb \in Nat /\ item'.meta.nb >= spare'
    BY DEF FloorHeld
  <2>1. spare > 0 /\ spare' = spare - 1 /\ spare \in Nat
    BY <1>1 DEF Elapsed, OutcomesIInv
  <2>2. /\ item.at = "queued" /\ item.meta.floor
        /\ item.meta.nb \in Nat /\ item.meta.nb >= spare
    BY <2>1 DEF OutcomesIInv, FloorHeld
  <2>3. item'.meta.nb \in Nat /\ item'.meta.nb >= spare'
    BY <1>2, <2>1, <2>2 DEF Elapsed
  <2> QED BY <1>2, <2>2, <2>3
<1> QED BY <1>1, <1>2, <1>3, <1>4
  DEF OutcomesIInv, AttemptsEarned, OutagesKillNothing, OnlyShortDelaysDrop

LEMMA OutcomesStepInv ==
  OutcomesIInv /\ OnlyShortDelaysDrop /\ [OutcomesNext]_outcomesVars
    => OutcomesIInv' /\ OnlyShortDelaysDrop'
<1> SUFFICES ASSUME OutcomesIInv, OnlyShortDelaysDrop, [OutcomesNext]_outcomesVars
             PROVE  OutcomesIInv' /\ OnlyShortDelaysDrop'
  OBVIOUS
<1>1. CASE RunSucceeds
  <2>1. /\ ItemShape' /\ item'.at = "gone" /\ undone' = {} /\ lasting' = 0 /\ spare' = 0
        /\ UNCHANGED <<framework, cool>>
    BY <1>1, LeavesQueue DEF RunSucceeds, OutcomesIInv
  <2> QED BY <2>1 DEF OutcomesIInv, FloorHeld, AttemptsEarned, OutagesKillNothing,
                      OnlyShortDelaysDrop
<1>2. CASE RunRefused
  <2> DEFINE e == [marks |-> {"breaker"}, wait |-> cool]
  <2>1. e.wait \in Nat \ {0} /\ Ready /\ RunReturns(e) /\ cool' \in Nat
    BY <1>2 DEF RunRefused, OutcomesIInv
  <2> QED BY <2>1, RunReturnsInv
<1>3. CASE RunTrips
  <2> DEFINE e == [marks |-> {"breaker"}, wait |-> cool']
  <2>1. e.wait \in Nat \ {0} /\ Ready /\ RunReturns(e) /\ cool' \in Nat
    BY <1>3, OutcomesAssumption DEF RunTrips
  <2> QED BY <2>1, RunReturnsInv
<1>4. CASE RunFails
  <2>1. PICK e \in Errors : RunReturns(e)
    BY <1>4 DEF RunFails
  <2>2. e.wait \in Nat \ {0} /\ Ready /\ cool' \in Nat
    BY <1>4, OutcomesAssumption DEF RunFails, Errors, OutcomesIInv
  <2> QED BY <2>1, <2>2, RunReturnsInv
<1>5. CASE HostFails
  <2>1. cool' \in Nat /\ UNCHANGED <<framework, item, undone, declared, spare, lasting, shortened>>
    BY <1>5, OutcomesAssumption DEF HostFails
  <2> QED BY <2>1 DEF OutcomesIInv, ItemShape, FloorHeld, AttemptsEarned, OutagesKillNothing,
                      OnlyShortDelaysDrop
<1>6. CASE Event
  BY <1>6, EventInv
<1>7. CASE OutcomesTick
  BY <1>7, OutcomesTickInv
<1>8. CASE UNCHANGED outcomesVars
  BY <1>8 DEF outcomesVars, OutcomesIInv, ItemShape, FloorHeld, AttemptsEarned,
              OutagesKillNothing, OnlyShortDelaysDrop
<1> QED BY <1>1, <1>2, <1>3, <1>4, <1>5, <1>6, <1>7, <1>8 DEF OutcomesNext

LEMMA HostIsSpared ==
  OutcomesIInv
    => [RunSucceeds \/ RunRefused \/ RunTrips \/ RunFails => spare = 0]_outcomesVars
<1> SUFFICES ASSUME OutcomesIInv, RunSucceeds \/ RunRefused \/ RunTrips \/ RunFails
             PROVE  spare = 0
  OBVIOUS
<1>1. item.meta.nb = 0
  BY DEF RunSucceeds, RunRefused, RunTrips, RunFails, Ready
<1> QED BY <1>1 DEF OutcomesIInv, FloorHeld

-----------------------------------------------------------------------------
(* The types of Outcomes.                                                  *)

\* A key's metadata is as Scheduling's.
Items == [at : {"queued", "gone", "dead"}, meta : Meta]

OutcomesTyped ==
  /\ framework \in Frameworks /\ item \in Items
  /\ undone \subseteq {"work", "keys"} /\ declared \in BOOLEAN /\ shortened \in BOOLEAN
  /\ upsets \in 0 .. MaxUpsets

LEMMA FreshIsMeta == Fresh \in Meta
<1>1. 0 \in Priority
  <2>1. MaxPriority \in Nat
    BY SMT DEF MaxPriority
  <2> QED BY <2>1, SMT DEF Priority
<1> QED BY <1>1 DEF Fresh, Written, Padded, PriorityText, Meta

LEMMA StartedOutcome == ASSUME NEW m \in Meta PROVE StartMetadata(m) \in StartedMeta
BY DEF StartMetadata, Meta, StartedMeta, NoAttempts

LEMMA ReturnedOutcome ==
  ASSUME NEW m \in StartedMeta, NEW p \in Plans PROVE RequeueMetadata(m, p, 0) \in Meta
<1>1. m.attempts \in Nat /\ m.nb \in Nat /\ m.floor \in BOOLEAN /\ m.prio \in PriorityText
  BY DEF StartedMeta
<1>2. LinearBackoff(m.attempts) \in Nat
  BY <1>1, BackoffAssumption DEF LinearBackoff, Smaller
<1>3. p.delay \in Nat /\ p.floor \in BOOLEAN
  BY DEF Plans
<1>4. Unpadded(m.prio.value) \in PriorityText
  BY <1>1 DEF PriorityText, Unpadded
<1> QED BY <1>1, <1>2, <1>3, <1>4 DEF RequeueMetadata, Meta

LEMMA BackoffIsNat == ASSUME NEW n \in Nat \ {0} PROVE Backoff(n) \in Nat
<1>1. n - 1 \in Nat /\ MaximumBackoffPeriod \in Nat
  BY BackoffAssumption
<1>2. RetryDelay[n - 1] \in Nat
  BY <1>1, RetryDelayFacts
<1> QED BY <1>1, <1>2 DEF Backoff, Smaller

\* Whatever the response, the key keeps its metadata, or has what a requeue gives it.
LEMMA DisposedTyped ==
  ASSUME OutcomesTyped, NEW m \in StartedMeta, NEW r,
         r.seconds \in Nat, r.floor \in BOOLEAN, Disposes(m, r)
  PROVE  item' \in Items /\ undone' \subseteq {"work", "keys"}
<1>1. item \in Items /\ undone \subseteq {"work", "keys"}
  BY DEF OutcomesTyped
<1>2. ASSUME NEW place \in {"gone", "dead"}, Leaves(place) PROVE item' \in Items
  BY <1>1, <1>2 DEF Leaves, Items
<1>3. ASSUME NEW plan \in Plans, Returns(m, plan) PROVE item' \in Items
  <2>1. RequeueMetadata(m, plan, 0) \in Meta
    BY ReturnedOutcome
  <2>2. PICK x \in Meta : x = RequeueMetadata(m, plan, 0)
    BY <2>1
  <2>3. item' = [item EXCEPT !.meta = x]
    BY <1>3, <2>2 DEF Returns
  <2> QED BY <1>1, <2>3 DEF Items
<1>4. m.attempts \in Nat \ {0}
  BY DEF StartedMeta
<1>5. Clamp(r.seconds * TicksPerSecond, r.floor) \in Nat
  <2>1. PICK t \in Nat : t = r.seconds * TicksPerSecond
    BY OutcomesAssumption, Times
  <2> QED BY <2>1, OutcomesAssumption DEF Clamp, Smaller
<1>6. /\ DelayPlan(Clamp(r.seconds * TicksPerSecond, r.floor), r.floor) \in Plans
      /\ PlainPlan \in Plans /\ BackoffPlan(Backoff(m.attempts)) \in Plans
  BY <1>4, <1>5, BackoffIsNat DEF DelayPlan, PlainPlan, BackoffPlan, Plans
<1>7. "gone" \in {"gone", "dead"} /\ "dead" \in {"gone", "dead"}
  OBVIOUS
<1> QED BY <1>1, <1>2, <1>3, <1>6, <1>7, Zenon DEF Disposes

LEMMA RunTyped ==
  ASSUME OutcomesTyped, OutcomesIInv, NEW e, e.wait \in Nat \ {0}, RunReturns(e),
         upsets' \in 0 .. MaxUpsets
  PROVE  OutcomesTyped'
<1>1. PICK seen \in Reconciled(framework, e) :
        /\ Disposes(StartMetadata(item.meta), Response(framework, seen))
        /\ shortened' = ("requeue" \in seen.marks /\ seen.wait < TicksPerSecond)
  BY DEF RunReturns
<1>2. /\ declared' = (declared \/ "final" \in e.marks) /\ UNCHANGED framework
      /\ framework \in Frameworks /\ declared \in BOOLEAN /\ item.meta \in Meta
  BY DEF RunReturns, OutcomesTyped, Items
<1>3. Response(framework, seen).seconds \in Nat /\ Response(framework, seen).floor \in BOOLEAN
  <2>1. CASE Passing(framework, e) # {}
    BY <2>1, KnownReconciled, WireSeconds
  <2>2. CASE Passing(framework, e) = {}
    <3>1. seen = e
      BY <2>2 DEF Reconciled
    <3>2. e.wait \div TicksPerSecond \in Nat
      BY WireSeconds
    <3>3. CASE "requeue" \in e.marks
      <4>1. PICK b : b = ("floor" \in e.marks)
        OBVIOUS
      <4>2. PICK n \in Nat : n = e.wait \div TicksPerSecond
        BY <3>2
      <4>3. Response(framework, e) = [says |-> "ok", seconds |-> n, floor |-> b]
        BY <3>3, <4>1, <4>2, Zenon DEF Response
      <4>4. b \in BOOLEAN
        BY <4>1
      <4>5. Response(framework, e).seconds = n /\ Response(framework, e).floor = b
        BY <4>3
      <4> QED BY <3>1, <4>2, <4>4, <4>5, Zenon
    <3>4. CASE "requeue" \notin e.marks
      <4>1. \/ Response(framework, e) = KeysToo \/ Response(framework, e) = Success
            \/ Response(framework, e) = Failure
        BY <3>4, Zenon DEF Response
      <4>2. /\ KeysToo.seconds = 0 /\ Success.seconds = 0 /\ Failure.seconds = 0
            /\ KeysToo.floor = FALSE /\ Success.floor = FALSE /\ Failure.floor = FALSE
        BY DEF KeysToo, Success, Failure
      <4>3. 0 \in Nat /\ FALSE \in BOOLEAN
        OBVIOUS
      <4> QED BY <3>1, <4>1, <4>2, <4>3, Zenon
    <3> QED BY <3>3, <3>4
  <2> QED BY <2>1, <2>2
<1>4. item' \in Items /\ undone' \subseteq {"work", "keys"}
  BY <1>1, <1>2, <1>3, StartedOutcome, DisposedTyped
<1>5. declared' \in BOOLEAN /\ shortened' \in BOOLEAN
  BY <1>1, <1>2, Zenon
<1> QED BY <1>2, <1>4, <1>5, Zenon DEF OutcomesTyped

LEMMA OutcomesInitTyped == OutcomesInit => OutcomesTyped
<1> SUFFICES ASSUME OutcomesInit PROVE OutcomesTyped
  OBVIOUS
<1>1. framework \in Frameworks /\ item \in Items /\ undone \subseteq {"work", "keys"}
  BY FreshIsMeta DEF OutcomesInit, Items
<1>2. declared \in BOOLEAN /\ shortened \in BOOLEAN
  BY Zenon DEF OutcomesInit
<1>3. upsets \in 0 .. MaxUpsets
  BY OutcomesAssumption DEF OutcomesInit
<1> QED BY <1>1, <1>2, <1>3, Zenon DEF OutcomesTyped

LEMMA OutcomesStepTyped ==
  OutcomesTyped /\ OutcomesIInv /\ [OutcomesNext]_outcomesVars => OutcomesTyped'
<1> SUFFICES ASSUME OutcomesTyped, OutcomesIInv, [OutcomesNext]_outcomesVars
             PROVE  OutcomesTyped'
  OBVIOUS
<1>1. /\ framework \in Frameworks /\ item \in Items
      /\ declared \in BOOLEAN /\ shortened \in BOOLEAN
      /\ undone \subseteq {"work", "keys"} /\ upsets \in 0 .. MaxUpsets
      /\ MaxUpsets \in Nat
  BY OutcomesAssumption DEF OutcomesTyped
<1>2. CASE RunSucceeds
  BY <1>1, <1>2 DEF RunSucceeds, Leaves, Items, OutcomesTyped
<1>3. CASE RunRefused
  <2> DEFINE e == [marks |-> {"breaker"}, wait |-> cool]
  <2>1. e.wait \in Nat \ {0} /\ RunReturns(e) /\ upsets' = upsets
    BY <1>3 DEF RunRefused, OutcomesIInv
  <2> QED BY <1>1, <2>1, RunTyped
<1>4. CASE RunTrips
  <2> DEFINE e == [marks |-> {"breaker"}, wait |-> cool']
  <2>1. e.wait \in Nat \ {0} /\ RunReturns(e) /\ upsets' \in 0 .. MaxUpsets
    BY <1>1, <1>4, OutcomesAssumption DEF RunTrips, Upset
  <2> QED BY <2>1, RunTyped
<1>5. CASE RunFails
  <2>1. PICK e \in Errors : RunReturns(e)
    BY <1>5 DEF RunFails
  <2>2. e.wait \in Nat \ {0} /\ upsets' \in 0 .. MaxUpsets
    BY <1>1, <1>5, OutcomesAssumption DEF RunFails, Errors, Upset
  <2> QED BY <2>1, <2>2, RunTyped
<1>6. CASE HostFails
  <2>1. upsets' \in 0 .. MaxUpsets
    BY <1>1, <1>6 DEF HostFails, Upset
  <2> QED BY <1>1, <1>6, <2>1 DEF HostFails, OutcomesTyped
<1>7. CASE Event
  <2>1. upsets' \in 0 .. MaxUpsets /\ framework' = framework
    BY <1>1, <1>7 DEF Event, Upset
  <2>2. MergeMetadata(item.meta, Fresh) \in Meta
    BY <1>1, FreshIsMeta DEF MergeMetadata, MergeNotBefore, Meta, Items
  <2>3. item' \in Items
    BY <1>7, <2>2, FreshIsMeta DEF Event, Items
  <2>4. undone' \subseteq {"work", "keys"}
    BY <1>1, <1>7 DEF Event
  <2>5. declared' \in BOOLEAN /\ shortened' \in BOOLEAN
    BY <1>1, <1>7 DEF Event
  <2> QED BY <1>1, <2>1, <2>3, <2>4, <2>5 DEF OutcomesTyped
<1>8. CASE OutcomesTick
  <2>1. PICK x : x = Elapsed(item.meta.nb)
    OBVIOUS
  <2>2. x \in Nat
    BY <1>1, <2>1 DEF Items, Meta, Elapsed
  <2>3. /\ item' = [item EXCEPT !.meta.nb = x]
        /\ UNCHANGED <<framework, undone, declared, shortened, upsets>>
    BY <1>8, <2>1 DEF OutcomesTick
  <2>4. [item.meta EXCEPT !.nb = x] \in Meta
    BY <1>1, <2>2 DEF Items, Meta
  <2>5. item' \in Items
    BY <1>1, <2>3, <2>4 DEF Items
  <2> QED BY <1>1, <2>3, <2>5 DEF OutcomesTyped
<1>9. CASE UNCHANGED outcomesVars
  BY <1>1, <1>9 DEF outcomesVars, OutcomesTyped
<1> QED
  BY <1>2, <1>3, <1>4, <1>5, <1>6, <1>7, <1>8, <1>9 DEF OutcomesNext

LEMMA OutcomesTypesHold == OutcomesTyped /\ OutcomesIInv => OutcomesTypeOK
BY DEF OutcomesTyped, OutcomesIInv, OutcomesTypeOK, Items

-----------------------------------------------------------------------------
(***************************************************************************)
(* Proofs about ClonePool, for every set of reconcilers and any bound on   *)
(* fetches.                                                                *)
(***************************************************************************)

\* No element of a sequence is repeated.
NoRepeats(s) == \A i, j \in DOMAIN s : s[i] = s[j] => i = j

\* Taking the head of a list of available clones takes it out of the list.
LEMMA TakeHead ==
  ASSUME NEW S, NEW s \in Seq(S), s # <<>>, NoRepeats(s)
  PROVE  /\ Head(s) \in S /\ Tail(s) \in Seq(S) /\ NoRepeats(Tail(s))
         /\ ToSet(s) = ToSet(Tail(s)) \cup {Head(s)}
         /\ Head(s) \notin ToSet(Tail(s))
<1> DEFINE t == Tail(s)
<1>1. /\ Len(s) \in Nat \ {0} /\ DOMAIN s = 1 .. Len(s) /\ Head(s) = s[1]
      /\ t \in Seq(S) /\ DOMAIN t = 1 .. (Len(s) - 1) /\ Head(s) \in S
  OBVIOUS
<1>2. \A i \in 1 .. (Len(s) - 1) : t[i] = s[i + 1]
  OBVIOUS
<1> HIDE DEF t
<1>3. NoRepeats(t)
  <2> SUFFICES ASSUME NEW i \in DOMAIN t, NEW j \in DOMAIN t, t[i] = t[j] PROVE i = j
    BY DEF NoRepeats
  <2>1. i + 1 \in DOMAIN s /\ j + 1 \in DOMAIN s /\ s[i + 1] = s[j + 1] /\ i \in Int /\ j \in Int
    BY <1>1, <1>2
  <2>2. i + 1 = j + 1
    BY <2>1 DEF NoRepeats
  <2> QED BY <2>1, <2>2
<1>4. ToSet(s) \subseteq ToSet(t) \cup {Head(s)}
  <2> SUFFICES ASSUME NEW i \in DOMAIN s, i # 1 PROVE s[i] \in ToSet(t)
    BY <1>1 DEF ToSet
  <2>1. i - 1 \in DOMAIN t /\ t[i - 1] = s[i]
    BY <1>1, <1>2
  <2> QED BY <2>1 DEF ToSet
<1>5. \A i \in DOMAIN t : t[i] \in ToSet(s) /\ t[i] # Head(s)
  <2> SUFFICES ASSUME NEW i \in DOMAIN t PROVE t[i] \in ToSet(s) /\ t[i] # Head(s)
    OBVIOUS
  <2>1. i \in Int /\ i >= 1 /\ i + 1 \in DOMAIN s /\ t[i] = s[i + 1] /\ 1 \in DOMAIN s
    BY <1>1, <1>2
  <2>2. i + 1 # 1
    BY <2>1
  <2> QED BY <1>1, <2>1, <2>2 DEF ToSet, NoRepeats
<1>6. Head(s) \in ToSet(s)
  BY <1>1 DEF ToSet
<1> QED BY <1>1, <1>3, <1>4, <1>5, <1>6 DEF t, ToSet

\* Putting one that is not there adds it.
LEMMA PutLast ==
  ASSUME NEW S, NEW s \in Seq(S), NEW d \in S, d \notin ToSet(s), NoRepeats(s)
  PROVE  /\ Append(s, d) \in Seq(S) /\ NoRepeats(Append(s, d))
         /\ ToSet(Append(s, d)) = ToSet(s) \cup {d}
<1> DEFINE t == Append(s, d)
<1>1. /\ Len(s) \in Nat /\ DOMAIN s = 1 .. Len(s) /\ DOMAIN t = 1 .. (Len(s) + 1)
      /\ t \in Seq(S) /\ t[Len(s) + 1] = d
  OBVIOUS
<1>2. \A i \in 1 .. Len(s) : t[i] = s[i] /\ s[i] # d
  BY DEF ToSet
<1> HIDE DEF t
<1>3. NoRepeats(t)
  BY <1>1, <1>2 DEF NoRepeats
<1>4. ToSet(t) = ToSet(s) \cup {d}
  BY <1>1, <1>2 DEF ToSet
<1> QED BY <1>1, <1>3, <1>4 DEF t

-----------------------------------------------------------------------------
(* The invariant.                                                          *)

\* Who has which directory.
Dedicated ==
  /\ \A v, w \in Holders : v # w => Dir(v) # Dir(w)
  /\ \A w \in Holders : Dir(w) \notin ToSet(pool)
  /\ NoRepeats(pool)
  /\ disk = ToSet(pool) \cup {Dir(w) : w \in Holders}

DisksBounded == IsFiniteSet(disk) /\ Cardinality(disk) <= Cardinality(Reconcilers)

\* A clone that a lease may begin with.
Reset(c) == c.changed = {} /\ c.new = {} /\ ~WornOut(c)

\* What the clone of a reconciler holds, stage by stage.
CloneFits(w, c) ==
  LET h == held[w] IN
  /\ h.at \in {"creating", "preparing"} => Reset(c)
  /\ h.at = "leased" => c.changed = {} /\ c.new = {} /\ c.head = h.sha
  /\ h.at = "editing" => c.changed \subseteq {w} /\ c.new \subseteq {w} /\ c.head = h.sha
  /\ h.at = "committed" => c.head \subseteq h.sha \cup {w}

NotOverfetched(c) == maxFetches > 0 => c.fetches <= maxFetches

ContentsFit ==
  /\ \A d \in ToSet(pool) \cup (Dirs \ disk) : Reset(clone[d])
  /\ \A w \in Holders : CloneFits(w, clone[Dir(w)])
  /\ \A d \in Dirs : NotOverfetched(clone[d])

PoolIInv == PoolTypeOK /\ Dedicated /\ DisksBounded /\ ContentsFit

LEMMA CommitsGrow ==
  /\ Root \in Commits
  /\ \A c \in Commits, e \in SUBSET Reconcilers : c \cup e \in Commits
  /\ \A c, e \in Commits : c \cup e \in Commits
<1>1. Root \cup {} = Root
  OBVIOUS
<1>2. ASSUME NEW c \in Commits, NEW e \in SUBSET Reconcilers PROVE c \cup e \in Commits
  <2>1. PICK x \in SUBSET Reconcilers : c = Root \cup x
    BY DEF Commits
  <2>2. c \cup e = Root \cup (x \cup e) /\ x \cup e \in SUBSET Reconcilers
    BY <2>1
  <2> QED BY <2>2 DEF Commits
<1>3. ASSUME NEW c \in Commits, NEW e \in Commits PROVE c \cup e \in Commits
  <2>1. PICK x \in SUBSET Reconcilers : e = Root \cup x
    BY DEF Commits
  <2>2. PICK y \in SUBSET Reconcilers : c = Root \cup y
    BY DEF Commits
  <2>3. c \cup e = c \cup x
    BY <2>1, <2>2
  <2> QED BY <1>2, <2>3
<1> QED BY <1>1, <1>2, <1>3 DEF Commits

LEMMA FreshClone ==
  ASSUME NEW c \in Commits
  PROVE  /\ Clone(c) \in [head : Commits, changed : SUBSET Reconcilers,
                          new : SUBSET Reconcilers, fetches : Nat]
         /\ Reset(Clone(c)) /\ NotOverfetched(Clone(c)) /\ Clone(c).fetches = 0
BY PoolAssumption DEF Clone, Reset, WornOut, NotOverfetched

Leases ==
  [at : {"idle", "creating", "preparing", "leased", "editing", "committed", "returning"},
   dir : Dirs \cup {NoDir}, ref : Refs, sha : Commits \cup {NoCommit}, branch : Refs]

\* One reconciler's lease is replaced.
LEMMA LeaseSet ==
  ASSUME PoolTypeOK, NEW w \in Reconcilers, NEW h \in Leases, held' = [held EXCEPT ![w] = h]
  PROVE  /\ held' \in [Reconcilers -> Leases] /\ held'[w] = h
         /\ \A v \in Reconcilers \ {w} : held'[v] = held[v]
BY DEF PoolTypeOK, Leases

LEMMA NewLease ==
  ASSUME NEW at \in {"creating", "preparing", "returning"}, NEW d \in Dirs, NEW f \in Refs
  PROVE  LET h == [NotHeld EXCEPT !.at = at, !.dir = d, !.ref = f] IN
         h \in Leases /\ h.at = at /\ h.dir = d
BY DEF NotHeld, Leases, Refs, NoCommit

LEMMA PoolInitInv == PoolInit => PoolIInv
<1> SUFFICES ASSUME PoolInit PROVE PoolIInv
  OBVIOUS
<1>1. PoolTypeOK
  BY CommitsGrow, FreshClone
  DEF PoolInit, PoolTypeOK, Refs, NotHeld, NoCommit, NoDir
<1>2. Holders = {} /\ ToSet(pool) = {} /\ NoRepeats(pool)
  BY DEF PoolInit, Holders, NotHeld, ToSet, NoRepeats
<1>3. Dedicated
  BY <1>2 DEF Dedicated, PoolInit
<1>4. DisksBounded
  BY PoolAssumption, FS_EmptySet, FS_CardinalityType DEF DisksBounded, PoolInit
<1>5. ContentsFit
  BY <1>2, CommitsGrow, FreshClone DEF ContentsFit, PoolInit
<1> QED BY <1>1, <1>3, <1>4, <1>5 DEF PoolIInv

-----------------------------------------------------------------------------
(* Steps of a lease that keep its directory.                               *)

LEMMA HolderFacts ==
  ASSUME PoolIInv, NEW w \in Reconcilers, held[w].at # "idle"
  PROVE  /\ w \in Holders /\ Dir(w) \in Dirs /\ Dir(w) \in disk /\ Dir(w) \notin ToSet(pool)
         /\ CloneFits(w, clone[Dir(w)]) /\ NotOverfetched(clone[Dir(w)])
         /\ \A v \in Holders : v # w => Dir(v) # Dir(w)
<1>1. w \in Holders
  BY DEF Holders
<1>2. Dir(w) \in disk /\ disk \subseteq Dirs
  BY <1>1 DEF PoolIInv, PoolTypeOK, Dedicated
<1> QED BY <1>1, <1>2 DEF PoolIInv, Dedicated, ContentsFit

\* What such a step must show: the rest follows.
LEMMA LeaseGoesOn ==
  ASSUME PoolIInv, NEW w \in Reconcilers, held[w].at # "idle",
         held'[w].at # "idle", held'[w].dir = held[w].dir,
         \A v \in Reconcilers \ {w} : held'[v] = held[v],
         \A d \in Dirs \ {Dir(w)} : clone'[d] = clone[d],
         UNCHANGED <<disk, pool>>,
         PoolTypeOK', CloneFits(w, clone[Dir(w)])', NotOverfetched(clone'[Dir(w)])
  PROVE  PoolIInv'
<1>1. Holders' = Holders /\ \A v \in Reconcilers : held'[v].dir = held[v].dir
  BY DEF Holders
<1>2. {held'[v].dir : v \in Holders'} = {held[v].dir : v \in Holders}
  BY <1>1 DEF Holders
<1>3. Dedicated'
  BY <1>1, <1>2 DEF PoolIInv, Dedicated, Dir, Holders
<1>4. DisksBounded'
  BY DEF PoolIInv, DisksBounded
<1>5. ContentsFit'
  <2>1. /\ w \in Holders /\ Dir(w) \in Dirs /\ Dir(w) \in disk /\ Dir(w) \notin ToSet(pool)
        /\ \A v \in Holders : v # w => Dir(v) # Dir(w)
    BY HolderFacts
  <2>2. \A d \in ToSet(pool) \cup (Dirs \ disk) : d \in Dirs /\ d # Dir(w)
    BY <2>1 DEF PoolIInv, Dedicated, PoolTypeOK
  <2>3. \A d \in ToSet(pool') \cup (Dirs \ disk') : Reset(clone'[d])
    BY <2>2 DEF PoolIInv, ContentsFit
  <2>4. ASSUME NEW v \in Holders' PROVE CloneFits(v, clone[Dir(v)])'
    <3>1. CASE v = w
      BY <3>1
    <3>2. CASE v # w
      <4>1. v \in Holders /\ v \in Reconcilers /\ held'[v] = held[v] /\ Dir(v) # Dir(w)
        BY <1>1, <2>1, <3>2 DEF Holders
      <4>2. Dir(v) \in Dirs /\ CloneFits(v, clone[Dir(v)])
        BY <4>1, HolderFacts DEF Holders
      <4>3. clone'[Dir(v)] = clone[Dir(v)] /\ Dir(v)' = Dir(v)
        BY <4>1, <4>2 DEF Dir
      <4> QED BY <4>1, <4>2, <4>3 DEF CloneFits
    <3> QED BY <3>1, <3>2
  <2>5. \A d \in Dirs : NotOverfetched(clone'[d])
    BY DEF PoolIInv, ContentsFit
  <2> QED BY <2>3, <2>4, <2>5 DEF ContentsFit, NotOverfetched, Reset, WornOut
<1> QED BY <1>3, <1>4, <1>5 DEF PoolIInv

LEMMA CreatedInv ==
  ASSUME PoolIInv, NEW w \in Reconcilers, Created(w) PROVE PoolIInv'
<1> DEFINE c == remote[held[w].ref]
<1>1. c \in Commits /\ Dir(w) \in Dirs /\ held[w].at = "creating"
  BY HolderFacts DEF Created, PoolIInv, PoolTypeOK
<1>2. /\ held' = [held EXCEPT ![w].at = "preparing"]
      /\ clone' = [clone EXCEPT ![Dir(w)] = Clone(c)] /\ UNCHANGED <<remote, disk, pool>>
  BY DEF Created, Moves
<1> HIDE DEF c
<1>3. PoolTypeOK'
  BY <1>1, <1>2, FreshClone DEF PoolIInv, PoolTypeOK
<1>4. held'[w].at = "preparing" /\ held'[w].dir = held[w].dir /\ clone'[Dir(w)] = Clone(c)
  BY <1>1, <1>2 DEF PoolIInv, PoolTypeOK
<1>5. CloneFits(w, clone[Dir(w)])' /\ NotOverfetched(clone'[Dir(w)])
  BY <1>1, <1>4, FreshClone DEF CloneFits, Dir
<1> QED BY <1>1, <1>2, <1>3, <1>4, <1>5, LeaseGoesOn DEF PoolIInv, PoolTypeOK

LEMMA prepareCloneInv ==
  ASSUME PoolIInv, NEW w \in Reconcilers, prepareClone(w) PROVE PoolIInv'
<1> DEFINE c == remote[held[w].ref]
           d == Dir(w)
           k == clone[d]
           leftover == IF k.head = c THEN k.changed ELSE {}
           r(pack) == [k EXCEPT !.head = c, !.fetches = k.fetches + pack, !.changed = leftover]
<1>1. c \in Commits /\ d \in Dirs /\ held[w].at = "preparing"
  BY HolderFacts DEF prepareClone, PoolIInv, PoolTypeOK
<1>2. PICK pack \in {0, 1} : clone' = [clone EXCEPT ![d] = r(pack)]
  BY Zenon DEF prepareClone
<1>3. /\ held' = [held EXCEPT ![w].at = "leased", ![w].sha = c, ![w].ref = NotHeld.ref]
      /\ UNCHANGED <<remote, disk, pool>>
  BY DEF prepareClone
<1>4. k \in [head : Commits, changed : SUBSET Reconcilers, new : SUBSET Reconcilers, fetches : Nat]
  BY <1>1 DEF PoolIInv, PoolTypeOK
<1>5. Reset(k) /\ NotOverfetched(k)
  BY <1>1, HolderFacts DEF CloneFits
<1>6. leftover = {} /\ k.fetches + pack \in Nat
  BY <1>4, <1>5 DEF Reset
<1> HIDE DEF c, d, k, leftover
<1>7. /\ r(pack).head = c /\ r(pack).changed = {} /\ r(pack).new = {}
      /\ r(pack).fetches = k.fetches + pack
      /\ r(pack) \in [head : Commits, changed : SUBSET Reconcilers, new : SUBSET Reconcilers,
                      fetches : Nat]
  BY <1>1, <1>4, <1>5, <1>6 DEF Reset
<1> HIDE DEF r
<1>8. clone' = [clone EXCEPT ![d] = r(pack)] /\ clone'[d] = r(pack)
  BY <1>1, <1>2 DEF PoolIInv, PoolTypeOK
<1>9. PoolTypeOK'
  <2>1. clone' \in [Dirs -> [head : Commits, changed : SUBSET Reconcilers,
                             new : SUBSET Reconcilers, fetches : Nat]]
    BY <1>7, <1>8 DEF PoolIInv, PoolTypeOK
  <2>2. held' \in [Reconcilers ->
       [at : {"idle", "creating", "preparing", "leased", "editing", "committed", "returning"},
        dir : Dirs \cup {NoDir}, ref : Refs, sha : Commits \cup {NoCommit}, branch : Refs]]
    <3>1. held' = [held EXCEPT ![w] = [held[w] EXCEPT !.at = "leased", !.sha = c, !.ref = "main"]]
      BY <1>3 DEF NotHeld, PoolIInv, PoolTypeOK
    <3> QED BY <1>1, <3>1 DEF PoolIInv, PoolTypeOK, Refs
  <2> QED BY <1>3, <2>1, <2>2 DEF PoolIInv, PoolTypeOK
<1>10. held'[w].at = "leased" /\ held'[w].dir = held[w].dir /\ held'[w].sha = c
  BY <1>3 DEF PoolIInv, PoolTypeOK
<1>11. NotOverfetched(clone'[d])
  <2>1. maxFetches \in Nat /\ k.fetches \in Nat /\ pack \in {0, 1}
    BY <1>4, <1>2, PoolAssumption
  <2> QED BY <2>1, <1>5, <1>7, <1>8 DEF NotOverfetched, Reset, WornOut
<1>12. CloneFits(w, clone[Dir(w)])'
  BY <1>7, <1>8, <1>10 DEF CloneFits, Dir, d
<1> QED BY <1>1, <1>2, <1>3, <1>9, <1>10, <1>11, <1>12, LeaseGoesOn
        DEF PoolIInv, PoolTypeOK, d

LEMMA createFreshBranchInv ==
  ASSUME PoolIInv, NEW w \in Reconcilers, NEW b \in Branches, createFreshBranch(w, b)
  PROVE  PoolIInv'
<1> DEFINE d == Dir(w)
<1>1. /\ d \in Dirs /\ held[w].at = "leased" /\ clone[d].head = held[w].sha
      /\ clone[d].changed = {} /\ clone[d].new = {} /\ NotOverfetched(clone[d])
  BY HolderFacts DEF createFreshBranch, CloneFits
<1>2. /\ held' = [held EXCEPT ![w] = [held[w] EXCEPT !.at = "editing", !.branch = b]]
      /\ clone' = [clone EXCEPT ![d] = [clone[d] EXCEPT !.head = held[w].sha]]
      /\ UNCHANGED <<remote, disk, pool>>
  BY <1>1 DEF createFreshBranch, PoolIInv, PoolTypeOK
<1> HIDE DEF d
<1>3. clone[d] \in [head : Commits, changed : SUBSET Reconcilers, new : SUBSET Reconcilers,
                    fetches : Nat]
  BY <1>1 DEF PoolIInv, PoolTypeOK
<1>4. clone' = clone
  BY <1>1, <1>2, <1>3 DEF PoolIInv, PoolTypeOK
<1>5. /\ held'[w].at = "editing" /\ held'[w].dir = held[w].dir /\ held'[w].sha = held[w].sha
      /\ PoolTypeOK'
  <2> DEFINE h == [held[w] EXCEPT !.at = "editing", !.branch = b]
  <2>1. /\ h \in Leases /\ h.at = "editing" /\ h.dir = held[w].dir /\ h.sha = held[w].sha
        /\ held' = [held EXCEPT ![w] = h] /\ PoolTypeOK
    BY <1>2 DEF PoolIInv, PoolTypeOK, Leases, Refs
  <2> HIDE DEF h
  <2> QED BY <1>2, <1>4, <2>1, LeaseSet DEF PoolTypeOK, Leases
<1>6. CloneFits(w, clone[Dir(w)])'
  BY <1>1, <1>4, <1>5 DEF CloneFits, Dir, d
<1> QED BY <1>1, <1>2, <1>4, <1>5, <1>6, LeaseGoesOn DEF PoolIInv, PoolTypeOK, d

LEMMA EditInv ==
  ASSUME PoolIInv, NEW w \in Reconcilers, Edit(w) PROVE PoolIInv'
<1> DEFINE d == Dir(w)
<1>1. /\ d \in Dirs /\ held[w].at = "editing" /\ clone[d].head = held[w].sha
      /\ clone[d].changed \subseteq {w} /\ clone[d].new \subseteq {w}
      /\ NotOverfetched(clone[d])
  BY HolderFacts DEF Edit, CloneFits
<1>2. \/ clone' = [clone EXCEPT ![d] = [clone[d] EXCEPT !.changed = clone[d].changed \cup {w}]]
      \/ clone' = [clone EXCEPT ![d] = [clone[d] EXCEPT !.new = clone[d].new \cup {w}]]
  BY <1>1 DEF Edit, PoolIInv, PoolTypeOK
<1>3. UNCHANGED <<remote, disk, pool, held>>
  BY DEF Edit
<1> HIDE DEF d
<1>4. clone[d] \in [head : Commits, changed : SUBSET Reconcilers, new : SUBSET Reconcilers,
                    fetches : Nat]
  BY <1>1 DEF PoolIInv, PoolTypeOK
<1>5. /\ clone'[d].head = clone[d].head /\ clone'[d].fetches = clone[d].fetches
      /\ clone'[d].changed \subseteq {w} /\ clone'[d].new \subseteq {w}
      /\ \A e \in Dirs \ {d} : clone'[e] = clone[e]
      /\ PoolTypeOK'
  <2>1. CASE clone' = [clone EXCEPT ![d] = [clone[d] EXCEPT !.changed = clone[d].changed \cup {w}]]
    BY <1>1, <1>3, <1>4, <2>1 DEF PoolIInv, PoolTypeOK
  <2>2. CASE clone' = [clone EXCEPT ![d] = [clone[d] EXCEPT !.new = clone[d].new \cup {w}]]
    BY <1>1, <1>3, <1>4, <2>2 DEF PoolIInv, PoolTypeOK
  <2> QED BY <1>2, <2>1, <2>2
<1>6. CloneFits(w, clone[Dir(w)])' /\ NotOverfetched(clone'[d])
  BY <1>1, <1>3, <1>5 DEF CloneFits, Dir, d, NotOverfetched
<1> QED BY <1>1, <1>3, <1>5, <1>6, LeaseGoesOn DEF d

LEMMA commitChangesInv ==
  ASSUME PoolIInv, NEW w \in Reconcilers, commitChanges(w) PROVE PoolIInv'
<1> DEFINE d == Dir(w)
           c == clone[d]
           r == [c EXCEPT !.head = c.head \cup c.changed \cup c.new, !.changed = {}, !.new = {}]
<1>1. /\ d \in Dirs /\ held[w].at = "editing" /\ c.head = held[w].sha
      /\ c.changed \subseteq {w} /\ c.new \subseteq {w} /\ NotOverfetched(c)
  BY HolderFacts DEF commitChanges, CloneFits
<1>2. /\ held' = [held EXCEPT ![w] = [held[w] EXCEPT !.at = "committed"]]
      /\ clone' = [clone EXCEPT ![d] = r] /\ UNCHANGED <<remote, disk, pool>>
  BY <1>1 DEF commitChanges, Moves, PoolIInv, PoolTypeOK
<1>3. c \in [head : Commits, changed : SUBSET Reconcilers, new : SUBSET Reconcilers, fetches : Nat]
  BY <1>1 DEF PoolIInv, PoolTypeOK
<1> HIDE DEF d, c
<1>4. /\ r \in [head : Commits, changed : SUBSET Reconcilers, new : SUBSET Reconcilers, fetches : Nat]
      /\ r.head \subseteq held[w].sha \cup {w} /\ r.fetches = c.fetches
  <2>1. c.head \cup c.changed \cup c.new \in Commits
    BY <1>3, CommitsGrow
  <2> QED BY <1>1, <1>3, <2>1
<1> HIDE DEF r
<1>5. /\ held'[w].at = "committed" /\ held'[w].dir = held[w].dir /\ held'[w].sha = held[w].sha
      /\ clone'[d] = r /\ PoolTypeOK'
  <2> DEFINE h == [held[w] EXCEPT !.at = "committed"]
  <2>1. /\ h \in Leases /\ h.at = "committed" /\ h.dir = held[w].dir /\ h.sha = held[w].sha
        /\ held' = [held EXCEPT ![w] = h] /\ PoolTypeOK
    BY <1>2 DEF PoolIInv, PoolTypeOK, Leases
  <2> HIDE DEF h
  <2>2. clone'[d] = r /\ clone' \in [Dirs -> [head : Commits, changed : SUBSET Reconcilers,
                                          new : SUBSET Reconcilers, fetches : Nat]]
    BY <1>1, <1>2, <1>4 DEF PoolIInv, PoolTypeOK
  <2> QED BY <1>2, <2>1, <2>2, LeaseSet DEF PoolTypeOK, Leases
<1>6. CloneFits(w, clone[Dir(w)])' /\ NotOverfetched(clone'[d])
  BY <1>1, <1>4, <1>5 DEF CloneFits, Dir, d, NotOverfetched
<1> QED BY <1>1, <1>2, <1>5, <1>6, LeaseGoesOn DEF PoolIInv, PoolTypeOK, d

\* The deferred return is all that is left of a lease.
LEMMA DoneInv ==
  ASSUME PoolIInv, NEW w \in Reconcilers, held[w].at # "idle", Done(w),
         remote' \in [Refs -> Commits \cup {NoCommit}], UNCHANGED <<disk, pool, clone>>
  PROVE  PoolIInv'
<1>1. Dir(w) \in Dirs /\ NotOverfetched(clone[Dir(w)])
  BY HolderFacts
<1>2. /\ held'[w].at = "returning" /\ held'[w].dir = held[w].dir
      /\ \A v \in Reconcilers \ {w} : held'[v] = held[v]
      /\ held' \in [Reconcilers -> Leases]
  <2> DEFINE h == [NotHeld EXCEPT !.at = "returning", !.dir = Dir(w)]
  <2>1. h \in Leases /\ h.at = "returning" /\ h.dir = held[w].dir
    BY <1>1 DEF NotHeld, Leases, Refs, NoCommit, Dir
  <2>2. held' = [held EXCEPT ![w] = h] /\ PoolTypeOK
    BY DEF Done, PoolIInv
  <2> HIDE DEF h
  <2> QED BY <2>1, <2>2, LeaseSet
<1>3. PoolTypeOK' /\ CloneFits(w, clone[Dir(w)])'
  BY <1>2 DEF PoolIInv, PoolTypeOK, CloneFits, Leases
<1> QED BY <1>1, <1>2, <1>3, LeaseGoesOn

LEMMA forcePushBranchInv ==
  ASSUME PoolIInv, NEW w \in Reconcilers, forcePushBranch(w) PROVE PoolIInv'
<1>1. held[w].at = "committed" /\ Dir(w) \in Dirs
  BY HolderFacts DEF forcePushBranch
<1>2. remote' \in [Refs -> Commits \cup {NoCommit}]
  BY <1>1 DEF forcePushBranch, PoolIInv, PoolTypeOK
<1> QED BY <1>1, <1>2, DoneInv DEF forcePushBranch

LEMMA GivesUpInv ==
  ASSUME PoolIInv, NEW w \in Reconcilers, GivesUp(w) PROVE PoolIInv'
<1>1. held[w].at # "idle" /\ remote' \in [Refs -> Commits \cup {NoCommit}]
  BY DEF GivesUp, PoolIInv, PoolTypeOK
<1> QED BY <1>1, DoneInv DEF GivesUp

-----------------------------------------------------------------------------
(* Steps that begin or end a lease.                                        *)

\* A clone of the pool keeps its directory and what is in it.
LEMMA FromPoolInv ==
  ASSUME PoolIInv, NEW w \in Reconcilers, NEW f \in Refs, held[w].at = "idle",
         FromPool(w, f), UNCHANGED <<remote, disk, clone>>
  PROVE  PoolIInv'
<1> DEFINE d == Head(pool)
<1>1. /\ d \in Dirs /\ pool' \in Seq(Dirs) /\ NoRepeats(pool')
      /\ ToSet(pool) = ToSet(pool') \cup {d} /\ d \notin ToSet(pool')
  BY TakeHead DEF FromPool, PoolIInv, PoolTypeOK, Dedicated
<1>2. held' = [held EXCEPT ![w] = [NotHeld EXCEPT !.at = "preparing", !.dir = d, !.ref = f]]
  BY DEF FromPool
<1> HIDE DEF d
<1>3. /\ held'[w].at = "preparing" /\ held'[w].dir = d
      /\ \A v \in Reconcilers \ {w} : held'[v] = held[v]
      /\ PoolTypeOK'
  <2> DEFINE h == [NotHeld EXCEPT !.at = "preparing", !.dir = d, !.ref = f]
  <2>1. h \in Leases /\ h.at = "preparing" /\ h.dir = d /\ held' = [held EXCEPT ![w] = h]
    BY <1>1, <1>2, NewLease
  <2> HIDE DEF h
  <2> QED BY <1>1, <2>1, LeaseSet DEF PoolIInv, PoolTypeOK, Leases
<1>4. Holders' = Holders \cup {w} /\ w \notin Holders
  BY <1>3 DEF Holders
<1>5. \A v \in Holders : Dir(v)' = Dir(v) /\ Dir(v) # d /\ Dir(v) \notin ToSet(pool')
  BY <1>1, <1>3, <1>4 DEF PoolIInv, Dedicated, Dir, Holders
<1>6. {Dir(v) : v \in Holders}' = {Dir(v) : v \in Holders} \cup {d}
  BY <1>3, <1>4, <1>5 DEF Dir
<1>7. Dedicated'
  BY <1>1, <1>3, <1>4, <1>5, <1>6 DEF PoolIInv, Dedicated, Dir
<1>8. DisksBounded'
  BY DEF PoolIInv, DisksBounded
<1>9. ContentsFit'
  <2>1. Reset(clone[d])
    BY <1>1 DEF PoolIInv, ContentsFit
  <2>2. CloneFits(w, clone[Dir(w)])'
    BY <1>3, <2>1 DEF CloneFits, Reset, WornOut, Dir
  <2>3. \A v \in Holders : CloneFits(v, clone[Dir(v)])'
    BY <1>3, <1>4, <1>5 DEF PoolIInv, ContentsFit, CloneFits, Holders
  <2> QED BY <1>1, <1>4, <2>2, <2>3 DEF PoolIInv, ContentsFit, NotOverfetched, Reset, WornOut
<1> QED BY <1>3, <1>7, <1>8, <1>9 DEF PoolIInv

\* A new directory is made only when every other is in use.
LEMMA NewCloneInv ==
  ASSUME PoolIInv, NEW w \in Reconcilers, NEW f \in Refs, NEW d \in Dirs,
         held[w].at = "idle", pool = <<>>, d \notin disk, disk' = disk \cup {d},
         held' = [held EXCEPT ![w] = [NotHeld EXCEPT !.at = "creating", !.dir = d, !.ref = f]],
         UNCHANGED <<remote, pool, clone>>
  PROVE  PoolIInv'
<1>1. /\ held'[w].at = "creating" /\ held'[w].dir = d
      /\ \A v \in Reconcilers \ {w} : held'[v] = held[v]
      /\ PoolTypeOK'
  <2> DEFINE h == [NotHeld EXCEPT !.at = "creating", !.dir = d, !.ref = f]
  <2>1. h \in Leases /\ h.at = "creating" /\ h.dir = d /\ held' = [held EXCEPT ![w] = h]
    BY NewLease
  <2> HIDE DEF h
  <2> QED BY <2>1, LeaseSet DEF PoolIInv, PoolTypeOK, Leases
<1>2. Holders' = Holders \cup {w} /\ w \notin Holders
  BY <1>1 DEF Holders
<1>3. \A v \in Holders : Dir(v)' = Dir(v) /\ Dir(v) # d /\ Dir(v) \in disk
  BY <1>1, <1>2 DEF PoolIInv, Dedicated, Dir, Holders
<1>4. {Dir(v) : v \in Holders}' = {Dir(v) : v \in Holders} \cup {d}
  BY <1>1, <1>2, <1>3 DEF Dir
<1>5. ToSet(pool) = {} /\ ToSet(pool') = {}
  BY DEF ToSet
<1>6. Dedicated'
  BY <1>1, <1>2, <1>3, <1>4, <1>5 DEF PoolIInv, Dedicated, Dir
<1>7. DisksBounded'
  <2> DEFINE m == [v \in Holders' |-> held'[v].dir]
  <2>1. disk' = {held'[v].dir : v \in Holders'}
    BY <1>5, <1>6 DEF Dedicated, Dir
  <2>2. m \in Surjection(Holders', disk')
    BY <2>1 DEF Surjection
  <2>3. Holders' \in SUBSET Reconcilers /\ IsFiniteSet(Reconcilers)
    BY PoolAssumption DEF Holders
  <2>4. IsFiniteSet(Holders') /\ Cardinality(Holders') <= Cardinality(Reconcilers)
    BY <2>3, FS_Subset
  <2>5. IsFiniteSet(disk') /\ Cardinality(disk') <= Cardinality(Holders')
    BY <2>2, <2>4, FS_Surjection
  <2>6. /\ Cardinality(disk') \in Nat /\ Cardinality(Holders') \in Nat
        /\ Cardinality(Reconcilers) \in Nat
    BY <2>3, <2>4, <2>5, FS_CardinalityType
  <2> QED BY <2>4, <2>5, <2>6 DEF DisksBounded
<1>8. ContentsFit'
  <2>1. Reset(clone[d])
    BY DEF PoolIInv, ContentsFit
  <2>2. CloneFits(w, clone[Dir(w)])'
    BY <1>1, <2>1 DEF CloneFits, Reset, WornOut, Dir
  <2>3. \A v \in Holders : CloneFits(v, clone[Dir(v)])'
    BY <1>1, <1>2, <1>3 DEF PoolIInv, ContentsFit, CloneFits, Holders
  <2> QED BY <1>2, <1>5, <2>2, <2>3 DEF PoolIInv, ContentsFit, NotOverfetched, Reset, WornOut
<1> QED BY <1>1, <1>6, <1>7, <1>8 DEF PoolIInv

LEMMA acquireCloneInv ==
  ASSUME PoolIInv, NEW w \in Reconcilers, NEW f \in Refs, acquireClone(w, f) PROVE PoolIInv'
<1>1. CASE FromPool(w, f) /\ UNCHANGED disk
  BY <1>1, FromPoolInv DEF acquireClone
<1>2. CASE ~(FromPool(w, f) /\ UNCHANGED disk)
  <2> DEFINE d == CHOOSE d \in Dirs : d \notin disk
  <2>1. d \in Dirs /\ d \notin disk
    BY <1>2 DEF acquireClone
  <2>2. /\ held[w].at = "idle" /\ pool = <<>> /\ disk' = disk \cup {d}
        /\ held' = [held EXCEPT ![w] = [NotHeld EXCEPT !.at = "creating", !.dir = d, !.ref = f]]
        /\ UNCHANGED <<remote, pool, clone>>
    BY <1>2 DEF acquireClone
  <2> HIDE DEF d
  <2> QED BY <2>1, <2>2, NewCloneInv
<1> QED BY <1>1, <1>2

\* A clone that is given up leaves nothing behind.
LEMMA DiscardInv ==
  ASSUME PoolIInv, NEW w \in Reconcilers, held[w].at # "idle", Discard(w), UNCHANGED remote
  PROVE  PoolIInv'
<1> DEFINE d == Dir(w)
<1>1. /\ d \in Dirs /\ d \in disk /\ d \notin ToSet(pool) /\ w \in Holders
      /\ \A v \in Holders : v # w => Dir(v) # d
  BY HolderFacts
<1>2. /\ held' = [held EXCEPT ![w] = NotHeld] /\ clone' = [clone EXCEPT ![d] = Clone(Root)]
      /\ disk' = disk \ {d} /\ UNCHANGED <<pool, remote>>
  BY DEF Discard
<1>3. /\ NotHeld \in Leases /\ NotHeld.at = "idle" /\ Reset(Clone(Root))
      /\ NotOverfetched(Clone(Root))
  BY CommitsGrow, FreshClone DEF NotHeld, Leases, Refs, NoCommit
<1> HIDE DEF d
<1>4. held' \in [Reconcilers -> Leases] /\ held'[w] = NotHeld
      /\ \A v \in Reconcilers \ {w} : held'[v] = held[v]
  BY <1>2, <1>3, LeaseSet DEF PoolIInv
<1>5. PoolTypeOK' /\ clone'[d] = Clone(Root) /\ \A e \in Dirs \ {d} : clone'[e] = clone[e]
  BY <1>1, <1>2, <1>4, CommitsGrow, FreshClone DEF PoolIInv, PoolTypeOK, Leases
<1>6. /\ Holders' = Holders \ {w}
      /\ \A v \in Holders' : Dir(v)' = Dir(v) /\ Dir(v) # d /\ Dir(v) \in disk
                            /\ held'[v] = held[v]
  BY <1>1, <1>3, <1>4 DEF Holders, Dir, PoolIInv, Dedicated
<1>7. {Dir(v) : v \in Holders}' = {Dir(v) : v \in Holders} \ {d}
  BY <1>1, <1>6 DEF d
<1>8. Dedicated'
  BY <1>1, <1>2, <1>6, <1>7 DEF PoolIInv, Dedicated
<1>9. DisksBounded'
  <2>1. disk' \in SUBSET disk /\ IsFiniteSet(disk) /\ IsFiniteSet(Reconcilers)
    BY <1>2, PoolAssumption DEF PoolIInv, DisksBounded
  <2>2. IsFiniteSet(disk') /\ Cardinality(disk') <= Cardinality(disk)
    BY <2>1, FS_Subset
  <2>3. /\ Cardinality(disk') \in Nat /\ Cardinality(disk) \in Nat
        /\ Cardinality(Reconcilers) \in Nat
    BY <2>1, <2>2, FS_CardinalityType
  <2> QED BY <2>2, <2>3 DEF PoolIInv, DisksBounded
<1>10. ContentsFit'
  <2>1. \A e \in ToSet(pool') \cup (Dirs \ disk') : Reset(clone'[e])
    <3> SUFFICES ASSUME NEW e \in ToSet(pool) \cup (Dirs \ (disk \ {d})), e # d
                 PROVE  Reset(clone'[e])
      BY <1>2, <1>3, <1>5
    <3>1. e \in ToSet(pool) \cup (Dirs \ disk) /\ e \in Dirs
      BY DEF PoolIInv, PoolTypeOK, Dedicated
    <3> QED BY <1>5, <3>1 DEF PoolIInv, ContentsFit
  <2>2. \A v \in Holders' : CloneFits(v, clone[Dir(v)])'
    BY <1>5, <1>6 DEF PoolIInv, PoolTypeOK, ContentsFit, CloneFits
  <2>3. \A e \in Dirs : NotOverfetched(clone'[e])
    BY <1>3, <1>5 DEF PoolIInv, ContentsFit
  <2> QED BY <2>1, <2>2, <2>3 DEF ContentsFit, NotOverfetched, Reset, WornOut
<1> QED BY <1>5, <1>8, <1>9, <1>10 DEF PoolIInv

\* A clone that is given back is reset first.
LEMMA ReturnedInv ==
  ASSUME PoolIInv, NEW w \in Reconcilers, held[w].at = "returning", ~WornOut(clone[Dir(w)]),
         clone' = [clone EXCEPT ![Dir(w)] = resetClone(clone[Dir(w)])],
         pool' = Append(pool, Dir(w)), held' = [held EXCEPT ![w] = NotHeld],
         UNCHANGED <<disk, remote>>
  PROVE  PoolIInv'
<1> DEFINE d == Dir(w)
           r == resetClone(clone[d])
<1>1. /\ d \in Dirs /\ d \in disk /\ d \notin ToSet(pool) /\ w \in Holders
      /\ NotOverfetched(clone[d]) /\ \A v \in Holders : v # w => Dir(v) # d
  BY HolderFacts
<1>2. /\ pool' \in Seq(Dirs) /\ NoRepeats(pool') /\ ToSet(pool') = ToSet(pool) \cup {d}
  BY <1>1, PutLast DEF PoolIInv, PoolTypeOK, Dedicated
<1>3. NotHeld \in Leases /\ NotHeld.at = "idle"
  BY DEF NotHeld, Leases, Refs, NoCommit
<1>4. held' \in [Reconcilers -> Leases] /\ held'[w] = NotHeld
      /\ \A v \in Reconcilers \ {w} : held'[v] = held[v]
  BY <1>3, LeaseSet DEF PoolIInv
<1>5. /\ r \in [head : Commits, changed : SUBSET Reconcilers, new : SUBSET Reconcilers,
                 fetches : Nat]
      /\ Reset(r) /\ NotOverfetched(r)
  BY <1>1 DEF PoolIInv, PoolTypeOK, resetClone, Reset, WornOut, NotOverfetched
<1> HIDE DEF r
<1>6. PoolTypeOK' /\ clone'[d] = r /\ \A e \in Dirs \ {d} : clone'[e] = clone[e]
  <2>1. clone' = [clone EXCEPT ![d] = r]
    BY DEF r
  <2> QED BY <1>1, <1>2, <1>4, <1>5, <2>1 DEF PoolIInv, PoolTypeOK, Leases
<1> HIDE DEF d
<1>7. /\ Holders' = Holders \ {w}
      /\ \A v \in Holders' : Dir(v)' = Dir(v) /\ Dir(v) # d /\ Dir(v) \in disk
                            /\ held'[v] = held[v]
  BY <1>1, <1>3, <1>4 DEF Holders, Dir, PoolIInv, Dedicated
<1>8. {Dir(v) : v \in Holders}' = {Dir(v) : v \in Holders} \ {d}
  BY <1>1, <1>7 DEF d
<1>9. Dedicated'
  BY <1>1, <1>2, <1>7, <1>8 DEF PoolIInv, Dedicated
<1>10. DisksBounded'
  BY DEF PoolIInv, DisksBounded
<1>11. ContentsFit'
  <2>1. \A e \in ToSet(pool') \cup (Dirs \ disk') : Reset(clone'[e])
    <3> SUFFICES ASSUME NEW e \in ToSet(pool) \cup (Dirs \ disk), e # d
                 PROVE  Reset(clone'[e])
      BY <1>2, <1>5, <1>6
    <3>1. e \in Dirs
      BY DEF PoolIInv, PoolTypeOK, Dedicated
    <3> QED BY <1>6, <3>1 DEF PoolIInv, ContentsFit
  <2>2. \A v \in Holders' : CloneFits(v, clone[Dir(v)])'
    BY <1>6, <1>7 DEF PoolIInv, PoolTypeOK, ContentsFit, CloneFits
  <2>3. \A e \in Dirs : NotOverfetched(clone'[e])
    BY <1>5, <1>6 DEF PoolIInv, ContentsFit
  <2> QED BY <2>1, <2>2, <2>3 DEF ContentsFit, NotOverfetched, Reset, WornOut
<1> QED BY <1>6, <1>9, <1>10, <1>11 DEF PoolIInv

LEMMA LeaseFailsInv ==
  ASSUME PoolIInv, NEW w \in Reconcilers, LeaseFails(w) PROVE PoolIInv'
<1>1. held[w].at # "idle" /\ Discard(w) /\ UNCHANGED remote
  BY DEF LeaseFails
<1> QED BY <1>1, DiscardInv

LEMMA ReturnInv ==
  ASSUME PoolIInv, NEW w \in Reconcilers, Return(w) PROVE PoolIInv'
<1>1. CASE Discard(w)
  BY <1>1, DiscardInv DEF Return
<1>2. CASE ~Discard(w)
  BY <1>2, ReturnedInv DEF Return
<1> QED BY <1>1, <1>2

LEMMA MergeInv ==
  ASSUME PoolIInv, NEW b \in Branches, Merge(b) PROVE PoolIInv'
<1>1. remote' \in [Refs -> Commits \cup {NoCommit}]
  <2>1. CASE remote' = [remote EXCEPT !["main"] = remote["main"] \cup remote[b]]
    <3> DEFINE m == remote["main"] \cup remote[b]
    <3>1. m \in Commits \cup {NoCommit}
      <4>1. remote["main"] \in Commits \cup {{}} /\ remote[b] \in Commits \cup {{}}
        BY DEF PoolIInv, PoolTypeOK, Refs, NoCommit
      <4> QED BY <4>1, CommitsGrow DEF NoCommit
    <3> HIDE DEF m
    <3> QED BY <2>1, <3>1 DEF m, PoolIInv, PoolTypeOK
  <2>2. CASE remote' = [remote EXCEPT ![b] = NoCommit]
    BY <2>2 DEF PoolIInv, PoolTypeOK
  <2> QED BY <2>1, <2>2 DEF Merge
<1>2. UNCHANGED <<disk, pool, clone, held>>
  BY DEF Merge
<1> QED BY <1>1, <1>2 DEF PoolIInv, PoolTypeOK, Dedicated, DisksBounded, ContentsFit,
        Holders, Dir, CloneFits, Reset, WornOut, NotOverfetched

LEMMA PoolStepInv == PoolIInv /\ [PoolNext]_poolVars => PoolIInv'
<1> SUFFICES ASSUME PoolIInv, [PoolNext]_poolVars PROVE PoolIInv'
  OBVIOUS
<1>1. CASE UNCHANGED poolVars
  BY <1>1 DEF poolVars, PoolIInv, PoolTypeOK, Dedicated, DisksBounded, ContentsFit, Holders,
              Dir, CloneFits, Reset, WornOut, NotOverfetched
<1>2. CASE PoolNext
  BY <1>2, acquireCloneInv, createFreshBranchInv, CreatedInv, LeaseFailsInv, prepareCloneInv,
     EditInv, commitChangesInv, forcePushBranchInv, GivesUpInv, ReturnInv, MergeInv
  DEF PoolNext
<1> QED BY <1>1, <1>2

LEMMA KeptFromInvariant == PoolIInv => ClonesKept
<1> SUFFICES ASSUME PoolIInv PROVE ClonesKept
  OBVIOUS
<1>1. \A d : Contains(pool, d) <=> d \in ToSet(pool)
  BY DEF PoolIInv, PoolTypeOK, Contains, ToSet
<1>2. ClonesExclusive
  BY <1>1 DEF PoolIInv, Dedicated, ClonesExclusive, NoRepeats
<1>3. NoDirLeaked
  BY DEF PoolIInv, Dedicated, DisksBounded, NoDirLeaked
<1>4. StoreBounded
  BY DEF PoolIInv, PoolTypeOK, ContentsFit, NotOverfetched, StoreBounded
<1> QED BY <1>2, <1>3, <1>4 DEF ClonesKept

LEMMA PushIsOwn ==
  PoolIInv /\ [PoolNext]_poolVars
    => [\A w \in Reconcilers :
          held[w].at = "committed" /\ remote' # remote /\ held'[w].at = "returning"
          => remote'[held[w].branch] \subseteq held[w].sha \cup {w}]_poolVars
<1> SUFFICES ASSUME PoolIInv, PoolNext, NEW w \in Reconcilers,
                    held[w].at = "committed", remote' # remote, held'[w].at = "returning"
             PROVE  remote'[held[w].branch] \subseteq held[w].sha \cup {w}
  BY DEF poolVars
<1>1. PICK v \in Reconcilers : forcePushBranch(v)
  <2>1. ~\E b \in Branches : Merge(b)
    BY DEF Merge
  <2> QED BY <2>1 DEF PoolNext, acquireClone, createFreshBranch, Created, LeaseFails,
                     prepareClone, Edit, commitChanges, GivesUp, Return, Discard
<1>2. v = w
  BY <1>1 DEF forcePushBranch, Done, PoolIInv, PoolTypeOK
<1>3. held[w].branch \in Refs /\ clone[Dir(w)].head \subseteq held[w].sha \cup {w}
  BY HolderFacts DEF PoolIInv, PoolTypeOK, CloneFits
<1>4. remote' = [remote EXCEPT ![held[w].branch] = clone[Dir(w)].head]
  BY <1>1, <1>2 DEF forcePushBranch
<1> QED BY <1>3, <1>4 DEF PoolIInv, PoolTypeOK

-----------------------------------------------------------------------------
(***************************************************************************)
(* Proofs about BranchReconciler, for any bound on attempts and any events. *)
(***************************************************************************)

BranchLines == [exists : BOOLEAN, head : Nat, ahead : Nat, ours : Nat]

RunPlaces == {"idle", "compare", "lease", "agent", "head", "criteria"}

BranchTyped ==
  /\ line \in BranchLines /\ pushes \in Nat /\ quiet \in BOOLEAN
  /\ run \in [at : RunPlaces, found : BOOLEAN, count : Nat, leased : BranchLines, head : Nat]
  /\ succeeded \subseteq 0 .. pushes /\ meeting \subseteq 1 .. pushes
  /\ key \in {"queued", "gone"}

\* What is ours is ahead, and what a run has leased leaves it an attempt.
AttemptLeft ==
  /\ line.ours <= line.ahead /\ line.ours <= maxAttempts
  /\ run.leased.ours < maxAttempts /\ run.leased.ours <= run.leased.ahead
  /\ run.at = "lease" /\ run.found => line.ours < maxAttempts

\* A run judges the head that it has read, unless the branch moved since.
HeadKnown ==
  /\ key = "gone" => run.at = "idle"
  /\ run.at = "criteria" /\ quiet => run.head = line.head
  /\ LeftRightly

BranchIInv == BranchTyped /\ AttemptLeft /\ HeadKnown

LEMMA BranchInitInv == BranchInit => BranchIInv
BY BranchAssumption
   DEF BranchInit, BranchIInv, BranchTyped, AttemptLeft, HeadKnown, NoBranchRun, NoBranch,
       LeftRightly, BranchLines, RunPlaces

LEMMA BranchStepInv == BranchIInv /\ [BranchNext]_branchVars => BranchIInv'
<1> SUFFICES ASSUME BranchIInv, [BranchNext]_branchVars PROVE BranchIInv'
  OBVIOUS
<1>1. BranchTyped /\ AttemptLeft /\ HeadKnown
  BY DEF BranchIInv
<1>2. /\ NoBranch \in BranchLines /\ NoBranch.ours = 0 /\ NoBranch.ahead = 0
      /\ NoBranchRun.at = "idle" /\ NoBranchRun.leased = NoBranch /\ ~NoBranchRun.found
      /\ NoBranchRun \in [at : RunPlaces, found : BOOLEAN, count : Nat, leased : BranchLines, head : Nat]
  BY DEF NoBranch, NoBranchRun, BranchLines, RunPlaces
<1>3. maxAttempts \in Nat /\ 0 < maxAttempts
  BY BranchAssumption
<1>4. CASE FindBranch
  <2>1. PICK r : r = [NoBranchRun EXCEPT !.at = IF line.exists THEN "compare" ELSE "lease",
                                         !.found = line.exists]
    OBVIOUS
  <2>2. /\ r.at \in {"compare", "lease"} /\ (r.at = "lease" => ~r.found)
        /\ r.leased = NoBranch
        /\ r \in [at : RunPlaces, found : BOOLEAN, count : Nat, leased : BranchLines, head : Nat]
    BY <1>1, <1>2, <2>1 DEF BranchTyped, BranchLines, NoBranchRun, RunPlaces
  <2>3. /\ key = "queued" /\ run' = r /\ quiet' = TRUE
        /\ UNCHANGED <<line, meeting, key, pushes, succeeded>>
    BY <1>4, <2>1 DEF FindBranch
  <2>4. BranchTyped'
    BY <1>1, <2>2, <2>3 DEF BranchTyped
  <2>5. AttemptLeft'
    BY <1>1, <1>2, <1>3, <2>2, <2>3 DEF AttemptLeft
  <2>6. HeadKnown'
    <3>1. run'.at # "idle" /\ run'.at # "criteria" /\ key' # "gone"
      BY <2>2, <2>3
    <3> QED BY <3>1 DEF HeadKnown, LeftRightly
  <2> QED BY <2>4, <2>5, <2>6 DEF BranchIInv
<1>5. CASE Compare
  <2>1. /\ run.at = "compare" /\ UNCHANGED <<line, meeting, pushes, succeeded, quiet>>
        /\ \/ line.ahead >= maxAttempts /\ key' = "gone" /\ run' = NoBranchRun
           \/ /\ ~(line.ahead >= maxAttempts) /\ key' = key
              /\ run' = [run EXCEPT !.at = "lease", !.count = line.ahead]
    BY <1>5 DEF Compare, Exceeded, RunAt
  <2>2. line.ahead \in Nat /\ line.ours \in Nat
    BY <1>1 DEF BranchTyped, BranchLines
  <2>3. CASE line.ahead >= maxAttempts /\ key' = "gone" /\ run' = NoBranchRun
    <3>1. BranchTyped'
      BY <1>1, <1>2, <2>1, <2>3 DEF BranchTyped
    <3>2. AttemptLeft'
      BY <1>1, <1>2, <1>3, <2>1, <2>3 DEF AttemptLeft
    <3>3. HeadKnown'
      BY <1>1, <1>2, <2>1, <2>3 DEF HeadKnown, LeftRightly
    <3> QED BY <3>1, <3>2, <3>3 DEF BranchIInv
  <2>4. CASE /\ ~(line.ahead >= maxAttempts) /\ key' = key
             /\ run' = [run EXCEPT !.at = "lease", !.count = line.ahead]
    <3>1. BranchTyped' /\ run'.at = "lease" /\ run'.leased = run.leased
      BY <1>1, <2>1, <2>2, <2>4 DEF BranchTyped, RunPlaces
    <3>2. line.ours < maxAttempts
      BY <1>1, <1>3, <2>2, <2>4 DEF AttemptLeft
    <3>3. AttemptLeft'
      BY <1>1, <2>1, <3>1, <3>2 DEF AttemptLeft
    <3>4. HeadKnown'
      BY <1>1, <2>1, <2>4, <3>1 DEF HeadKnown, LeftRightly
    <3> QED BY <3>1, <3>3, <3>4 DEF BranchIInv
  <2> QED BY <2>1, <2>3, <2>4
<1>6. CASE LeaseBranch
  <2>1. PICK l : l = IF run.found THEN line ELSE NoBranch
    OBVIOUS
  <2>2. /\ run.at = "lease" /\ UNCHANGED <<line, meeting, key, pushes, succeeded, quiet>>
        /\ run' = [run EXCEPT !.at = "agent", !.leased = l]
    BY <1>6, <2>1 DEF LeaseBranch, RunAt
  <2>3. l \in BranchLines /\ l.ours < maxAttempts /\ l.ours <= l.ahead
    BY <1>1, <1>2, <1>3, <2>1, <2>2 DEF BranchTyped, AttemptLeft
  <2>4. BranchTyped' /\ run'.at = "agent" /\ run'.leased = l
    BY <1>1, <2>2, <2>3 DEF BranchTyped, RunPlaces
  <2>5. AttemptLeft'
    BY <1>1, <2>2, <2>3, <2>4 DEF AttemptLeft
  <2>6. HeadKnown'
    BY <1>1, <2>2, <2>4 DEF HeadKnown, LeftRightly
  <2> QED BY <2>4, <2>5, <2>6 DEF BranchIInv
<1>7. CASE AgentPushes
  BY <1>1, <1>2, <1>3, <1>7
  DEF AgentPushes, BranchIInv, BranchTyped, AttemptLeft, HeadKnown, LeftRightly, RunAt, RunPlaces, BranchLines
<1>8. CASE getBranchHeadSHA
  BY <1>1, <1>2, <1>3, <1>8
  DEF getBranchHeadSHA, BranchIInv, BranchTyped, AttemptLeft, HeadKnown, LeftRightly, RunAt, RunPlaces, BranchLines
<1>9. CASE Criteria
  <2>1. /\ run.at = "criteria" /\ run' = NoBranchRun /\ UNCHANGED <<line, meeting, pushes, quiet>>
        /\ \/ run.head \in meeting /\ succeeded' = succeeded \cup {run.head} /\ key' = "gone"
           \/ UNCHANGED <<succeeded, key>>
    BY <1>9 DEF Criteria, RunAt
  <2>2. BranchTyped'
    <3>1. pushes \in Nat /\ meeting \subseteq 1 .. pushes /\ succeeded \subseteq 0 .. pushes
      BY <1>1 DEF BranchTyped
    <3>2. \A h \in meeting : h \in 0 .. pushes
      BY <3>1
    <3>3. succeeded' \subseteq 0 .. pushes
      <4>1. \A h \in succeeded' : h \in succeeded \/ h \in meeting
        BY <2>1
      <4>2. \A h \in succeeded : h \in 0 .. pushes
        BY <3>1
      <4> QED BY <3>2, <4>1, <4>2
    <3>4. key' \in {"queued", "gone"}
      BY <1>1, <2>1 DEF BranchTyped
    <3> QED BY <1>1, <1>2, <2>1, <3>3, <3>4 DEF BranchTyped
  <2>3. AttemptLeft'
    BY <1>1, <1>2, <1>3, <2>1 DEF AttemptLeft
  <2>4. HeadKnown'
    <3>1. key # "gone"
      BY <1>1, <2>1 DEF HeadKnown
    <3>2. quiet => run.head = line.head
      BY <1>1, <2>1 DEF HeadKnown
    <3> QED BY <1>2, <2>1, <3>1, <3>2 DEF HeadKnown, LeftRightly
  <2> QED BY <2>2, <2>3, <2>4 DEF BranchIInv
<1>10. CASE BranchMissing
  BY <1>1, <1>2, <1>3, <1>10
  DEF BranchMissing, BranchIInv, BranchTyped, AttemptLeft, HeadKnown, LeftRightly, RunAt, RunPlaces, BranchLines
<1>11. CASE RunFalls
  <2>1. /\ run.at # "idle" /\ run' = NoBranchRun /\ UNCHANGED <<line, meeting, key, pushes, quiet>>
        /\ \/ succeeded' = succeeded
           \/ run.head \in meeting /\ succeeded' = succeeded \cup {run.head}
    BY <1>11 DEF RunFalls, RunAt
  <2>2. BranchTyped'
    <3>1. pushes \in Nat /\ meeting \subseteq 1 .. pushes /\ succeeded \subseteq 0 .. pushes
      BY <1>1 DEF BranchTyped
    <3>2. \A h \in meeting : h \in 0 .. pushes
      BY <3>1
    <3>3. succeeded' \subseteq 0 .. pushes
      <4>1. \A h \in succeeded' : h \in succeeded \/ h \in meeting
        BY <2>1
      <4>2. \A h \in succeeded : h \in 0 .. pushes
        BY <3>1
      <4> QED BY <3>2, <4>1, <4>2
    <3>4. key' \in {"queued", "gone"}
      BY <1>1, <2>1 DEF BranchTyped
    <3> QED BY <1>1, <1>2, <2>1, <3>3, <3>4 DEF BranchTyped
  <2>3. AttemptLeft'
    BY <1>1, <1>2, <1>3, <2>1 DEF AttemptLeft
  <2>4. HeadKnown'
    BY <1>1, <1>2, <2>1 DEF HeadKnown, LeftRightly
  <2> QED BY <2>2, <2>3, <2>4 DEF BranchIInv
<1>12. CASE OthersTouch
  <2>1. ~quiet' /\ quiet' \in BOOLEAN /\ UNCHANGED <<key, succeeded>>
    BY <1>12 DEF OthersTouch
  <2>2. /\ line.head \in Nat /\ line.ahead \in Nat /\ line.ours \in Nat /\ line \in BranchLines
        /\ pushes \in Nat
    BY <1>1 DEF BranchTyped, BranchLines
  <2>3. CASE /\ pushes' = pushes + 1 /\ run' = run
             /\ line' = [line EXCEPT !.head = pushes + 1, !.ahead = @ + 1]
             /\ meeting' \in {meeting, meeting \cup {pushes + 1}}
    <3>1. line' \in BranchLines /\ line'.ours = line.ours /\ line'.ahead = line.ahead + 1
      <4>1. PICK h \in Nat : h = pushes + 1
        BY <2>2
      <4>2. PICK a \in Nat : a = line.ahead + 1
        BY <2>2
      <4>3. line' = [line EXCEPT !.head = h, !.ahead = a]
        BY <2>3, <4>1, <4>2
      <4> QED BY <2>2, <4>2, <4>3 DEF BranchLines
    <3>2. BranchTyped'
      BY <1>1, <2>1, <2>2, <2>3, <3>1 DEF BranchTyped
    <3>3. AttemptLeft'
      BY <1>1, <2>2, <2>3, <3>1 DEF AttemptLeft
    <3>4. HeadKnown'
      BY <1>1, <2>1, <2>3 DEF HeadKnown, LeftRightly
    <3> QED BY <3>2, <3>3, <3>4 DEF BranchIInv
  <2>4. CASE /\ line' = [line EXCEPT !.ahead = 0, !.ours = 0]
             /\ run' = [run EXCEPT !.leased.ahead = 0, !.leased.ours = 0]
             /\ UNCHANGED <<meeting, pushes>>
    <3>1. line' \in BranchLines /\ line'.ours = 0 /\ line'.ahead = 0
      BY <2>2, <2>4 DEF BranchLines
    <3>2. PICK l : l = [run.leased EXCEPT !.ahead = 0, !.ours = 0]
      OBVIOUS
    <3>3. l \in BranchLines /\ l.ours = 0 /\ l.ahead = 0
      BY <1>1, <3>2 DEF BranchTyped, BranchLines
    <3>4. run' = [run EXCEPT !.leased = l]
      BY <1>1, <2>4, <3>2 DEF BranchTyped
    <3>5. /\ run' \in [at : RunPlaces, found : BOOLEAN, count : Nat, leased : BranchLines, head : Nat]
          /\ run'.at = run.at /\ run'.leased = l /\ run'.found = run.found
      BY <1>1, <3>3, <3>4 DEF BranchTyped
    <3>6. BranchTyped'
      BY <1>1, <2>1, <2>4, <3>1, <3>5 DEF BranchTyped
    <3>7. AttemptLeft'
      BY <1>3, <3>1, <3>3, <3>5 DEF AttemptLeft
    <3>8. HeadKnown'
      BY <1>1, <2>1, <3>5 DEF HeadKnown, LeftRightly
    <3> QED BY <3>6, <3>7, <3>8 DEF BranchIInv
  <2>5. CASE line' = NoBranch /\ UNCHANGED <<meeting, pushes, run>>
    <3>1. BranchTyped'
      BY <1>1, <1>2, <2>1, <2>5 DEF BranchTyped
    <3>2. AttemptLeft'
      BY <1>1, <1>2, <1>3, <2>5 DEF AttemptLeft
    <3>3. HeadKnown'
      BY <1>1, <2>1, <2>5 DEF HeadKnown, LeftRightly
    <3> QED BY <3>1, <3>2, <3>3 DEF BranchIInv
  <2> QED BY <1>12, <2>3, <2>4, <2>5 DEF OthersTouch
<1>13. CASE UNCHANGED branchVars
  BY <1>1, <1>13 DEF branchVars, BranchIInv, BranchTyped, AttemptLeft, HeadKnown, LeftRightly
<1> QED
  BY <1>4, <1>5, <1>6, <1>7, <1>8, <1>9, <1>10, <1>11, <1>12, <1>13 DEF BranchNext, RunProceeds

LEMMA BranchIsSound == BranchIInv => BranchSound
BY DEF BranchIInv, AttemptLeft, HeadKnown, BranchSound, AttemptsBounded

-----------------------------------------------------------------------------
(***************************************************************************)
(* Proofs about Sharder, for any ticks, periods and keys.                  *)
(***************************************************************************)

LEMMA TimesFacts ==
  ASSUME NEW a \in Nat, NEW b \in Nat, NEW d \in Nat
  PROVE  /\ a * d \in Nat /\ (a * b) * d = a * (b * d) /\ (a + b) * d = a * d + b * d
         /\ a <= b => a * d <= b * d
  OBVIOUS

LEMMA DivIs ==
  ASSUME NEW d \in Nat, NEW q \in Nat, NEW r \in Nat, r < d
  PROVE  (q * d + r) \div d = q /\ (q * d + r) % d = r
  OBVIOUS

\* Division with its remainder.
LEMMA DivSplits ==
  ASSUME NEW a \in Nat, NEW d \in Nat, d > 0
  PROVE  /\ a \div d \in Nat /\ a % d \in Nat /\ a % d < d
         /\ a = (a \div d) * d + (a % d)
<1>1. PICK T : T = {r \in Nat : \E q \in Nat : a = q * d + r}
  OBVIOUS
<1>2. a \in T
  <2>1. a = 0 * d + a
    OBVIOUS
  <2> QED BY <1>1, <2>1
<1>3. T \in SUBSET Nat /\ T # {}
  BY <1>1, <1>2
<1>4. PICK r \in T : \A x \in T : r <= x
  BY <1>3, SmallestExists
<1>5. PICK q \in Nat : a = q * d + r
  BY <1>1
<1>6. r \in Nat
  BY <1>3
<1>7. r < d
  <2> SUFFICES ASSUME ~(r < d) PROVE FALSE
    OBVIOUS
  <2>1. PICK x \in Nat : r = x + d
    <3>1. r - d \in Nat /\ r = (r - d) + d
      BY <1>6
    <3> QED BY <3>1
  <2>2. a = (q + 1) * d + x /\ q + 1 \in Nat
    <3>1. (q + 1) * d = q * d + d
      BY TimesFacts
    <3>2. PICK m \in Nat : m = q * d
      BY TimesFacts
    <3>3. a = m + (x + d)
      BY <1>5, <2>1, <3>2
    <3> QED BY <2>1, <3>1, <3>2, <3>3
  <2>3. x \in T
    BY <1>1, <2>2
  <2> QED BY <1>4, <1>6, <2>1, <2>3
<1>8. a \div d = q /\ a % d = r
  BY <1>5, <1>6, <1>7, DivIs
<1>9. /\ q \in Nat /\ r \in Nat /\ r < d
      /\ a = q * d + r
  BY <1>5, <1>6, <1>7
<1> QED BY <1>8, <1>9, Zenon

-----------------------------------------------------------------------------
(* The ticks of the periods.                                               *)

\* The ticks of a period.
perPeriod == period \div tick

LEMMA PeriodFacts ==
  /\ tick \in Nat /\ tick > 0 /\ period \in Nat /\ period > 0 /\ Periods \in Nat /\ Periods > 0
  /\ perPeriod \in Nat /\ perPeriod > 0 /\ period = perPeriod * tick
  /\ Horizon \in Nat /\ Horizon = (Periods * perPeriod) * tick
  /\ Periods * perPeriod \in Nat
  /\ Ticks = 0 .. Periods * perPeriod - 1
<1>1. tick \in Nat /\ tick > 0 /\ period \in Nat /\ period > 0 /\ Periods \in Nat /\ Periods > 0
  BY SharderAssumption
<1>2. /\ perPeriod \in Nat /\ period = perPeriod * tick + (period % tick)
  BY <1>1, DivSplits DEF perPeriod
<1>3. period % tick = 0
  BY SharderAssumption
<1>4. perPeriod * tick \in Nat
  BY <1>1, <1>2, TimesFacts
<1>5. period = perPeriod * tick
  <2>1. PICK m \in Nat : m = perPeriod * tick
    BY <1>4
  <2>2. period = m + 0
    <3>1. period = perPeriod * tick + (period % tick)
      BY <1>2
    <3> QED BY <1>3, <2>1, <3>1, Zenon
  <2> QED BY <2>1, <2>2
<1>6. perPeriod > 0
  BY <1>1, <1>2, <1>5
<1>7. Horizon = (Periods * perPeriod) * tick /\ Periods * perPeriod \in Nat /\ Horizon \in Nat
  <2>1. Horizon = Periods * (perPeriod * tick)
    BY <1>5 DEF Horizon
  <2>2. /\ (Periods * perPeriod) * tick = Periods * (perPeriod * tick)
        /\ Periods * perPeriod \in Nat /\ Periods * (perPeriod * tick) \in Nat
    BY <1>1, <1>2, <1>4, TimesFacts
  <2> QED BY <2>1, <2>2
<1>8. Horizon \div tick = Periods * perPeriod
  <2>1. PICK q \in Nat : q = Periods * perPeriod
    BY <1>7
  <2>2. Horizon = q * tick + 0
    <3>1. q * tick \in Nat
      BY <1>1, TimesFacts
    <3> QED BY <1>7, <2>1, <3>1
  <2> QED BY <1>1, <2>1, <2>2, DivIs
<1> QED BY <1>1, <1>2, <1>5, <1>6, <1>7, <1>8 DEF Ticks

\* A job of the i-th tick of the period p: where it starts, and its shard.
LEMMA JobFacts ==
  ASSUME NEW j \in Ticks, NEW p \in Nat, NEW i \in Nat, j = p * perPeriod + i, i < perPeriod
  PROVE  /\ (j * tick) \div period = p /\ p \in 0 .. Periods - 1
         /\ i * tick \in Nat /\ i * tick + tick <= period
         /\ \A s \in Nat : s \div tick = j =>
              /\ s \div period = p /\ s < Horizon
              /\ Truncate(s, tick) - Truncate(s, period) = i * tick
<1>1. /\ tick \in Nat /\ tick > 0 /\ period \in Nat /\ period > 0 /\ Periods \in Nat /\ Periods > 0
      /\ perPeriod \in Nat /\ perPeriod > 0 /\ period = perPeriod * tick
      /\ Horizon \in Nat /\ Horizon = (Periods * perPeriod) * tick
      /\ Periods * perPeriod \in Nat
      /\ Ticks = 0 .. Periods * perPeriod - 1
  BY PeriodFacts
<1>2. j \in Nat /\ j + 1 <= Periods * perPeriod
  BY <1>1
<1>3. PICK I \in Nat : I = i * tick
  BY <1>1, TimesFacts
<1>4. I + tick <= period
  <2>1. (i + 1) * tick <= perPeriod * tick
    BY <1>1, TimesFacts
  <2>2. (i + 1) * tick = i * tick + 1 * tick /\ 1 * tick = tick
    BY <1>1, TimesFacts
  <2> QED BY <1>1, <1>3, <2>1, <2>2
<1>5. PICK P \in Nat : P = p * period
  BY <1>1, TimesFacts
<1>6. j * tick = P + I
  <2>1. p * perPeriod \in Nat /\ (p * perPeriod) * tick = p * (perPeriod * tick)
    BY <1>1, TimesFacts
  <2>2. (p * perPeriod + i) * tick = (p * perPeriod) * tick + i * tick
    BY <1>1, <2>1, TimesFacts
  <2> QED BY <1>1, <1>3, <1>5, <2>1, <2>2
<1>7. p \in 0 .. Periods - 1
  <2> SUFFICES ASSUME Periods <= p PROVE FALSE
    BY <1>1
  <2>1. Periods * perPeriod <= p * perPeriod /\ p * perPeriod \in Nat
    BY <1>1, TimesFacts
  <2> QED BY <1>1, <1>2, <2>1
<1>8. (j * tick) \div period = p
  BY <1>1, <1>4, <1>5, <1>6, DivIs
<1>9. ASSUME NEW s \in Nat, s \div tick = j
      PROVE  /\ s \div period = p /\ s < Horizon
             /\ Truncate(s, tick) - Truncate(s, period) = I
  <2>1. PICK r \in Nat : r = s % tick /\ r < tick
    BY <1>1, DivSplits
  <2>2. s = j * tick + r
    BY <1>1, <1>9, <2>1, DivSplits
  <2>3. s = P + (I + r) /\ I + r \in Nat /\ I + r < period
    BY <1>1, <1>4, <1>6, <2>1, <2>2
  <2>4. s \div period = p /\ s % period = I + r
    BY <1>1, <1>5, <2>3, DivIs
  <2>5. s < Horizon
    <3>1. (j + 1) * tick <= (Periods * perPeriod) * tick /\ (j + 1) * tick = j * tick + tick
      <4>1. (j + 1) * tick <= (Periods * perPeriod) * tick
        BY <1>1, <1>2, TimesFacts
      <4>2. (j + 1) * tick = j * tick + 1 * tick /\ 1 * tick = tick
        BY <1>1, <1>2, TimesFacts
      <4> QED BY <4>1, <4>2
    <3>2. j * tick \in Nat
      BY <1>1, <1>2, TimesFacts
    <3> QED BY <1>1, <2>1, <2>2, <3>1, <3>2
  <2>6. Truncate(s, tick) = s - r /\ Truncate(s, period) = s - (I + r)
    BY <2>1, <2>4 DEF Truncate
  <2> QED BY <1>3, <2>1, <2>3, <2>4, <2>5, <2>6
<1> QED BY <1>3, <1>4, <1>7, <1>8, <1>9

-----------------------------------------------------------------------------
(* The invariant.                                                          *)

\* A job started in its tick; what it enqueued was of its shard, once, and due
\* within a tick of its start; a job that is done has enqueued its whole shard.
SharderIInv ==
  /\ SharderTypeOK
  /\ \A j \in Ticks : job[j] # "due" => start[j] \div tick = j
  /\ \A e \in enqueued : job[e.job] # "due" /\ InShard(e.job, e.key)
  /\ DueInShard
  /\ \A e, f \in enqueued : e.key = f.key /\ e.job = f.job => e = f
  /\ \A j \in Ticks : job[j] = "done" => Remaining(j) = {}

\* The period of a tick, and the place of the tick in it.
LEMMA TickOfPeriod ==
  ASSUME NEW j \in Ticks
  PROVE  \E p, i \in Nat : j = p * perPeriod + i /\ i < perPeriod
<1>1. j \in Nat /\ perPeriod \in Nat /\ perPeriod > 0
  BY PeriodFacts
<1> QED BY <1>1, DivSplits

\* The minutes of the keys.
LEMMA MinuteFacts ==
  ASSUME SharderTypeOK, NEW j \in Ticks, start[j] \div tick = j, NEW k \in Keys
  PROVE  /\ keyMin(j, k) \in Nat /\ keyMin(j, k) < period /\ start[j] \in Nat
         /\ shardStart(j) \in Nat
<1>1. PICK p, i \in Nat : j = p * perPeriod + i /\ i < perPeriod
  BY TickOfPeriod
<1>2. start[j] \in Nat
  BY PeriodFacts DEF SharderTypeOK
<1>3. /\ p \in 0 .. Periods - 1 /\ i * tick \in Nat /\ start[j] \div period = p
      /\ Truncate(start[j], tick) - Truncate(start[j], period) = i * tick
  BY <1>1, <1>2, JobFacts
<1>4. bucket[p][k] \in 0 .. period - 1
  BY <1>3 DEF SharderTypeOK
<1>5. keyMin(j, k) = bucket[p][k] /\ shardStart(j) = i * tick
  BY <1>3 DEF keyMin, shardStart
<1> QED BY <1>2, <1>3, <1>4, <1>5, PeriodFacts

LEMMA SharderInitInv == SharderInit => SharderIInv
<1> SUFFICES ASSUME SharderInit PROVE SharderIInv
  OBVIOUS
<1>1. /\ now = 0 /\ job = [j \in Ticks |-> "due"] /\ start = [j \in Ticks |-> 0] /\ enqueued = {}
      /\ bucket \in [0 .. Periods - 1 -> [Keys -> 0 .. period - 1]]
  BY DEF SharderInit
<1>2. Horizon \in Nat /\ tick \in Nat
  BY PeriodFacts
<1>3. SharderTypeOK
  <2>1. now \in 0 .. Horizon + tick
    BY <1>1, <1>2
  <2>2. start \in [Ticks -> 0 .. Horizon]
    BY <1>1, <1>2
  <2> QED BY <1>1, <2>1, <2>2 DEF SharderTypeOK
<1>4. \A j \in Ticks : job[j] = "due"
  BY <1>1
<1> QED BY <1>1, <1>3, <1>4 DEF SharderIInv, DueInShard

\* A step that leaves what was started where it was keeps the shards.
LEMMA ShardsStay ==
  ASSUME NEW j, start'[j] = start[j], bucket' = bucket, NEW k
  PROVE  InShard(j, k)' = InShard(j, k)
BY DEF InShard, keyMin, shardStart

LEMMA NewSharderInv ==
  ASSUME SharderIInv, NEW j \in Ticks, NewSharder(j) PROVE SharderIInv'
<1>1. /\ SharderTypeOK /\ \A i \in Ticks : job[i] # "due" => start[i] \div tick = i
      /\ \A e \in enqueued : job[e.job] # "due" /\ InShard(e.job, e.key)
      /\ DueInShard
      /\ \A e, f \in enqueued : e.key = f.key /\ e.job = f.job => e = f
      /\ \A i \in Ticks : job[i] = "done" => Remaining(i) = {}
  BY DEF SharderIInv
<1>2. /\ job[j] = "due" /\ now \div tick = j
      /\ job' = [job EXCEPT ![j] = "running"] /\ start' = [start EXCEPT ![j] = now]
      /\ UNCHANGED <<now, bucket, enqueued>>
  BY DEF NewSharder
<1>3. /\ job \in [Ticks -> {"due", "running", "canceled", "done", "failed"}]
      /\ start \in [Ticks -> 0 .. Horizon] /\ now \in Nat
      /\ \A e \in enqueued : e.job \in Ticks
  BY <1>1, PeriodFacts DEF SharderTypeOK
<1>4. now \in 0 .. Horizon
  <2>1. PICK p, i \in Nat : j = p * perPeriod + i /\ i < perPeriod
    BY TickOfPeriod
  <2>2. now < Horizon
    BY <1>2, <1>3, <2>1, JobFacts
  <2> QED BY <1>3, <2>2, PeriodFacts
<1>5. /\ job' \in [Ticks -> {"due", "running", "canceled", "done", "failed"}]
      /\ start' \in [Ticks -> 0 .. Horizon]
      /\ job'[j] = "running" /\ start'[j] = now
      /\ \A i \in Ticks \ {j} : job'[i] = job[i] /\ start'[i] = start[i]
  BY <1>2, <1>3, <1>4
<1>6. SharderTypeOK'
  BY <1>1, <1>2, <1>5 DEF SharderTypeOK
<1>7. \A i \in Ticks : job'[i] # "due" => start'[i] \div tick = i
  BY <1>1, <1>2, <1>5
<1>8. ASSUME NEW e \in enqueued'
      PROVE  /\ e \in enqueued /\ e.job \in Ticks \ {j} /\ start'[e.job] = start[e.job]
             /\ job'[e.job] # "due" /\ InShard(e.job, e.key)'
  <2>1. e \in enqueued /\ e.job \in Ticks \ {j}
    BY <1>1, <1>2, <1>3, <1>8
  <2>2. start'[e.job] = start[e.job] /\ job'[e.job] = job[e.job]
    BY <1>5, <2>1
  <2> QED BY <1>1, <1>2, <2>1, <2>2, ShardsStay
<1>9. DueInShard'
  BY <1>1, <1>8 DEF DueInShard
<1>10. ASSUME NEW i \in Ticks, job'[i] = "done" PROVE Remaining(i)' = {}
  <2>1. i # j /\ start'[i] = start[i] /\ job[i] = "done"
    BY <1>5, <1>10
  <2>2. \A k : InShard(i, k)' = InShard(i, k)
    BY <1>2, <2>1, ShardsStay
  <2>3. Enqueued(i)' = Enqueued(i)
    BY <1>2 DEF Enqueued
  <2>4. Remaining(i) = {}
    BY <1>1, <2>1
  <2> QED BY <2>2, <2>3, <2>4 DEF Remaining
<1> QED BY <1>1, <1>2, <1>6, <1>7, <1>8, <1>9, <1>10 DEF SharderIInv

LEMMA EnqueueInv ==
  ASSUME SharderIInv, NEW j \in Ticks, NEW k \in Keys, Enqueue(j, k) PROVE SharderIInv'
<1>1. /\ SharderTypeOK /\ \A i \in Ticks : job[i] # "due" => start[i] \div tick = i
      /\ \A e \in enqueued : job[e.job] # "due" /\ InShard(e.job, e.key)
      /\ DueInShard
      /\ \A e, f \in enqueued : e.key = f.key /\ e.job = f.job => e = f
      /\ \A i \in Ticks : job[i] = "done" => Remaining(i) = {}
  BY DEF SharderIInv
<1>2. PICK x : x = [key |-> k, job |-> j, at |-> now, due |-> now + DelayMinutes(j, k)]
  OBVIOUS
<1>3. /\ job[j] \in {"running", "canceled"} /\ k \in Remaining(j)
      /\ enqueued' = enqueued \cup {x} /\ UNCHANGED <<now, bucket, job, start>>
  BY <1>2 DEF Enqueue
<1>4. x.key = k /\ x.job = j /\ x.at = now /\ x.due = now + DelayMinutes(j, k)
  BY <1>2
<1>5. InShard(j, k) /\ \A e \in enqueued : e.job = j => e.key # k
  BY <1>3 DEF Remaining, Enqueued
<1>6. start[j] \div tick = j
  BY <1>1, <1>3
<1>7. /\ keyMin(j, k) \in Nat /\ start[j] \in Nat /\ shardStart(j) \in Nat
      /\ now \in Nat /\ tick \in Nat
  BY <1>1, <1>6, MinuteFacts, PeriodFacts DEF SharderTypeOK
<1>8. target(j, k) \in Nat /\ target(j, k) < start[j] + tick
  <2>1. shardStart(j) <= keyMin(j, k) /\ keyMin(j, k) < shardStart(j) + tick
    BY <1>5 DEF InShard
  <2> QED BY <1>7, <2>1 DEF target
<1>9. x.due \in Nat /\ (x.due < start[j] + tick \/ x.due = x.at)
  <2>1. PICK t \in Nat : t = target(j, k)
    BY <1>8
  <2>2. DelayMinutes(j, k) = IF t > now THEN t - now ELSE 0
    BY <2>1 DEF DelayMinutes
  <2> QED BY <1>4, <1>7, <1>8, <2>1, <2>2
<1>10. \A i, m : InShard(i, m)' = InShard(i, m)
  BY <1>3 DEF InShard, keyMin, shardStart
<1>11. SharderTypeOK'
  <2>1. \A e \in enqueued' : e.key \in Keys /\ e.job \in Ticks /\ e.due \in Nat /\ e.at \in Nat
    BY <1>1, <1>3, <1>4, <1>7, <1>9 DEF SharderTypeOK
  <2> QED BY <1>1, <1>3, <2>1 DEF SharderTypeOK
<1>12. \A e \in enqueued' : job'[e.job] # "due" /\ InShard(e.job, e.key)'
  BY <1>1, <1>3, <1>4, <1>5, <1>10
<1>13. DueInShard'
  BY <1>1, <1>3, <1>4, <1>9 DEF DueInShard
<1>14. \A e, f \in enqueued' : e.key = f.key /\ e.job = f.job => e = f
  BY <1>1, <1>3, <1>4, <1>5
<1>15. ASSUME NEW i \in Ticks, job'[i] = "done" PROVE Remaining(i)' = {}
  <2>1. i # j /\ job[i] = "done"
    BY <1>3, <1>15
  <2>2. Enqueued(i)' = Enqueued(i)
    BY <1>3, <1>4, <2>1 DEF Enqueued
  <2>3. Remaining(i) = {}
    BY <1>1, <2>1
  <2> QED BY <1>10, <2>2, <2>3 DEF Remaining
<1> QED BY <1>1, <1>3, <1>11, <1>12, <1>13, <1>14, <1>15 DEF SharderIInv

\* A step that enqueues nothing and starts nothing.
LEMMA JobsGoOn ==
  ASSUME SharderIInv, UNCHANGED <<bucket, start, enqueued>>, now' \in 0 .. Horizon + tick,
         job' \in [Ticks -> {"due", "running", "canceled", "done", "failed"}],
         \A j \in Ticks : /\ job[j] = "due" <=> job'[j] = "due"
                          /\ job'[j] = "done" => Remaining(j) = {}
  PROVE  SharderIInv'
<1>1. /\ SharderTypeOK /\ \A i \in Ticks : job[i] # "due" => start[i] \div tick = i
      /\ \A e \in enqueued : job[e.job] # "due" /\ InShard(e.job, e.key)
      /\ DueInShard
      /\ \A e, f \in enqueued : e.key = f.key /\ e.job = f.job => e = f
  BY DEF SharderIInv
<1>2. \A i, m : InShard(i, m)' = InShard(i, m)
  BY DEF InShard, keyMin, shardStart
<1>3. \A i : Remaining(i)' = Remaining(i)
  <2>1. \A i : Enqueued(i)' = Enqueued(i)
    BY DEF Enqueued
  <2> QED BY <1>2, <2>1 DEF Remaining
<1>4. SharderTypeOK'
  BY <1>1 DEF SharderTypeOK
<1>5. \A e \in enqueued' : job'[e.job] # "due" /\ InShard(e.job, e.key)'
  BY <1>1, <1>2 DEF SharderTypeOK
<1>6. DueInShard'
  BY <1>1 DEF DueInShard
<1> QED BY <1>1, <1>3, <1>4, <1>5, <1>6 DEF SharderIInv

LEMMA SharderStepInv == SharderIInv /\ [SharderNext]_sharderVars => SharderIInv'
<1> SUFFICES ASSUME SharderIInv, [SharderNext]_sharderVars PROVE SharderIInv'
  OBVIOUS
<1>1. /\ job \in [Ticks -> {"due", "running", "canceled", "done", "failed"}]
      /\ now \in 0 .. Horizon + tick /\ \A j \in Ticks : job[j] = "done" => Remaining(j) = {}
  BY DEF SharderIInv, SharderTypeOK
<1>2. ASSUME NEW j \in Ticks, EnqueueFails(j) PROVE SharderIInv'
  <2>1. /\ job[j] = "running" /\ job' = [job EXCEPT ![j] = "canceled"]
        /\ UNCHANGED <<now, bucket, start, enqueued>>
    BY <1>2 DEF EnqueueFails
  <2> QED BY <1>1, <2>1, JobsGoOn
<1>3. ASSUME NEW j \in Ticks, EndProcess(j) PROVE SharderIInv'
  <2>1. /\ UNCHANGED <<now, bucket, start, enqueued>>
        /\ \/ job[j] = "running" /\ Remaining(j) = {} /\ job' = [job EXCEPT ![j] = "done"]
           \/ job[j] = "canceled" /\ job' = [job EXCEPT ![j] = "failed"]
    BY <1>3 DEF EndProcess
  <2> QED BY <1>1, <2>1, JobsGoOn
<1>4. CASE MinutePasses
  <2>1. now' \in 0 .. Horizon + tick /\ UNCHANGED <<bucket, job, start, enqueued>>
    BY <1>1, <1>4, PeriodFacts DEF MinutePasses
  <2> QED BY <1>1, <2>1, JobsGoOn
<1>5. CASE UNCHANGED sharderVars
  <2>1. UNCHANGED <<now, bucket, job, start, enqueued>>
    BY <1>5 DEF sharderVars
  <2> QED BY <1>1, <2>1, JobsGoOn
<1> QED BY <1>2, <1>3, <1>4, <1>5, NewSharderInv, EnqueueInv DEF SharderNext

-----------------------------------------------------------------------------
(* The jobs of a period tile it.                                           *)

LEMMA KeyOnce ==
  ASSUME SharderIInv, NEW p \in 0 .. Periods - 1, \A j \in JobsOf(p) : job[j] = "done",
         NEW k \in Keys
  PROVE  Cardinality({e \in enqueued : e.key = k /\ e.job \in JobsOf(p)}) = 1
<1>1. /\ SharderTypeOK /\ \A i \in Ticks : job[i] # "due" => start[i] \div tick = i
      /\ \A e \in enqueued : job[e.job] # "due" /\ InShard(e.job, e.key)
      /\ \A e, f \in enqueued : e.key = f.key /\ e.job = f.job => e = f
      /\ \A i \in Ticks : job[i] = "done" => Remaining(i) = {}
  BY DEF SharderIInv
<1>2. /\ tick \in Nat /\ tick > 0 /\ period \in Nat /\ period > 0 /\ Periods \in Nat
      /\ perPeriod \in Nat /\ perPeriod > 0 /\ period = perPeriod * tick
      /\ Periods * perPeriod \in Nat /\ Ticks = 0 .. Periods * perPeriod - 1 /\ p \in Nat
  BY PeriodFacts
<1>3. PICK b \in Nat : b = bucket[p][k] /\ b < period
  BY <1>1, <1>2 DEF SharderTypeOK
\* The shard of a job of the period.
<1>4. ASSUME NEW j \in JobsOf(p)
      PROVE  \E i \in Nat : /\ j = p * perPeriod + i /\ i < perPeriod /\ j \in Ticks
                            /\ i * tick \in Nat
                            /\ InShard(j, k) <=> i * tick <= b /\ b < i * tick + tick
  <2>1. j \in Ticks /\ (j * tick) \div period = p /\ job[j] = "done"
    BY <1>4 DEF JobsOf
  <2>2. PICK q, i \in Nat : j = q * perPeriod + i /\ i < perPeriod
    BY <2>1, TickOfPeriod
  <2>3. q = p
    BY <2>1, <2>2, JobFacts
  <2>4. start[j] \in Nat /\ start[j] \div tick = j
    <3>1. start[j] \in 0 .. Horizon
      BY <1>1, <2>1 DEF SharderTypeOK
    <3>2. start[j] \in Nat
      BY <3>1, PeriodFacts
    <3>3. job[j] # "due"
      BY <2>1
    <3> QED BY <1>1, <2>1, <3>2, <3>3
  <2>5. /\ start[j] \div period = p /\ i * tick \in Nat
        /\ Truncate(start[j], tick) - Truncate(start[j], period) = i * tick
    BY <2>1, <2>2, <2>3, <2>4, JobFacts
  <2>6. InShard(j, k) <=> i * tick <= b /\ b < i * tick + tick
    BY <1>3, <2>5 DEF InShard, keyMin, shardStart
  <2> QED BY <2>1, <2>2, <2>3, <2>5, <2>6
\* The job whose shard the key's minute is in.
<1>5. PICK i \in Nat, r \in Nat : b = i * tick + r /\ r < tick
  BY <1>2, <1>3, DivSplits
<1>6. PICK I \in Nat : I = i * tick
  BY <1>2, TimesFacts
<1>7. i < perPeriod
  <2> SUFFICES ASSUME perPeriod <= i PROVE FALSE
    BY <1>2
  <2>1. perPeriod * tick <= i * tick
    BY <1>2, TimesFacts
  <2> QED BY <1>2, <1>3, <1>5, <2>1
<1>8. PICK j \in Nat : j = p * perPeriod + i
  <2>1. p * perPeriod \in Nat
    BY <1>2, TimesFacts
  <2> QED BY <2>1
<1>9. j \in Ticks
  <2>1. (p + 1) * perPeriod <= Periods * perPeriod
    BY <1>2, TimesFacts
  <2>2. (p + 1) * perPeriod = p * perPeriod + perPeriod
    <3>1. (p + 1) * perPeriod = p * perPeriod + 1 * perPeriod /\ 1 * perPeriod = perPeriod
      BY <1>2, TimesFacts
    <3> QED BY <3>1
  <2>3. PICK P \in Nat : P = p * perPeriod
    BY <1>2, TimesFacts
  <2> QED BY <1>2, <1>7, <1>8, <2>1, <2>2, <2>3
<1>10. j \in JobsOf(p)
  BY <1>2, <1>7, <1>8, <1>9, JobFacts DEF JobsOf
<1>11. InShard(j, k)
  <2>1. PICK n \in Nat : /\ j = p * perPeriod + n /\ n < perPeriod /\ n * tick \in Nat
                         /\ InShard(j, k) <=> n * tick <= b /\ b < n * tick + tick
    BY <1>4, <1>10
  <2>2. n = i
    <3>1. PICK P \in Nat : P = p * perPeriod
      BY <1>2, TimesFacts
    <3> QED BY <1>8, <2>1, <3>1
  <2> QED BY <1>2, <1>5, <1>6, <2>1, <2>2
<1>12. PICK e \in enqueued : e.job = j /\ e.key = k
  <2>1. Remaining(j) = {}
    BY <1>1, <1>9, <1>10
  <2>2. k \in Enqueued(j)
    BY <1>11, <2>1 DEF Remaining
  <2> QED BY <2>2 DEF Enqueued
<1>13. ASSUME NEW f \in enqueued, f.key = k, f.job \in JobsOf(p) PROVE f = e
  <2>1. PICK n \in Nat : /\ f.job = p * perPeriod + n /\ n < perPeriod /\ n * tick \in Nat
                         /\ InShard(f.job, k) <=> n * tick <= b /\ b < n * tick + tick
    BY <1>4, <1>13
  <2>2. n * tick <= b /\ b < n * tick + tick
    BY <1>1, <1>13, <2>1
  <2>3. PICK N \in Nat : N = n * tick
    BY <2>1
  <2>4. b = n * tick + (b - N) /\ b - N \in Nat /\ b - N < tick
    BY <1>2, <2>2, <2>3
  <2>5. b \div tick = n
    BY <1>2, <2>4, DivIs
  <2>6. b \div tick = i
    BY <1>2, <1>5, DivIs
  <2>7. f.job = j
    BY <1>8, <2>1, <2>5, <2>6
  <2> QED BY <1>1, <1>12, <1>13, <2>7
<1>14. {f \in enqueued : f.key = k /\ f.job \in JobsOf(p)} = {e}
  BY <1>10, <1>12, <1>13
<1>15. PICK E : E = {f \in enqueued : f.key = k /\ f.job \in JobsOf(p)}
  OBVIOUS
<1>16. Cardinality(E) = 1
  BY <1>14, <1>15, FS_Singleton
<1> QED BY <1>15, <1>16

LEMMA PeriodIsTiled == SharderIInv => ShardsTile
<1> SUFFICES ASSUME SharderIInv PROVE ShardsTile
  OBVIOUS
<1>1. EachKeyOnce
  BY KeyOnce DEF EachKeyOnce
<1> QED BY <1>1 DEF SharderIInv, ShardsTile

-----------------------------------------------------------------------------
(***************************************************************************)
(* Proofs about Conformance: the types of the queue under test.            *)
(***************************************************************************)

TestStatuses == {"not found", "queued", "in progress"}

\* The steps that scripts are made of.
TestSteps ==
  UNION {[op : {"queue"}, key : TestKeys, prio : Q!Priority, after : Nat, floor : BOOLEAN],
         [op : {"check"}, wip : SUBSET TestKeys, queued : Seq(TestKeys)],
         [op : {"start"}, key : TestKeys], [op : {"requeue"}, plan : Q!Plans],
         [op : {"remove"}], [op : {"sleep"}, time : Nat], [op : {"attempts"}, count : Nat],
         [op : {"get"}, key : TestKeys, status : TestStatuses, prio : Q!Priority]}

LEMMA GroundFacts ==
  /\ "foo" \in TestKeys /\ "bar" \in TestKeys /\ "baz" \in TestKeys
  /\ delay \in Nat /\ twice \in Nat /\ thrice \in Nat /\ long \in Nat
  /\ 0 \in Q!Priority /\ low \in Q!Priority /\ some \in Q!Priority /\ high \in Q!Priority
  /\ higher \in Q!Priority
  /\ <<>> \in Seq(TestKeys) /\ Foo \in Seq(TestKeys) /\ Bar \in Seq(TestKeys)
  /\ FooBar \in Seq(TestKeys) /\ BarFoo \in Seq(TestKeys)
<1>1. /\ "foo" \in TestKeys /\ "bar" \in TestKeys /\ "baz" \in TestKeys
      /\ delay \in Nat /\ twice \in Nat /\ thrice \in Nat /\ long \in Nat
  BY SMT DEF TestKeys, delay, twice, thrice, long
<1>2. /\ 0 \in Q!Priority /\ low \in Q!Priority /\ some \in Q!Priority /\ high \in Q!Priority
      /\ higher \in Q!Priority
  <2>1. Q!MaxPriority \in Nat /\ 1001 <= Q!MaxPriority
    BY SMT DEF Q!MaxPriority
  <2> QED BY <2>1, SMT DEF Q!Priority, low, some, high, higher
<1>3. /\ <<>> \in Seq(TestKeys) /\ Foo \in Seq(TestKeys) /\ Bar \in Seq(TestKeys)
      /\ FooBar \in Seq(TestKeys) /\ BarFoo \in Seq(TestKeys)
  BY <1>1 DEF Foo, Bar, FooBar, BarFoo
<1> QED BY <1>1, <1>2, <1>3, SMT

LEMMA StepFacts ==
  /\ \A k \in TestKeys : Add(k) \in TestSteps /\ Began(k) \in TestSteps
  /\ \A k \in TestKeys, p \in Q!Priority : AddAt(k, p) \in TestSteps
  /\ \A k \in TestKeys, d \in Nat : Later(k, d) \in TestSteps /\ Floored(k, d) \in TestSteps
  /\ \A k \in TestKeys, p \in Q!Priority, d \in Nat : LaterAt(k, p, d) \in TestSteps
  /\ \A s \in Seq(TestKeys) : Lists(s) \in TestSteps /\ WithFoo(s) \in TestSteps
  /\ \A d \in Nat : Sleep(d) \in TestSteps /\ AttemptIs(d) \in TestSteps
  /\ \A d \in Nat : /\ Delayed(d) \in TestSteps /\ ToFloor(d) \in TestSteps
                    /\ BackedOff(d) \in TestSteps
  /\ Hidden \in TestSteps /\ Gone \in TestSteps /\ BareRequeue \in TestSteps
<1>1. ASSUME NEW k \in TestKeys, NEW p \in Q!Priority, NEW d \in Nat, NEW f \in BOOLEAN
      PROVE  Queues(k, p, d, f) \in TestSteps
  BY DEF Queues, TestSteps
<1>2. ASSUME NEW k \in TestKeys PROVE Began(k) \in TestSteps
  BY DEF Began, TestSteps
<1>3. ASSUME NEW W \in SUBSET TestKeys, NEW s \in Seq(TestKeys) PROVE Shows(W, s) \in TestSteps
  BY DEF Shows, TestSteps
<1>4. ASSUME NEW plan \in Q!Plans PROVE Back(plan) \in TestSteps
  BY DEF Back, TestSteps
<1>5. Q!PlainPlan \in Q!Plans
  BY DEF Q!PlainPlan, Q!Plans
<1>6. ASSUME NEW d \in Nat
      PROVE  /\ Q!BackoffPlan(d) \in Q!Plans
             /\ Q!DelayPlan(d, TRUE) \in Q!Plans /\ Q!DelayPlan(d, FALSE) \in Q!Plans
  BY DEF Q!BackoffPlan, Q!DelayPlan, Q!Plans
<1>7. ASSUME NEW d \in Nat PROVE Sleep(d) \in TestSteps /\ AttemptIs(d) \in TestSteps
  BY DEF Sleep, AttemptIs, TestSteps
<1>8. Gone \in TestSteps
  BY DEF Gone, TestSteps
<1>10. ASSUME NEW k \in TestKeys PROVE Add(k) \in TestSteps
  BY <1>1, GroundFacts DEF Add
<1>11. ASSUME NEW k \in TestKeys, NEW p \in Q!Priority PROVE AddAt(k, p) \in TestSteps
  BY <1>1 DEF AddAt
<1>9. ASSUME NEW k \in TestKeys, NEW p \in Q!Priority, NEW d \in Nat
      PROVE  LaterAt(k, p, d) \in TestSteps
  BY <1>1 DEF LaterAt
<1>12. ASSUME NEW k \in TestKeys, NEW d \in Nat
       PROVE  Later(k, d) \in TestSteps /\ Floored(k, d) \in TestSteps
  BY <1>1, <1>9, GroundFacts DEF Later, Floored
<1>13. ASSUME NEW s \in Seq(TestKeys) PROVE Lists(s) \in TestSteps /\ WithFoo(s) \in TestSteps
  <2>1. {"foo"} \in SUBSET TestKeys
    BY GroundFacts
  <2> QED BY <1>3, <2>1 DEF Lists, WithFoo
<1>14. ASSUME NEW d \in Nat
       PROVE  Delayed(d) \in TestSteps /\ ToFloor(d) \in TestSteps /\ BackedOff(d) \in TestSteps
  BY <1>4, <1>6 DEF Delayed, ToFloor, BackedOff
<1>15. Hidden \in TestSteps /\ BareRequeue \in TestSteps
  BY <1>4, <1>5, <1>13, GroundFacts DEF Hidden, BareRequeue
<1> QED
  BY <1>2, <1>7, <1>8, <1>9, <1>10, <1>11, <1>12, <1>13, <1>14, <1>15

LEMMA NamedSteps ==
  /\ FooBusy \in TestSteps /\ Moment \in TestSteps
  /\ Attempt1 \in TestSteps /\ Attempt2 \in TestSteps /\ Attempt3 \in TestSteps
  /\ Absent \in TestSteps /\ QueuedAtSome \in TestSteps /\ InProgress \in TestSteps
<1>1. "foo" \in TestKeys /\ 0 \in Q!Priority /\ some \in Q!Priority /\ <<>> \in Seq(TestKeys)
  BY GroundFacts
<1>2. FooBusy \in TestSteps
  BY <1>1, StepFacts DEF FooBusy
<1>3. /\ Moment \in TestSteps
      /\ Attempt1 \in TestSteps /\ Attempt2 \in TestSteps /\ Attempt3 \in TestSteps
  BY StepFacts DEF Moment, Attempt1, Attempt2, Attempt3
<1>7. ASSUME NEW k \in TestKeys, NEW s \in TestStatuses, NEW p \in Q!Priority
      PROVE  Is(k, s, p) \in TestSteps
  BY DEF Is, TestSteps
<1>4. Absent \in TestSteps
  <2>1. "not found" \in TestStatuses
    BY DEF TestStatuses
  <2> QED BY <1>1, <1>7, <2>1, Zenon DEF Absent
<1>5. QueuedAtSome \in TestSteps
  <2>1. "queued" \in TestStatuses
    BY DEF TestStatuses
  <2> QED BY <1>1, <1>7, <2>1, Zenon DEF QueuedAtSome
<1>6. InProgress \in TestSteps
  <2>1. "in progress" \in TestStatuses
    BY DEF TestStatuses
  <2> QED BY <1>1, <1>7, <2>1, Zenon DEF InProgress
<1> QED BY <1>2, <1>3, <1>4, <1>5, <1>6

LEMMA ScenariosTyped == \A t \in Scenarios : t \in Seq(TestSteps)
<1>1. SimpleQueueOrdering \in Seq(TestSteps)
  <2>1. /\ Add("foo") \in TestSteps /\ Lists(Foo) \in TestSteps /\ Moment \in TestSteps
        /\ Add("bar") \in TestSteps /\ Lists(FooBar) \in TestSteps
    BY GroundFacts, StepFacts, NamedSteps, SMT
  <2> QED BY <2>1, SMT DEF SimpleQueueOrdering
<1>2. MoreThanConcurrency \in Seq(TestSteps)
  <2>1. /\ Moment \in TestSteps /\ Add("foo") \in TestSteps /\ Add("bar") \in TestSteps
        /\ Add("baz") \in TestSteps /\ Lists(FooBar) \in TestSteps
    BY GroundFacts, StepFacts, NamedSteps, SMT
  <2> QED BY <2>1, SMT DEF MoreThanConcurrency
<1>3. SimpleDeduplication \in Seq(TestSteps)
  <2>1. /\ Add("foo") \in TestSteps /\ Lists(Foo) \in TestSteps
    BY GroundFacts, StepFacts, NamedSteps, SMT
  <2> QED BY <2>1, SMT DEF SimpleDeduplication
<1>4. PriorityOrdering \in Seq(TestSteps)
  <2>1. /\ Add("foo") \in TestSteps /\ Lists(Foo) \in TestSteps /\ Moment \in TestSteps
        /\ Add("bar") \in TestSteps /\ Lists(FooBar) \in TestSteps
        /\ AddAt("bar", high) \in TestSteps /\ Lists(BarFoo) \in TestSteps
        /\ AddAt("foo", high) \in TestSteps /\ AddAt("bar", higher) \in TestSteps
    BY GroundFacts, StepFacts, NamedSteps, SMT
  <2> QED BY <2>1, SMT DEF PriorityOrdering
<1>5. StartAndComplete \in Seq(TestSteps)
  <2>1. /\ Add("foo") \in TestSteps /\ Lists(Foo) \in TestSteps /\ Began("foo") \in TestSteps
        /\ FooBusy \in TestSteps /\ Sleep(twice) \in TestSteps
        /\ Gone \in TestSteps /\ Hidden \in TestSteps
    BY GroundFacts, StepFacts, NamedSteps, SMT
  <2> QED BY <2>1, SMT DEF StartAndComplete
<1>6. StartAndRequeue \in Seq(TestSteps)
  <2>1. /\ Add("foo") \in TestSteps /\ Moment \in TestSteps /\ Add("bar") \in TestSteps
        /\ Lists(FooBar) \in TestSteps /\ Began("foo") \in TestSteps
        /\ WithFoo(Bar) \in TestSteps /\ BareRequeue \in TestSteps
        /\ Lists(BarFoo) \in TestSteps
    BY GroundFacts, StepFacts, NamedSteps, SMT
  <2> QED BY <2>1, SMT DEF StartAndRequeue
<1>7. StartAndQueue \in Seq(TestSteps)
  <2>1. /\ Add("foo") \in TestSteps /\ Lists(Foo) \in TestSteps /\ Began("foo") \in TestSteps
        /\ WithFoo(Foo) \in TestSteps
    BY GroundFacts, StepFacts, NamedSteps, SMT
  <2> QED BY <2>1, SMT DEF StartAndQueue
<1>8. RequeueWithPriority \in Seq(TestSteps)
  <2>1. /\ AddAt("foo", high) \in TestSteps /\ Moment \in TestSteps
        /\ Add("bar") \in TestSteps /\ Lists(FooBar) \in TestSteps /\ Began("foo") \in TestSteps
        /\ BareRequeue \in TestSteps /\ Lists(Bar) \in TestSteps
        /\ Sleep(delay) \in TestSteps
    BY GroundFacts, StepFacts, NamedSteps, SMT
  <2> QED BY <2>1, SMT DEF RequeueWithPriority
<1>9. SimpleNotBefore \in Seq(TestSteps)
  <2>1. /\ Later("foo", delay) \in TestSteps /\ Hidden \in TestSteps
        /\ Sleep(delay) \in TestSteps /\ Lists(Foo) \in TestSteps
    BY GroundFacts, StepFacts, NamedSteps, SMT
  <2> QED BY <2>1, SMT DEF SimpleNotBefore
<1>10. NotBeforeWithPriorities \in Seq(TestSteps)
  <2>1. /\ Add("foo") \in TestSteps /\ Lists(Foo) \in TestSteps
        /\ LaterAt("bar", high, delay) \in TestSteps /\ Sleep(delay) \in TestSteps
        /\ Lists(BarFoo) \in TestSteps
    BY GroundFacts, StepFacts, NamedSteps, SMT
  <2> QED BY <2>1, SMT DEF NotBeforeWithPriorities
<1>11. EarliestNotBeforeWins \in Seq(TestSteps)
  <2>1. /\ Later("foo", long) \in TestSteps /\ Hidden \in TestSteps
        /\ Later("foo", delay) \in TestSteps /\ Sleep(delay) \in TestSteps
        /\ Lists(Foo) \in TestSteps
    BY GroundFacts, StepFacts, NamedSteps, SMT
  <2> QED BY <2>1, SMT DEF EarliestNotBeforeWins
<1>12. NotBeforeIsAFloor \in Seq(TestSteps)
  <2>1. /\ Add("foo") \in TestSteps /\ Lists(Foo) \in TestSteps /\ Began("foo") \in TestSteps
        /\ FooBusy \in TestSteps /\ ToFloor(delay) \in TestSteps
        /\ Hidden \in TestSteps /\ Sleep(delay) \in TestSteps
    BY GroundFacts, StepFacts, NamedSteps, SMT
  <2> QED BY <2>1, SMT DEF NotBeforeIsAFloor
<1>13. QueueWithFloor \in Seq(TestSteps)
  <2>1. /\ Floored("foo", delay) \in TestSteps /\ Hidden \in TestSteps
        /\ Add("foo") \in TestSteps /\ Sleep(delay) \in TestSteps /\ Lists(Foo) \in TestSteps
    BY GroundFacts, StepFacts, NamedSteps, SMT
  <2> QED BY <2>1, SMT DEF QueueWithFloor
<1>14. LaterFloorExtends \in Seq(TestSteps)
  <2>1. /\ Floored("foo", delay) \in TestSteps /\ Hidden \in TestSteps
        /\ Floored("foo", thrice) \in TestSteps /\ Sleep(delay) \in TestSteps
        /\ Sleep(thrice) \in TestSteps /\ Lists(Foo) \in TestSteps
    BY GroundFacts, StepFacts, NamedSteps, SMT
  <2> QED BY <2>1, SMT DEF LaterFloorExtends
<1>15. PlainRequeueClearsFloor \in Seq(TestSteps)
  <2>1. /\ Add("foo") \in TestSteps /\ Lists(Foo) \in TestSteps /\ Began("foo") \in TestSteps
        /\ ToFloor(delay) \in TestSteps /\ Hidden \in TestSteps /\ Sleep(delay) \in TestSteps
        /\ Delayed(delay) \in TestSteps
    BY GroundFacts, StepFacts, NamedSteps, SMT
  <2> QED BY <2>1, SMT DEF PlainRequeueClearsFloor
<1>16. FloorReplaces \in Seq(TestSteps)
  <2>1. /\ Later("foo", thrice) \in TestSteps /\ Hidden \in TestSteps
        /\ Floored("foo", delay) \in TestSteps /\ Add("foo") \in TestSteps
        /\ Sleep(delay) \in TestSteps /\ Lists(Foo) \in TestSteps
    BY GroundFacts, StepFacts, NamedSteps, SMT
  <2> QED BY <2>1, SMT DEF FloorReplaces
<1>17. FloorReplacesOnRequeue \in Seq(TestSteps)
  <2>1. /\ AddAt("foo", low) \in TestSteps /\ Lists(Foo) \in TestSteps
        /\ Began("foo") \in TestSteps /\ Later("foo", thrice) \in TestSteps
        /\ ToFloor(delay) \in TestSteps /\ Hidden \in TestSteps /\ Sleep(delay) \in TestSteps
    BY GroundFacts, StepFacts, NamedSteps, SMT
  <2> QED BY <2>1, SMT DEF FloorReplacesOnRequeue
<1>18. RequeueHasBackoff \in Seq(TestSteps)
  <2>1. /\ AddAt("foo", high) \in TestSteps /\ Lists(Foo) \in TestSteps
        /\ Began("foo") \in TestSteps /\ FooBusy \in TestSteps
        /\ BareRequeue \in TestSteps /\ Hidden \in TestSteps /\ Sleep(delay) \in TestSteps
        /\ Sleep(twice) \in TestSteps
    BY GroundFacts, StepFacts, NamedSteps, SMT
  <2> QED BY <2>1, SMT DEF RequeueHasBackoff
<1>19. GetKeyStates \in Seq(TestSteps)
  <2>1. /\ Absent \in TestSteps /\ AddAt("foo", some) \in TestSteps
        /\ QueuedAtSome \in TestSteps /\ Lists(Foo) \in TestSteps
        /\ Began("foo") \in TestSteps /\ InProgress \in TestSteps
        /\ Gone \in TestSteps
    BY GroundFacts, StepFacts, NamedSteps, SMT
  <2> QED BY <2>1, SMT DEF GetKeyStates
<1>20. QueuedAndInProgress \in Seq(TestSteps)
  <2>1. /\ AddAt("foo", some) \in TestSteps /\ Lists(Foo) \in TestSteps
        /\ Began("foo") \in TestSteps /\ WithFoo(Foo) \in TestSteps
        /\ InProgress \in TestSteps /\ Gone \in TestSteps
    BY GroundFacts, StepFacts, NamedSteps, SMT
  <2> QED BY <2>1, SMT DEF QueuedAndInProgress
<1>21. BackoffDefers \in Seq(TestSteps)
  <2>1. /\ Add("foo") \in TestSteps /\ Lists(Foo) \in TestSteps /\ Began("foo") \in TestSteps
        /\ FooBusy \in TestSteps /\ BackedOff(delay) \in TestSteps
        /\ Hidden \in TestSteps /\ Sleep(twice) \in TestSteps
    BY GroundFacts, StepFacts, NamedSteps, SMT
  <2> QED BY <2>1, SMT DEF BackoffDefers
<1>22. BackoffPreservesAttempts \in Seq(TestSteps)
  <2>1. /\ AddAt("foo", high) \in TestSteps /\ Lists(Foo) \in TestSteps
        /\ Began("foo") \in TestSteps /\ Attempt1 \in TestSteps /\ BareRequeue \in TestSteps
        /\ Sleep(twice) \in TestSteps /\ Attempt2 \in TestSteps
        /\ BackedOff(delay) \in TestSteps /\ Hidden \in TestSteps /\ Attempt3 \in TestSteps
        /\ Gone \in TestSteps
    BY GroundFacts, StepFacts, NamedSteps, SMT
  <2> QED BY <2>1, SMT DEF BackoffPreservesAttempts
<1>23. MaxRetryLimit \in Seq(TestSteps)
  <2>1. /\ AddAt("foo", high) \in TestSteps /\ Lists(Foo) \in TestSteps
        /\ Began("foo") \in TestSteps /\ FooBusy \in TestSteps
        /\ Attempt1 \in TestSteps /\ BareRequeue \in TestSteps /\ Hidden \in TestSteps
        /\ Sleep(delay) \in TestSteps /\ Attempt2 \in TestSteps /\ Gone \in TestSteps
        /\ Sleep(twice) \in TestSteps
    BY GroundFacts, StepFacts, NamedSteps, SMT
  <2> QED BY <2>1, SMT DEF MaxRetryLimit
<1> QED
  BY <1>1, <1>2, <1>3, <1>4, <1>5, <1>6, <1>7, <1>8, <1>9, <1>10, <1>11, <1>12, <1>13, <1>14,
     <1>15, <1>16, <1>17, <1>18, <1>19, <1>20, <1>21, <1>22, <1>23
  DEF Scenarios

TestTyped ==
  /\ script \in Seq(TestSteps) /\ ConformanceTypeOK
  /\ inHand \in [key : TestKeys \cup {"none"}, prio : Q!Priority, attempts : Nat]

LEMMA ConformanceInitInv == ConformanceInit => TestTyped
<1> SUFFICES ASSUME ConformanceInit PROVE TestTyped
  OBVIOUS
<1>1. script \in Seq(TestSteps)
  BY ScenariosTyped DEF ConformanceInit
<1>2. NobodyHeld \in [key : TestKeys \cup {"none"}, prio : Q!Priority, attempts : Nat]
  BY GroundFacts, SMT DEF NobodyHeld
<1> QED BY <1>1, <1>2 DEF ConformanceInit, TestTyped, ConformanceTypeOK, Q!InMemTypeOK

LEMMA TestBackoff == ASSUME NEW n \in Nat PROVE Q!LinearBackoff(n) \in Nat
BY DEF Q!LinearBackoff, Q!Smaller, delay

\* What the queue makes of an entry.
LEMMA TestEnqueued ==
  ASSUME ConformanceTypeOK, NEW k, NEW o \in Q!Options, NEW n \in Nat
  PROVE  Q!Enqueued(k, o, n) \in [TestKeys -> Q!Item \cup {NoItem}]
<1>1. testQueue \in [TestKeys -> Q!Item \cup {NoItem}] /\ testClock \in Nat
  BY DEF ConformanceTypeOK, Q!InMemTypeOK
<1>2. Q!Fresh(o, n) \in Q!Item
  BY <1>1 DEF Q!Fresh, Q!Item, Q!Options
<1>3. ASSUME NEW i \in Q!Item PROVE Q!Deduplicated(i, o) \in Q!Item
  <2> DEFINE merged == Q!MergeOptions(i, o)
  <2>1. merged.prio \in Q!Priority /\ merged.nb \in Nat /\ merged.floor \in BOOLEAN
    BY DEF Q!Item, Q!Options, Q!MergeOptions, Q!MergeNotBefore, Q!Priority
  <2>2. Q!Deduplicated(i, o) = [i EXCEPT !.prio = merged.prio, !.nb = merged.nb,
                                         !.floor = merged.floor]
    BY DEF Q!Deduplicated
  <2> HIDE DEF merged
  <2> QED BY <2>1, <2>2 DEF Q!Item
<1>4. PICK v : v = IF testQueue[k] = NoItem THEN Q!Fresh(o, n) ELSE Q!Deduplicated(testQueue[k], o)
  OBVIOUS
<1>5. Q!Enqueued(k, o, n) = [testQueue EXCEPT ![k] = v]
  BY <1>4 DEF Q!Enqueued
<1>6. CASE k \in TestKeys
  <2>1. v \in Q!Item
    BY <1>1, <1>2, <1>3, <1>4, <1>6
  <2> QED BY <1>1, <1>5, <2>1
<1>7. CASE k \notin TestKeys
  BY <1>1, <1>5, <1>7
<1> QED BY <1>6, <1>7

LEMMA TestReturned ==
  ASSUME testClock \in Nat, NEW plan \in Q!Plans,
         NEW h \in [key : TestKeys \cup {"none"}, prio : Q!Priority, attempts : Nat]
  PROVE  Q!Returned(h, plan) \in Q!Options
<1>1. Q!LinearBackoff(h.attempts) \in Nat /\ plan.delay \in Nat /\ plan.floor \in BOOLEAN
  BY TestBackoff DEF Q!Plans
<1> QED BY <1>1 DEF Q!Returned, Q!Options

LEMMA TestCallsTyped ==
  ASSUME TestTyped, NEW op,
         TestCalls(op) \/ (op = "sleep" /\ Upcoming("sleep") /\ script' = Tail(script))
  PROVE  /\ script' \in Seq(TestSteps) /\ Head(script) \in TestSteps /\ Head(script).op = op
<1>1. script \in Seq(TestSteps) /\ script # <<>> /\ script' = Tail(script) /\ Head(script).op = op
  BY DEF TestTyped, TestCalls, Upcoming
<1>2. Head(script) \in TestSteps /\ Tail(script) \in Seq(TestSteps)
  BY <1>1, HeadTailProperties
<1> QED BY <1>1, <1>2

LEMMA ConformanceStepInv == TestTyped /\ [ConformanceNext]_conformanceVars => TestTyped'
<1> SUFFICES ASSUME TestTyped, [ConformanceNext]_conformanceVars PROVE TestTyped'
  OBVIOUS
<1> DEFINE Hand == [key : TestKeys \cup {"none"}, prio : Q!Priority, attempts : Nat]
<1>1. /\ ConformanceTypeOK /\ script \in Seq(TestSteps) /\ inHand \in Hand
      /\ testQueue \in [TestKeys -> Q!Item \cup {NoItem}] /\ testWip \subseteq TestKeys
      /\ testClock \in Nat /\ drained \in BOOLEAN
  BY DEF TestTyped, ConformanceTypeOK, Q!InMemTypeOK
<1>2. ASSUME NEW op, TestCalls(op) PROVE testClock' \in Nat /\ drained' \in BOOLEAN
  BY <1>1, <1>2 DEF TestCalls
<1>3. ASSUME script' \in Seq(TestSteps), inHand' \in Hand, testClock' \in Nat, drained' \in BOOLEAN,
             testQueue' \in [TestKeys -> Q!Item \cup {NoItem}], testWip' \subseteq TestKeys
      PROVE  TestTyped'
  BY <1>3 DEF TestTyped, ConformanceTypeOK, Q!InMemTypeOK
<1> HIDE DEF Hand
<1>4. CASE TestQueues
  <2>1. PICK s : s = Head(script)
    OBVIOUS
  <2>2. /\ TestCalls("queue") /\ inHand' = inHand /\ testWip' = testWip
        /\ testQueue' = Q!Enqueued(s.key, [prio |-> s.prio, floor |-> s.floor,
                                          nb |-> IF s.after = 0 THEN 0 ELSE testClock + s.after], 0)
    BY <1>4, <2>1 DEF TestQueues, Q!Queue
  <2>3. script' \in Seq(TestSteps) /\ s \in TestSteps /\ s.op = "queue"
    BY <2>1, <2>2, TestCallsTyped
  <2>4. s.prio \in Q!Priority /\ s.floor \in BOOLEAN /\ s.after \in Nat
    BY <2>3 DEF TestSteps
  <2>5. PICK o : o = [prio |-> s.prio, floor |-> s.floor,
                      nb |-> IF s.after = 0 THEN 0 ELSE testClock + s.after]
    OBVIOUS
  <2>6. o \in Q!Options
    BY <1>1, <2>4, <2>5 DEF Q!Options
  <2>7. testQueue' \in [TestKeys -> Q!Item \cup {NoItem}]
    BY <1>1, <2>2, <2>5, <2>6, TestEnqueued
  <2> QED BY <1>1, <1>2, <1>3, <2>2, <2>3, <2>7
<1>5. CASE TestStarts
  <2>1. PICK k : k = Head(script).key
    OBVIOUS
  <2>2. /\ TestCalls("start") /\ testQueue[k] # NoItem
        /\ testQueue' = [testQueue EXCEPT ![k] = NoItem] /\ testWip' = testWip \cup {k}
        /\ inHand' = [key |-> k, prio |-> testQueue[k].prio, attempts |-> testQueue[k].attempts + 1]
    BY <1>5, <2>1 DEF TestStarts, Q!CanStart, Q!StartKey
  <2>3. script' \in Seq(TestSteps) /\ Head(script) \in TestSteps /\ Head(script).op = "start"
    BY <2>2, TestCallsTyped
  <2>4. k \in TestKeys
    BY <2>1, <2>3 DEF TestSteps
  <2>5. PICK i \in Q!Item : i = testQueue[k]
    BY <1>1, <2>2, <2>4
  <2>6. inHand' \in Hand
    BY <2>2, <2>4, <2>5 DEF Hand, Q!Item
  <2> QED BY <1>1, <1>2, <1>3, <2>2, <2>3, <2>4, <2>6
<1>6. CASE TestRequeues
  <2>1. PICK plan : plan = Head(script).plan
    OBVIOUS
  <2>2. /\ TestCalls("requeue") /\ inHand' = inHand /\ testWip' = testWip \ {inHand.key}
        /\ testQueue' = Q!Enqueued(inHand.key, Q!Returned(inHand, plan),
                                   IF plan.kind = "delay" /\ plan.delay > 0 THEN 0
                                   ELSE inHand.attempts)
    BY <1>6, <2>1 DEF TestRequeues, Q!RequeueKey
  <2>3. script' \in Seq(TestSteps) /\ Head(script) \in TestSteps /\ Head(script).op = "requeue"
    BY <2>2, TestCallsTyped
  <2>4. plan \in Q!Plans
    BY <2>1, <2>3 DEF TestSteps
  <2>5. PICK n \in Nat : n = IF plan.kind = "delay" /\ plan.delay > 0 THEN 0 ELSE inHand.attempts
    BY <1>1 DEF Hand
  <2>6. Q!Returned(inHand, plan) \in Q!Options
    BY <1>1, <2>4, TestReturned DEF Hand
  <2>7. testQueue' \in [TestKeys -> Q!Item \cup {NoItem}]
    BY <1>1, <2>2, <2>5, <2>6, TestEnqueued
  <2> QED BY <1>1, <1>2, <1>3, <2>2, <2>3, <2>7
<1>7. CASE TestRemoves
  <2>1. /\ TestCalls("remove") /\ inHand' = inHand /\ testWip' = testWip \ {inHand.key}
        /\ testQueue' = testQueue
    BY <1>7 DEF TestRemoves, Q!Remove
  <2>2. script' \in Seq(TestSteps)
    BY <2>1, TestCallsTyped
  <2> QED BY <1>1, <1>2, <1>3, <2>1, <2>2
<1>8. CASE TestLooks
  <2>1. PICK op : TestCalls(op)
    BY <1>8 DEF TestLooks
  <2>2. UNCHANGED <<testQueue, testWip, inHand>> /\ script' \in Seq(TestSteps)
    BY <1>8, <2>1, TestCallsTyped DEF TestLooks
  <2> QED BY <1>1, <1>2, <1>3, <2>1, <2>2
<1>9. CASE TestSleeps
  <2>1. /\ Upcoming("sleep") /\ script' = Tail(script)
        /\ UNCHANGED <<testQueue, testWip, inHand, drained>>
    BY <1>9 DEF TestSleeps
  <2>2. script' \in Seq(TestSteps) /\ Head(script) \in TestSteps /\ Head(script).op = "sleep"
    BY <2>1, TestCallsTyped
  <2>3. Head(script).time \in Nat
    BY <2>2 DEF TestSteps
  <2>4. testClock' \in Nat
    BY <1>1, <1>9, <2>3 DEF TestSleeps
  <2> QED BY <1>1, <1>3, <2>1, <2>2, <2>4
<1>10. CASE TestDrains
  <2>1. PICK o : o = Q!Returned(NobodyHeld, Q!PlainPlan)
    OBVIOUS
  <2>2. PICK L \in Q!Listings :
          /\ drained' = (L = {} /\ testWip = {}) /\ testWip' = {}
          /\ testQueue' = [k \in TestKeys |->
               IF k \in L THEN NoItem
               ELSE IF k \in testWip THEN Q!Enqueued(k, o, 0)[k] ELSE testQueue[k]]
    BY <1>10, <2>1 DEF TestDrains
  <2>3. UNCHANGED <<script, testClock, inHand>>
    BY <1>10 DEF TestDrains
  <2>4. o \in Q!Options
    <3>1. NobodyHeld \in [key : TestKeys \cup {"none"}, prio : Q!Priority, attempts : Nat]
      BY GroundFacts, SMT DEF NobodyHeld
    <3>2. Q!PlainPlan \in Q!Plans
      BY DEF Q!PlainPlan, Q!Plans
    <3> QED BY <1>1, <2>1, <3>1, <3>2, TestReturned
  <2>5. \A k \in TestKeys : Q!Enqueued(k, o, 0)[k] \in Q!Item \cup {NoItem}
    <3> SUFFICES ASSUME NEW k \in TestKeys PROVE Q!Enqueued(k, o, 0)[k] \in Q!Item \cup {NoItem}
      OBVIOUS
    <3>1. Q!Enqueued(k, o, 0) \in [TestKeys -> Q!Item \cup {NoItem}]
      BY <1>1, <2>4, TestEnqueued
    <3> QED BY <3>1
  <2>6. testQueue' \in [TestKeys -> Q!Item \cup {NoItem}]
    BY <1>1, <2>2, <2>5
  <2>7. drained' \in BOOLEAN
    BY <2>2
  <2> QED BY <1>1, <1>3, <2>2, <2>3, <2>6, <2>7
<1>11. CASE UNCHANGED conformanceVars
  BY <1>1, <1>3, <1>11 DEF conformanceVars
<1> QED
  BY <1>4, <1>5, <1>6, <1>7, <1>8, <1>9, <1>10, <1>11 DEF ConformanceNext

-----------------------------------------------------------------------------
(***************************************************************************)
(* The parts within a service.                                             *)
(***************************************************************************)

\* A step of the service is a step of each part, or leaves it at rest.
LEMMA StepsOfParts ==
  [ServiceNext]_serviceVars =>
    /\ [BreakerNext]_breakerVars /\ [DrainNext]_drainVars /\ [LeaseNext]_leaseVars
    /\ [PoolNext]_poolVars /\ [OutcomesNext]_outcomesVars /\ [DedupNext]_dedupVars
    /\ [BranchNext]_branchVars /\ [SharderNext]_sharderVars
<1>1. CASE ServiceNext
  BY <1>1 DEF ServiceNext, Runs
<1>2. CASE UNCHANGED serviceVars
  BY <1>2 DEF serviceVars
<1> QED BY <1>1, <1>2

LEMMA StartsOfParts ==
  ServiceInit =>
    /\ BreakerInit /\ DrainInit /\ LeaseInit /\ PoolInit /\ OutcomesInit /\ BranchInit
    /\ SharderInit /\ DedupInit
<1> SUFFICES ASSUME ServiceInit
             PROVE  SharderInit /\ DedupInit
  BY DEF ServiceInit, LeaseStarts, OutcomesStart
<1>1. SharderInit
  BY DEF ServiceInit, SharderStarts
<1>2. DedupInit
  <2>1. CASE part = "dedup"
    BY <2>1 DEF ServiceInit, DedupStarts
  <2>2. CASE part # "dedup"
    <3>1. PICK o \in Enqueues : arrived = {o} /\ entry = o /\ object = Written(o)
      BY <2>2, DedupAssumption DEF ServiceInit, DedupStarts
    <3> QED BY <3>1 DEF DedupInit
  <2> QED BY <2>1, <2>2
<1> QED BY <1>1, <1>2

LEMMA BreakerInvariant == ServiceSpec => []BreakerIInv
BY StartsOfParts, StepsOfParts, BreakerInitInv, BreakerStepInv, PTL DEF ServiceSpec

LEMMA OutcomesInvariant == ServiceSpec => [](OutcomesIInv /\ OnlyShortDelaysDrop)
BY StartsOfParts, StepsOfParts, OutcomesInitInv, OutcomesStepInv, PTL DEF ServiceSpec

LEMMA PoolInvariant == ServiceSpec => []PoolIInv
BY StartsOfParts, StepsOfParts, PoolInitInv, PoolStepInv, PTL DEF ServiceSpec

\* A probe of an open circuit goes out only when the window of the one before it
\* has passed, however failures, lost answers and late ones interleave
\* (breaker.go, Allow); and no run of a key begins before the floor that a circuit
\* or a rate limit asked for, whatever events queue the key meanwhile.
THEOREM HostsAreSpared == ServiceSpec => HostsSpared
<1>1. ServiceSpec => ProbesApart
  BY BreakerInvariant, StepsOfParts, ProbeIsApart, PTL DEF ServiceSpec, ProbesApart
<1>2. ServiceSpec => HostSpared
  <2>1. OutcomesIInv /\ [ServiceNext]_serviceVars
          => [RunSucceeds \/ RunRefused \/ RunTrips \/ RunFails => spare = 0]_outcomesVars
    BY HostIsSpared
  <2> QED BY <2>1, OutcomesInvariant, PTL DEF ServiceSpec, HostSpared
<1> QED BY <1>1, <1>2 DEF HostsSpared

\* An outage of the host, a rate limit or a failure that passes by itself never
\* makes a key's last attempt (github reconciler.go, statusmanager adapters).
THEOREM OutagesKillNoKey == ServiceSpec => []OutagesKillNothing
<1>1. OutcomesIInv => OutagesKillNothing
  BY DEF OutcomesIInv
<1> QED BY <1>1, OutcomesInvariant, PTL

\* However long a second is: no key leaves its queue with the work undone and the
\* failure not declared final, unless its last run asked to come back in less than a
\* second (linearreconciler reconciler.go, dispatcher.go).
THEOREM OnlyShortDelaysAreLost == ServiceSpec => []OnlyShortDelaysDrop
BY OutcomesInvariant, PTL

\* A clone serves one lease at a time, no directory is leaked, and none is fetched
\* beyond its bound, however leases fail and end (clonemanager manager.go).
THEOREM ClonesAreKept == ServiceSpec => []ClonesKept
BY PoolInvariant, KeptFromInvariant, PTL

\* What a lease pushes is the base it started from and its own change: nothing that
\* another reconcile left in the clone (clonemanager manager.go, lease.go).
THEOREM PushesAreOwn == ServiceSpec => PushedOnlyOwn
BY PoolInvariant, StepsOfParts, PushIsOwn, PTL DEF ServiceSpec, PushedOnlyOwn

\* A call that began is answered within its grace, no success is taken back and a
\* shutdown costs nothing, in a service as in a process of its own (drain.go).
THEOREM CallsDrainSafely == ServiceSpec => []DrainSafe
<1>1. ServiceSpec => DrainSpec
  BY StartsOfParts, StepsOfParts, PTL DEF ServiceSpec, DrainSpec
<1> QED BY <1>1, DrainIsSafe, PTL

\* The same of the lease of a key and its heartbeat (gcs.go, startHeartbeat).
THEOREM WorkHonoursItsLease == ServiceSpec => LeaseHonoured
<1>1. ServiceSpec => LeaseSpec
  BY StartsOfParts, StepsOfParts, PTL DEF ServiceSpec, LeaseSpec
<1> QED BY <1>1, LeaseIsHonoured, PTL

\* Both queues merge the enqueues of a key alike (inmem.go, gcs.go).
THEOREM QueuesMergeAlike == ASSUME Revisited = {} PROVE ServiceSpec => []EnqueuesAgree
<1>1. ServiceSpec => DedupSpec
  BY StartsOfParts, StepsOfParts, PTL DEF ServiceSpec, DedupSpec
<1> QED BY <1>1, EnqueuesMerge, PTL

LEMMA BranchInvariant == ServiceSpec => []BranchIInv
BY StartsOfParts, StepsOfParts, BranchInitInv, BranchStepInv, PTL DEF ServiceSpec

LEMMA SharderInvariant == ServiceSpec => []SharderIInv
BY StartsOfParts, StepsOfParts, SharderInitInv, SharderStepInv, PTL DEF ServiceSpec

\* No key is missed: the jobs of a period enqueue each key of it once and within the
\* period (resync sharder.go), no key leaves the queue with its work undone, unless it
\* asked to come back in less than a second (dispatcher.go), nor for an outage of its
\* host, and a branch is given up after its attempts and not before (branchreconciler).
THEOREM NoKeyIsMissed == ServiceSpec => []NoKeyMissed
<1>1. SharderIInv /\ OutcomesIInv /\ OnlyShortDelaysDrop /\ BranchIInv => NoKeyMissed
  BY PeriodIsTiled, BranchIsSound DEF NoKeyMissed, OutcomesIInv
<1> QED BY <1>1, SharderInvariant, OutcomesInvariant, BranchInvariant, PTL

LEMMA StepsOfShared ==
  [ServiceNext]_serviceVars =>
    /\ [CredentialsNext]_credentialsVars /\ [LinearClientNext]_linearClientVars
    /\ [StatusesNext]_statusesVars /\ [StoresNext]_storesVars
<1>1. CASE ServiceNext
  BY <1>1 DEF ServiceNext, Runs
<1>2. CASE UNCHANGED serviceVars
  BY <1>2 DEF serviceVars
<1> QED BY <1>1, <1>2

LEMMA StartsOfShared ==
  ServiceInit => CredentialsInit /\ LinearClientInit /\ StatusesInit /\ StoresInit
BY DEF ServiceInit, CredentialsStart, LinearStart, StatusesStart, StoresStart

LEMMA CredentialsInvariant == ServiceSpec => []CredentialsIInv
BY StartsOfShared, StepsOfShared, CredentialsInitInv, CredentialsStepInv, PTL DEF ServiceSpec

LEMMA LinearClientInvariant == ServiceSpec => []LinearClientIInv
<1>1. LinearClientIInv /\ [LinearClientNext]_linearClientVars => LinearClientIInv'
  BY LinearClientStepInv
<1> QED BY <1>1, StartsOfShared, StepsOfShared, LinearClientInitInv, PTL DEF ServiceSpec

LEMMA StatusesInvariant == ServiceSpec => []StatusesIInv
BY StartsOfShared, StepsOfShared, StatusesInitInv, StatusesStepInv, PTL DEF ServiceSpec

LEMMA StoresInvariant == ServiceSpec => []StoresIInv
<1>1. StoresIInv /\ [StoresNext]_storesVars => StoresIInv'
  BY StoresStepInv
<1> QED BY <1>1, StartsOfShared, StepsOfShared, StoresInitInv, PTL DEF ServiceSpec

\* What reconciles share is kept, however their steps interleave and whichever
\* calls fail: clones (clonemanager), tokens and the clients built from them
\* (githubreconciler/clients.go, internal/anthropicauth), the state and the comments
\* of an issue and the pages of a team (linearreconciler), the statuses and
\* attestations of an object (statusmanager), and what is put, parked and claimed
\* in the stores (store/blob, agents/checkpoint).
THEOREM SharedIsKept == ServiceSpec => []SharedKept
<1>1. PoolIInv /\ CredentialsIInv /\ LinearClientIInv /\ StatusesIInv /\ StoresIInv => SharedKept
  BY KeptFromInvariant, CredentialsAreSound, LinearClientIsSound, SoundFromInvariant,
     StoresAreSound DEF SharedKept
<1> QED
  BY <1>1, PoolInvariant, CredentialsInvariant, LinearClientInvariant, StatusesInvariant,
     StoresInvariant, PTL

-----------------------------------------------------------------------------
(* The types of what reconciles share, from the invariants.                *)

LEMMA CredentialsTypes == CredentialsIInv => CredentialsTypeOK
<1> SUFFICES ASSUME CredentialsIInv PROVE CredentialsTypeOK
  OBVIOUS
<1>1. CallsTyped /\ TokenBounded /\ SourcesTyped /\ PresentedForAccess
  BY DEF CredentialsIInv, SourcesKept
<1>2. /\ token \in {None, "good", "dead"}
      /\ left \in -Margin .. maxTokenCacheTTL /\ age \in 0 .. maxTokenCacheTTL
  BY <1>1, CredentialsAssumption DEF TokenBounded, Margin
<1>3. flight.members \subseteq Requests /\ flight.leader \in Requests \cup {None}
  BY <1>1 DEF SourcesTyped
<1>4. \A r \in Requests :
        call[r].at \in {"idle", "lock", "mint", "lookup", "fetch", "build", "exchange"}
  BY <1>1 DEF CallsTyped, Places
<1>5. mu \in Requests \cup {None} /\ replayed \in BOOLEAN
  BY <1>1 DEF CallsTyped, PresentedForAccess
<1> QED
  BY <1>1, <1>2, <1>3, <1>4, <1>5 DEF CredentialsTypeOK, SourcesTyped, PresentedForAccess

LEMMA LinearClientTypes ==
  LinearClientIInv /\ subject \in {"an issue", "a team"} => LinearClientTypeOK
<1> SUFFICES ASSUME LinearClientIInv, subject \in {"an issue", "a team"}
             PROVE  LinearClientTypeOK
  OBVIOUS
<1>1. IssueTyped /\ ManagersTell /\ TeamTyped
  BY DEF LinearClientIInv, IssueIInv, TeamIInv
<1>2. ASSUME NEW m \in Managers
      PROVE  /\ manager[m].at \in {"idle", "heard", "told", "delete"}
             /\ manager[m].snapshot \subseteq StateAttachment
             /\ manager[m].read <= Len(comments) /\ manager[m].commentID <= Len(comments)
  <2>1. manager[m] \in RunStates /\ Tells(manager[m])
    BY <1>1 DEF IssueTyped, ManagersTell
  <2> QED BY <2>1 DEF RunStates, Tells
<1>3. sweep.steady \subseteq born
  BY <1>1 DEF TeamTyped, OpenItems
<1> QED
  BY <1>1, <1>2, <1>3 DEF LinearClientTypeOK, IssueTyped, TeamTyped

LEMMA StatusesTypes == StatusesIInv => StatusesTypeOK
BY DEF StatusesIInv, StatusesTyped, StoredBundles, StatusesTypeOK

LEMMA BranchTypes == BranchIInv => BranchTypeOK
BY DEF BranchIInv, BranchTyped, BranchLines, BranchTypeOK

-----------------------------------------------------------------------------

LEMMA StepsOfTyped ==
  [ServiceNext]_serviceVars =>
    /\ [ConformanceNext]_conformanceVars /\ UNCHANGED part /\ UNCHANGED subject
<1>1. CASE ServiceNext
  <2>1. [ConformanceNext]_conformanceVars /\ UNCHANGED part
    BY <1>1 DEF ServiceNext, Runs
  <2>2. UNCHANGED subject
    BY <1>1 DEF ServiceNext, Runs, LinearClientNext, linearClientVars
  <2> QED BY <2>1, <2>2
<1>2. CASE UNCHANGED serviceVars
  BY <1>2 DEF serviceVars, linearClientVars
<1> QED BY <1>1, <1>2

LEMMA StartsOfTyped ==
  ServiceInit => TestTyped /\ part \in Parts /\ subject \in {"an issue", "a team"}
<1> SUFFICES ASSUME ServiceInit PROVE TestTyped
  BY DEF ServiceInit, LinearStart, LinearClientInit
<1>1. CASE part = "conformance"
  BY <1>1, ConformanceInitInv DEF ServiceInit, ConformanceStarts
<1>2. CASE part # "conformance"
  <2>1. /\ script = <<>> /\ drained = TRUE /\ testClock = 1 /\ inHand = NobodyHeld
        /\ testQueue = [k \in TestKeys |-> NoItem] /\ testWip = {}
    BY <1>2 DEF ServiceInit, ConformanceStarts
  <2>2. NobodyHeld \in [key : TestKeys \cup {"none"}, prio : Q!Priority, attempts : Nat]
    BY GroundFacts, SMT DEF NobodyHeld
  <2> QED BY <2>1, <2>2 DEF TestTyped, ConformanceTypeOK, Q!InMemTypeOK
<1> QED BY <1>1, <1>2

\* Every part keeps its types, for every choice of the constants.
THEOREM TypesAreKept == ServiceSpec => []TypeOK
<1>1. ServiceSpec => [](TestTyped /\ part \in Parts /\ subject \in {"an issue", "a team"})
  <2>1. ASSUME TestTyped, part \in Parts, subject \in {"an issue", "a team"},
               [ServiceNext]_serviceVars
        PROVE  (TestTyped /\ part \in Parts /\ subject \in {"an issue", "a team"})'
    BY <2>1, StepsOfTyped, ConformanceStepInv
  <2> QED BY <2>1, StartsOfTyped, PTL DEF ServiceSpec
<1>2. ServiceSpec => [](OutcomesTyped /\ OutcomesIInv)
  <2>1. ServiceSpec => []OutcomesIInv
    BY OutcomesInvariant, PTL
  <2> QED BY <2>1, StartsOfParts, StepsOfParts, OutcomesInitTyped, OutcomesStepTyped, PTL
    DEF ServiceSpec
<1>3. ServiceSpec => [](DrainTypeOK /\ LeaseTypeOK /\ WellFormed)
  <2>1. ServiceSpec => DrainSpec /\ LeaseSpec /\ DedupSpec
    BY StartsOfParts, StepsOfParts, PTL DEF ServiceSpec, DrainSpec, LeaseSpec, DedupSpec
  <2> QED BY <2>1, DrainTypeCorrect, LeaseTypeCorrect, WellFormedAlways, PTL
<1>4. /\ TestTyped /\ part \in Parts /\ subject \in {"an issue", "a team"}
      /\ OutcomesTyped /\ OutcomesIInv /\ DrainTypeOK /\ LeaseTypeOK /\ WellFormed
      /\ BreakerIInv /\ SharderIInv /\ PoolIInv /\ CredentialsIInv /\ LinearClientIInv
      /\ StatusesIInv /\ BranchIInv /\ StoresIInv
      => TypeOK
  BY OutcomesTypesHold, CredentialsTypes, LinearClientTypes, StatusesTypes, BranchTypes
     DEF TypeOK, TestTyped, WellFormed, BreakerIInv, SharderIInv, PoolIInv, StoresIInv
<1> QED
  BY <1>1, <1>2, <1>3, <1>4, BreakerInvariant, SharderInvariant, PoolInvariant,
     CredentialsInvariant, LinearClientInvariant, StatusesInvariant, BranchInvariant,
     StoresInvariant, PTL

=============================================================================

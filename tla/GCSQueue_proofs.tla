-------------------------- MODULE GCSQueue_proofs ---------------------------
(***************************************************************************)
(* Proofs about GCSQueue, for any number of processes and any bounds.      *)
(***************************************************************************)
EXTENDS GCSQueue, TLAPS

-----------------------------------------------------------------------------
(* What the metadata functions return.                                     *)

LEMMA WrittenMeta == ASSUME NEW o \in Options PROVE Written(o) \in Meta
BY DEF Written, Options, Meta, Padded, PriorityText

LEMMA MergedMeta ==
  ASSUME NEW m \in Meta, NEW n \in Meta PROVE MergeMetadata(m, n) \in Meta
BY DEF MergeMetadata, MergeNotBefore, Meta

LEMMA PatchedMeta ==
  ASSUME NEW m \in Meta, NEW n \in Meta PROVE PatchMetadata(m, n) \in Meta
BY DEF PatchMetadata, Meta

LEMMA StartedIsStarted ==
  ASSUME NEW m \in Meta PROVE StartMetadata(m) \in StartedMeta
BY DEF StartMetadata, Meta, StartedMeta, NoAttempts

LEMMA StartedIsMeta == ASSUME NEW m \in StartedMeta PROVE m \in Meta
BY DEF Meta, StartedMeta

LEMMA BackoffNat == ASSUME NEW n \in Nat PROVE LinearBackoff(n) \in Nat
BY BackoffAssumption DEF LinearBackoff, Smaller

LEMMA RequeuedMeta ==
  ASSUME NEW m \in StartedMeta, NEW p \in Plans, NEW now \in Nat
  PROVE  RequeueMetadata(m, p, now) \in Meta
<1> DEFINE r == RequeueMetadata(m, p, now)
<1>1. m.attempts \in Nat /\ m.nb \in Nat /\ m.floor \in BOOLEAN
      /\ m.prio \in PriorityText
  BY DEF StartedMeta
<1>2. LinearBackoff(m.attempts) \in Nat
  BY <1>1, BackoffNat
<1>3. p.delay \in Nat /\ p.floor \in BOOLEAN
  BY DEF Plans
<1>4. Unpadded(m.prio.value) \in PriorityText
  BY <1>1 DEF PriorityText, Unpadded
<1> QED
  BY <1>1, <1>2, <1>3, <1>4 DEF RequeueMetadata, Meta

-----------------------------------------------------------------------------
(* Type correctness.                                                       *)

LEMMA ShapeInit == Init => Shape
<1> SUFFICES ASSUME Init PROVE Shape
  OBVIOUS
<1>1. PlainPlan \in Plans
  BY DEF PlainPlan, Plans
<1>2. TypeOK
  <2>1. /\ nextGen \in Nat \ {0} /\ clock \in Nat /\ beating \subseteq Procs
        /\ accepted \in Nat /\ handled \in Nat /\ failures \in Nat
        /\ faults \in Nat /\ revisits \in Nat
    BY DEF Init
  <2>2. queued \in Meta \cup {None} /\ wip \in LeaseRecord \cup {None} 
    BY DEF Init
  <2>3. dead \in BOOLEAN
    BY DEF Init
  <2>4. /\ pc \in [Procs -> Labels]
        /\ listed \in [Procs -> Meta \cup {None}]
        /\ own \in [Procs -> LeaseRecord \cup {None}]
        /\ incoming \in [Procs -> Meta \cup {None}]
        /\ twin \in [Procs -> Meta \cup {None}]
    BY DEF Init, Labels
  <2>5. seen \in [Procs -> Nat]
    BY DEF Init
  <2>6. plan \in [Procs -> Plans]
    BY <1>1 DEF Init
  <2> QED
    BY <2>1, <2>2, <2>3, <2>4, <2>5, <2>6 DEF TypeOK
<1>3. \A p \in Procs : pc[p] = "idle" /\ own[p] = None /\ p \notin beating
  BY DEF Init
<1>4. RolesOK
  BY <1>3, QueueAssumption DEF RolesOK, RoleOK, Procs
<1> QED
  BY <1>2, <1>4 DEF Shape

\* The part of Shape about one process, and about what all of them share.
SharedOK ==
  /\ queued \in Meta \cup {None}
  /\ wip \in LeaseRecord \cup {None}
  /\ nextGen \in Nat \ {0} /\ clock \in Nat
  /\ accepted \in Nat /\ handled \in Nat /\ failures \in Nat
  /\ faults \in Nat /\ revisits \in Nat

LEMMA FinishShape ==
  ASSUME Shape, NEW p \in Procs, Finish(p), UNCHANGED dead, SharedOK'
  PROVE  Shape'
<1>1. PlainPlan \in Plans
  BY DEF PlainPlan, Plans
<1>2. TypeOK'
  <2>1. /\ pc' \in [Procs -> Labels]
        /\ listed' \in [Procs -> Meta \cup {None}]
        /\ own' \in [Procs -> LeaseRecord \cup {None}]
        /\ plan' \in [Procs -> Plans]
        /\ incoming' \in [Procs -> Meta \cup {None}]
        /\ twin' \in [Procs -> Meta \cup {None}]
        /\ beating' \subseteq Procs
        /\ seen' \in [Procs -> Nat]
    BY <1>1 DEF Shape, TypeOK, Finish, Goto, Labels
  <2> QED
    BY <2>1 DEF SharedOK, Shape, TypeOK
<1>3. RolesOK'
  BY DEF Shape, TypeOK, RolesOK, RoleOK, Finish, Goto
<1> QED
  BY <1>2, <1>3 DEF Shape

LEMMA EnqueueShape ==
  ASSUME Shape, NEW e \in Enqueuers, NEW o \in EnqueueOptions, Enqueue(e, o)
  PROVE  Shape'
<1>1. e \in Procs /\ Written(o) \in Meta /\ Written(o) # None
  BY WrittenMeta, QueueAssumption, NoneAssumption DEF Procs
<1>2. TypeOK'
  BY <1>1 DEF Shape, TypeOK, Enqueue, Goto, Labels, objects, history, budgets
<1>3. RolesOK'
  BY <1>1, QueueAssumption DEF Shape, TypeOK, RolesOK, RoleOK, Enqueue, Goto, Holding, Labels, Procs
<1> QED
  BY <1>2, <1>3 DEF Shape

LEMMA EnumerateShape ==
  ASSUME Shape, NEW w \in Workers, Enumerate(w)
  PROVE  Shape'
<1>1. w \in Procs
  BY DEF Procs
<1>2. TypeOK'
  BY <1>1 DEF Shape, TypeOK, RolesOK, RoleOK, Enumerate, Goto, Labels, objects, history, budgets
<1>3. RolesOK'
  BY <1>1, QueueAssumption, NoneAssumption
     DEF Shape, TypeOK, RolesOK, RoleOK, Enumerate, Goto, Holding, Returning, Labels, Procs, objects, history, budgets
<1> QED
  BY <1>2, <1>3 DEF Shape

LEMMA UnlinkShape ==
  ASSUME Shape, NEW w \in Workers, Unlink(w)
  PROVE  Shape'
<1>1. w \in Procs
  BY DEF Procs
<1>2. TypeOK'
  BY <1>1 DEF Shape, TypeOK, RolesOK, RoleOK, Unlink, Goto, Labels
<1>3. RolesOK'
  BY <1>1, QueueAssumption, NoneAssumption
     DEF Shape, TypeOK, RolesOK, RoleOK, Unlink, Goto, Holding, Returning, Labels, Procs
<1> QED
  BY <1>2, <1>3 DEF Shape

LEMMA HeartbeatStopsShape ==
  ASSUME Shape, NEW w \in Workers, HeartbeatStops(w)
  PROVE  Shape'
<1>1. w \in Procs
  BY DEF Procs
<1>2. TypeOK'
  BY <1>1 DEF Shape, TypeOK, RolesOK, RoleOK, HeartbeatStops, Goto, Labels, objects, history, budgets
<1>3. RolesOK'
  BY <1>1, QueueAssumption, NoneAssumption
     DEF Shape, TypeOK, RolesOK, RoleOK, HeartbeatStops, Goto, Holding, Returning, Labels, Procs, objects, history, budgets
<1> QED
  BY <1>2, <1>3 DEF Shape

LEMMA SucceedShape ==
  ASSUME Shape, NEW w \in Workers, Succeed(w)
  PROVE  Shape'
<1>1. w \in Procs
  BY DEF Procs
<1>2. TypeOK'
  BY <1>1 DEF Shape, TypeOK, RolesOK, RoleOK, Succeed, Goto, Labels, objects, budgets, Discharge
<1>3. RolesOK'
  BY <1>1, QueueAssumption, NoneAssumption
     DEF Shape, TypeOK, RolesOK, RoleOK, Succeed, Goto, Holding, Returning, Labels, Procs, objects, budgets, Discharge
<1> QED
  BY <1>2, <1>3 DEF Shape

LEMMA ClearDeadLetterShape ==
  ASSUME Shape, NEW w \in Workers, ClearDeadLetter(w)
  PROVE  Shape'
<1>1. w \in Procs
  BY DEF Procs
<1>a. dead' \in BOOLEAN
  BY DEF Shape, TypeOK, ClearDeadLetter
<1>2. TypeOK'
  BY <1>1, <1>a DEF Shape, TypeOK, RolesOK, RoleOK, ClearDeadLetter, Goto, Labels, history
<1>3. RolesOK'
  BY <1>1, QueueAssumption, NoneAssumption
     DEF Shape, TypeOK, RolesOK, RoleOK, ClearDeadLetter, Goto, Holding, Returning, Labels, Procs, history
<1> QED
  BY <1>2, <1>3 DEF Shape

LEMMA QueueKeysFailsShape ==
  ASSUME Shape, NEW w \in Workers, QueueKeysFails(w)
  PROVE  Shape'
<1>1. w \in Procs
  BY DEF Procs
<1>a. PlainPlan \in Plans
  BY DEF PlainPlan, Plans
<1>2. TypeOK'
  BY <1>1, <1>a DEF Shape, TypeOK, RolesOK, RoleOK, QueueKeysFails, Goto, Labels, objects, history
<1>3. RolesOK'
  BY <1>1, <1>a, QueueAssumption, NoneAssumption
     DEF Shape, TypeOK, RolesOK, RoleOK, QueueKeysFails, Goto, Holding, Returning, Labels, Procs, objects, history
<1> QED
  BY <1>2, <1>3 DEF Shape

LEMMA AskRequeueShape ==
  ASSUME Shape, NEW w \in Workers, AskRequeue(w)
  PROVE  Shape'
<1>1. w \in Procs
  BY DEF Procs
<1>2. TypeOK'
  BY <1>1, QueueAssumption DEF Shape, TypeOK, RolesOK, RoleOK, AskRequeue, Goto, Labels, objects
<1>3. RolesOK'
  BY <1>1, QueueAssumption, QueueAssumption, NoneAssumption
     DEF Shape, TypeOK, RolesOK, RoleOK, AskRequeue, Goto, Holding, Returning, Labels, Procs, objects
<1> QED
  BY <1>2, <1>3 DEF Shape

LEMMA FailShape ==
  ASSUME Shape, NEW w \in Workers, Fail(w)
  PROVE  Shape'
<1>1. w \in Procs
  BY DEF Procs
<1>a. \A d \in BackoffDelays : BackoffPlan(d) \in Plans
  BY QueueAssumption DEF BackoffPlan, Plans
<1>2. TypeOK'
  BY <1>1, <1>a DEF Shape, TypeOK, RolesOK, RoleOK, Fail, Goto, Labels, objects, budgets
<1>3. RolesOK'
  BY <1>1, <1>a, QueueAssumption, NoneAssumption
     DEF Shape, TypeOK, RolesOK, RoleOK, Fail, Goto, Holding, Returning, Labels, Procs, objects, budgets
<1> QED
  BY <1>2, <1>3 DEF Shape

LEMMA AskQueueKeysShape ==
  ASSUME Shape, NEW w \in Workers, AskQueueKeys(w)
  PROVE  Shape'
<1>1. w \in Procs
  BY DEF Procs
<1>a. ASSUME NEW d \in RevisitDelays
      PROVE  LET o == [prio |-> own[w].meta.prio.value,
                       nb |-> IF d > 0 THEN clock + d ELSE 0, floor |-> FALSE]
             IN  Written(o) \in Meta /\ Written(o) # None
  <2> DEFINE o == [prio |-> own[w].meta.prio.value,
                   nb |-> IF d > 0 THEN clock + d ELSE 0, floor |-> FALSE]
  <2>1. own[w] \in LeaseRecord
    BY <1>1, QueueAssumption DEF AskQueueKeys, Shape, TypeOK, RolesOK, RoleOK, Procs
  <2>2. own[w].meta.prio.value \in Priority
    BY <2>1 DEF LeaseRecord, StartedMeta, PriorityText
  <2>3. o \in Options
    BY <2>2, QueueAssumption DEF Options, Shape, TypeOK
  <2> QED
    BY <2>3, WrittenMeta, NoneAssumption
<1>2. TypeOK'
  BY <1>1, <1>a DEF Shape, TypeOK, RolesOK, RoleOK, AskQueueKeys, Goto, Labels, objects
<1>3. RolesOK'
  BY <1>1, <1>a, QueueAssumption, NoneAssumption
     DEF Shape, TypeOK, RolesOK, RoleOK, AskQueueKeys, Goto, Holding, Returning, Labels, Procs, objects
<1> QED
  BY <1>2, <1>3 DEF Shape

LEMMA ObserveShape ==
  ASSUME Shape, NEW o \in Observers, Observe(o)
  PROVE  Shape'
<1>1. o \in Procs
  BY DEF Procs
<1>2. TypeOK'
  BY <1>1 DEF Shape, TypeOK, RolesOK, RoleOK, Observe, Goto, Labels, objects, history, budgets
<1>3. RolesOK'
  BY <1>1, QueueAssumption, NoneAssumption
     DEF Shape, TypeOK, RolesOK, RoleOK, Observe, Goto, Holding, Returning, Labels, Procs, objects, history, budgets
<1> QED
  BY <1>2, <1>3 DEF Shape

LEMMA TickShape == ASSUME Shape, Tick PROVE Shape'
<1>1. TypeOK'
  BY DEF Shape, TypeOK, Tick, objects, locals, history, budgets
<1>2. RolesOK'
  BY DEF Shape, TypeOK, RolesOK, RoleOK, Tick, objects, locals, history, budgets
<1> QED
  BY <1>1, <1>2 DEF Shape

LEMMA StutterShape == ASSUME Shape, UNCHANGED vars PROVE Shape'
<1>1. TypeOK'
  BY DEF Shape, TypeOK, vars, objects, locals, history, budgets
<1>2. RolesOK'
  BY DEF Shape, TypeOK, RolesOK, RoleOK, vars, objects, locals, history, budgets
<1> QED
  BY <1>1, <1>2 DEF Shape

LEMMA QueueReturnsShape ==
  ASSUME Shape, NEW p \in Enqueuers \cup Workers, QueueReturns(p),
         pc[p] \in {"write", "read", "patch"},
         queued' \in Meta \cup {None}, UNCHANGED <<wip, dead, nextGen, clock>>
  PROVE  Shape'
<1>1. p \in Procs
  BY DEF Procs
<1>2. CASE p \in Workers
  <2>1. TypeOK'
    BY <1>1, <1>2 DEF Shape, TypeOK, QueueReturns, Discharge, Goto, Labels, budgets
  <2>2. RolesOK'
    BY <1>1, <1>2, QueueAssumption
       DEF Shape, TypeOK, RolesOK, RoleOK, QueueReturns, Goto, Holding, Labels, Procs
  <2> QED
    BY <2>1, <2>2 DEF Shape
<1>3. CASE p \notin Workers
  <2>1. SharedOK'
    BY <1>3 DEF Shape, TypeOK, SharedOK, QueueReturns, budgets
  <2>2. Finish(p)
    BY <1>3 DEF QueueReturns
  <2> QED
    BY <1>1, <2>1, <2>2, FinishShape
<1> QED
  BY <1>2, <1>3

LEMMA QueueWriteShape ==
  ASSUME Shape, NEW p \in Enqueuers \cup Workers, QueueWrite(p)
  PROVE  Shape'
<1>1. p \in Procs
  BY DEF Procs
<1>2. CASE queued = None
  BY <1>1, <1>2, QueueReturnsShape DEF QueueWrite, Shape, TypeOK
<1>3. CASE queued # None
  <2>1. TypeOK'
    BY <1>1, <1>3 DEF Shape, TypeOK, QueueWrite, Goto, Labels, history, budgets
  <2>2. RolesOK'
    BY <1>1, <1>3, QueueAssumption
       DEF Shape, TypeOK, RolesOK, RoleOK, QueueWrite, Goto, Holding, Labels, Procs
  <2> QED
    BY <2>1, <2>2 DEF Shape
<1> QED
  BY <1>2, <1>3

LEMMA QueueReadShape ==
  ASSUME Shape, NEW p \in Enqueuers \cup Workers, QueueRead(p)
  PROVE  Shape'
<1>1. p \in Procs
  BY DEF Procs
<1>2. CASE queued # None /\ MergeMetadata(queued, incoming[p]) = queued
  BY <1>1, <1>2, QueueReturnsShape DEF QueueRead, Shape, TypeOK, objects
<1>3. CASE ~(queued # None /\ MergeMetadata(queued, incoming[p]) = queued)
  <2>1. TypeOK'
    BY <1>1, <1>3 DEF Shape, TypeOK, QueueRead, Goto, Labels, objects, history, budgets
  <2>2. RolesOK'
    BY <1>1, <1>3, QueueAssumption
       DEF Shape, TypeOK, RolesOK, RoleOK, QueueRead, Goto, Holding, Labels, Procs
  <2> QED
    BY <2>1, <2>2 DEF Shape
<1> QED
  BY <1>2, <1>3

LEMMA QueuePatchShape ==
  ASSUME Shape, NEW p \in Enqueuers \cup Workers, QueuePatch(p)
  PROVE  Shape'
<1>1. p \in Procs
  BY DEF Procs
<1>2. CASE queued # None
  <2>1. /\ queued \in Meta /\ twin[p] \in Meta /\ incoming[p] \in Meta
    BY <1>1, <1>2 DEF QueuePatch, Shape, TypeOK, RolesOK, RoleOK
  <2>2. queued' \in Meta
    BY <1>2, <2>1, MergedMeta, PatchedMeta DEF QueuePatch
  <2> QED
    BY <1>1, <1>2, <2>2, QueueReturnsShape DEF QueuePatch
<1>3. CASE queued = None
  <2>1. TypeOK'
    BY <1>1, <1>3 DEF Shape, TypeOK, QueuePatch, Goto, Labels, history, budgets
  <2>2. RolesOK'
    BY <1>1, <1>3, QueueAssumption
       DEF Shape, TypeOK, RolesOK, RoleOK, QueuePatch, Goto, Holding, Labels, Procs
  <2> QED
    BY <2>1, <2>2 DEF Shape
<1> QED
  BY <1>2, <1>3

LEMMA StartedLease ==
  ASSUME Shape, NEW w \in Workers, Start(w), wip = None, queued # None
  PROVE  /\ wip' \in LeaseRecord /\ wip' # None
         /\ wip'.gen = nextGen /\ wip'.mgen = 1 /\ wip'.exp = clock + Lease
         /\ nextGen' = nextGen + 1 /\ own' = [own EXCEPT ![w] = wip']
<1>1. w \in Procs /\ Lease \in Nat
  BY QueueAssumption DEF Procs
<1>2. listed[w] \in Meta
  BY <1>1 DEF Start, Shape, TypeOK, RolesOK, RoleOK
<1> QED
  BY <1>1, <1>2, StartedIsStarted, NoneAssumption
     DEF Start, LeaseRecord, Shape, TypeOK

LEMMA StartShape == ASSUME Shape, NEW w \in Workers, Start(w) PROVE Shape'
<1>1. w \in Procs
  BY DEF Procs
<1>2. CASE wip = None /\ queued # None
  <2>1. wip' \in LeaseRecord /\ wip' # None
    BY <1>2, StartedLease
  <2>2. TypeOK'
    BY <1>1, <1>2, <2>1 DEF Shape, TypeOK, Start, Goto, Labels, budgets
  <2>3. RolesOK'
    BY <1>1, <1>2, <2>1, QueueAssumption
       DEF Shape, TypeOK, RolesOK, RoleOK, Start, Goto, Holding, Returning, Labels, Procs
  <2> QED
    BY <2>2, <2>3 DEF Shape
<1>3. CASE wip # None \/ queued = None
  <2>1. SharedOK'
    BY <1>3 DEF Shape, TypeOK, SharedOK, Start, budgets
  <2> QED
    BY <1>1, <1>3, <2>1, FinishShape DEF Start
<1> QED
  BY <1>2, <1>3

LEMMA RefreshShape == ASSUME Shape, NEW w \in Workers, Refresh(w) PROVE Shape'
<1>1. w \in Procs /\ Lease \in Nat
  BY QueueAssumption DEF Procs
<1>2. wip \in LeaseRecord
  BY DEF Refresh, Pinned, Shape, TypeOK
<1>3. wip' \in LeaseRecord /\ wip' # None
  BY <1>1, <1>2, NoneAssumption DEF Refresh, LeaseRecord, Shape, TypeOK
<1>4. TypeOK'
  BY <1>1, <1>3 DEF Shape, TypeOK, Refresh, history
<1>5. RolesOK'
  BY <1>1, <1>3, QueueAssumption
     DEF Shape, TypeOK, RolesOK, RoleOK, Refresh, Holding, Labels, Procs
<1> QED
  BY <1>4, <1>5 DEF Shape

LEMMA BuryShape == ASSUME Shape, NEW w \in Workers, Bury(w) PROVE Shape'
<1>1. w \in Procs
  BY DEF Procs
<1>2. CASE Pinned(w)
  <2>1. dead' \in BOOLEAN
    BY <1>2 DEF Bury
  <2>2. TypeOK'
    BY <1>1, <1>2, <2>1 DEF Shape, TypeOK, Bury, Discharge, Goto, Labels, budgets
  <2>3. RolesOK'
    BY <1>1, <1>2, QueueAssumption
       DEF Shape, TypeOK, RolesOK, RoleOK, Bury, Goto, Holding, Returning, Labels, Procs
  <2> QED
    BY <2>2, <2>3 DEF Shape
<1>3. CASE ~Pinned(w)
  <2>1. SharedOK'
    BY <1>3 DEF Shape, TypeOK, SharedOK, Bury, budgets
  <2> QED
    BY <1>1, <1>3, <2>1, FinishShape DEF Bury
<1> QED
  BY <1>2, <1>3

LEMMA DeleteLeaseShape ==
  ASSUME Shape, NEW p \in Procs, DeleteLease(p) PROVE Shape'
<1>1. SharedOK'
  BY DEF Shape, TypeOK, SharedOK, DeleteLease, budgets
<1> QED
  BY <1>1, FinishShape DEF DeleteLease

LEMMA AbandonShape == ASSUME Shape, NEW p \in Procs, Abandon(p) PROVE Shape'
<1>1. SharedOK'
  BY DEF Shape, TypeOK, SharedOK, Abandon, objects
<1> QED
  BY <1>1, FinishShape DEF Abandon, objects

LEMMA RecheckShape ==
  ASSUME Shape, NEW o \in Observers, Recheck(o) PROVE Shape'
<1>1. o \in Procs
  BY DEF Procs
<1>2. CASE DeletePinned(o)
  <2>1. TypeOK'
    BY <1>1, <1>2 DEF Shape, TypeOK, Recheck, Goto, Labels, objects, budgets
  <2>2. RolesOK'
    BY <1>1, <1>2, QueueAssumption
       DEF Shape, TypeOK, RolesOK, RoleOK, Recheck, Goto, Holding, Returning, Labels, Procs
  <2> QED
    BY <2>1, <2>2 DEF Shape
<1>3. CASE ~DeletePinned(o)
  <2>1. SharedOK'
    BY <1>3 DEF Shape, TypeOK, SharedOK, Recheck, objects, budgets
  <2> QED
    BY <1>1, <1>3, <2>1, FinishShape DEF Recheck, objects
<1> QED
  BY <1>2, <1>3

LEMMA CopyBackShape ==
  ASSUME Shape, NEW p \in Workers \cup Observers, CopyBack(p) PROVE Shape'
<1> DEFINE returned == RequeueMetadata(own[p].meta, plan[p], clock)
<1>1. p \in Procs /\ p \notin Enqueuers
  BY QueueAssumption DEF Procs
<1>2. returned \in Meta /\ returned # None
  <2>1. own[p] \in LeaseRecord
    BY <1>1 DEF CopyBack, Shape, TypeOK, RolesOK, RoleOK
  <2> QED
    BY <1>1, <2>1, RequeuedMeta, NoneAssumption
       DEF LeaseRecord, Shape, TypeOK
<1> HIDE DEF returned
<1>3. CASE Pinned(p) /\ queued = None /\ queued' = returned /\ Goto(p, "delete")
           /\ UNCHANGED <<listed, own, plan, incoming, twin, beating, seen>>
  <2>1. TypeOK'
    BY <1>1, <1>2, <1>3 DEF Shape, TypeOK, CopyBack, Goto, Labels, budgets
  <2>2. RolesOK'
    BY <1>1, <1>3, QueueAssumption
       DEF Shape, TypeOK, RolesOK, RoleOK, CopyBack, Goto, Holding, Returning, Labels, Procs
  <2> QED
    BY <2>1, <2>2 DEF Shape
<1>4. CASE queued # None /\ incoming' = [incoming EXCEPT ![p] = returned]
           /\ Goto(p, "twinRead")
           /\ UNCHANGED <<queued, listed, own, plan, twin, beating, seen>>
  <2>1. TypeOK'
    BY <1>1, <1>2, <1>4 DEF Shape, TypeOK, CopyBack, Goto, Labels, budgets
  <2>2. RolesOK'
    BY <1>1, <1>2, <1>4, QueueAssumption
       DEF Shape, TypeOK, RolesOK, RoleOK, CopyBack, Goto, Holding, Returning, Labels, Procs
  <2> QED
    BY <2>1, <2>2 DEF Shape
<1>5. CASE Finish(p) /\ UNCHANGED queued
  <2>1. SharedOK'
    BY <1>5 DEF Shape, TypeOK, SharedOK, CopyBack, budgets
  <2> QED
    BY <1>1, <1>5, <2>1, FinishShape DEF CopyBack
<1> QED
  BY <1>3, <1>4, <1>5 DEF CopyBack, returned

LEMMA TwinReadShape ==
  ASSUME Shape, NEW p \in Workers \cup Observers, TwinRead(p) PROVE Shape'
<1>1. p \in Procs /\ p \notin Enqueuers
  BY QueueAssumption DEF Procs
<1>2. TypeOK'
  BY <1>1 DEF Shape, TypeOK, TwinRead, Goto, Labels, objects, history, budgets
<1>3. RolesOK'
  BY <1>1, QueueAssumption
     DEF Shape, TypeOK, RolesOK, RoleOK, TwinRead, Goto, Holding, Returning, Labels, Procs
<1> QED
  BY <1>2, <1>3 DEF Shape

LEMMA TwinPatchShape ==
  ASSUME Shape, NEW p \in Workers \cup Observers, TwinPatch(p) PROVE Shape'
<1>1. p \in Procs /\ p \notin Enqueuers
  BY QueueAssumption DEF Procs
<1>2. queued' \in Meta \cup {None}
  <2>1. twin[p] \in Meta /\ incoming[p] \in Meta
    BY <1>1 DEF TwinPatch, Shape, TypeOK, RolesOK, RoleOK
  <2> QED
    BY <2>1, MergedMeta, PatchedMeta DEF TwinPatch, Shape, TypeOK
<1>3. TypeOK'
  BY <1>1, <1>2 DEF Shape, TypeOK, TwinPatch, Goto, Labels, history, budgets
<1>4. RolesOK'
  BY <1>1, QueueAssumption
     DEF Shape, TypeOK, RolesOK, RoleOK, TwinPatch, Goto, Holding, Returning, Labels, Procs
<1> QED
  BY <1>3, <1>4 DEF Shape

LEMMA ShapeStep == Shape /\ [Next]_vars => Shape'
<1> SUFFICES ASSUME Shape, [Next]_vars PROVE Shape'
  OBVIOUS
<1>1. ASSUME NEW e \in Enqueuers, EnqueuerNext(e) PROVE Shape'
  BY <1>1, EnqueueShape DEF EnqueuerNext
<1>2. ASSUME NEW p \in Enqueuers \cup Workers, QueueNext(p) PROVE Shape'
  BY <1>2, QueueWriteShape, QueueReadShape, QueuePatchShape DEF QueueNext
<1>3. ASSUME NEW w \in Workers, WorkerNext(w) PROVE Shape'
  BY <1>3, EnumerateShape, StartShape, UnlinkShape, SucceedShape, FailShape,
     AskRequeueShape, AskQueueKeysShape, ClearDeadLetterShape, BuryShape
     DEF WorkerNext, CallbackReturns
<1>4. ASSUME NEW w \in Workers, HeartbeatNext(w) PROVE Shape'
  BY <1>4, RefreshShape, HeartbeatStopsShape, QueueKeysFailsShape
     DEF HeartbeatNext
<1>5. ASSUME NEW o \in Observers, ObserverNext(o) PROVE Shape'
  BY <1>5, ObserveShape, RecheckShape DEF ObserverNext
<1>6. ASSUME NEW p \in Workers \cup Observers, CleanupNext(p) PROVE Shape'
  <2>1. p \in Procs
    BY DEF Procs
  <2> QED
    BY <1>6, <2>1, CopyBackShape, TwinReadShape, TwinPatchShape, DeleteLeaseShape
       DEF CleanupNext
<1>7. ASSUME NEW p \in Procs, Abandon(p) PROVE Shape'
  BY <1>7, AbandonShape
<1> QED
  BY <1>1, <1>2, <1>3, <1>4, <1>5, <1>6, <1>7, TickShape, StutterShape DEF Next

\* The state of the bucket and of every process keeps its type.
THEOREM TypeCorrect == Spec => []TypeOK
<1>1. Shape => TypeOK
  BY DEF Shape
<1> QED
  BY <1>1, ShapeInit, ShapeStep, PTL DEF Spec

-----------------------------------------------------------------------------
(* Leases: Start, Refresh, DeleteLease, Observe and Tick change them, every*)
(* other step at most lets a process forget its own.                       *)

\* What the steps that leave the in-progress object alone do to the leases.
LeasesKept ==
  /\ UNCHANGED <<wip, nextGen, clock>>
  /\ \A p \in Procs : own'[p] \in {own[p], None}
  /\ \A w \in Workers :
       pc'[w] = "unlink" => pc[w] = "unlink" /\ own'[w] = own[w]

LEMMA LeasesFrame == ASSUME Shape, Leases, LeasesKept PROVE Leases'
BY DEF Shape, TypeOK, Leases, LeasesKept, GenerationsFresh, LeasesBounded,
       ObservedLapsed, HoldersPinned, StartInWindow, Pinned, Procs

LEMMA StartLeases ==
  ASSUME Shape, Leases, NEW w \in Workers, Start(w), wip = None, queued # None
  PROVE  Leases'
<1>1. w \in Procs /\ Lease \in Nat /\ StartWindow \in Nat
  BY QueueAssumption DEF Procs
<1>2. /\ wip' \in LeaseRecord /\ wip' # None /\ wip'.gen = nextGen
      /\ wip'.exp = clock + Lease /\ nextGen' = nextGen + 1
      /\ own' = [own EXCEPT ![w] = wip']
  BY StartedLease
<1>3. pc' = [pc EXCEPT ![w] = "unlink"] /\ clock' = clock
  BY DEF Start, Goto
<1>4. \A p \in Procs : own[p] # None => own[p].gen \in Nat /\ own[p].exp \in Nat
  BY DEF Shape, TypeOK, LeaseRecord
<1>5. /\ clock \in Nat /\ nextGen \in Nat
      /\ own'[w] = wip' /\ \A p \in Procs \ {w} : own'[p] = own[p]
  BY <1>1, <1>2 DEF Shape, TypeOK
<1>6. GenerationsFresh'
  BY <1>1, <1>2, <1>4, <1>5 DEF Leases, GenerationsFresh, Procs
<1>7. LeasesBounded'
  BY <1>1, <1>2, <1>3, <1>5 DEF Leases, LeasesBounded, Procs
<1>8. ObservedLapsed'
  <2> SUFFICES ASSUME NEW o \in Observers, own'[o] # None
               PROVE  own'[o].exp < clock' /\ ~Pinned(o)'
    BY DEF ObservedLapsed
  <2>1. o \in Procs \ {w} /\ own'[o] = own[o]
    BY <1>5, QueueAssumption DEF Procs
  <2> QED
    BY <1>2, <1>3, <1>4, <1>5, <2>1
       DEF Leases, ObservedLapsed, GenerationsFresh, Pinned
<1>9. HoldersPinned'
  BY <1>1, <1>2, <1>3, <1>4, <1>5 DEF Leases, HoldersPinned, Pinned, Procs
<1>10. StartInWindow'
  BY <1>1, <1>2, <1>3, <1>5 DEF Leases, StartInWindow, Shape, TypeOK, Procs
<1> QED
  BY <1>6, <1>7, <1>8, <1>9, <1>10 DEF Leases

LEMMA RefreshLeases ==
  ASSUME Shape, Leases, NEW w \in Workers, Refresh(w) PROVE Leases'
<1>1. w \in Procs /\ Lease \in Nat /\ StartWindow \in Nat
  BY QueueAssumption DEF Procs
<1>2. wip \in LeaseRecord /\ wip # None /\ wip.gen = own[w].gen /\ own[w] # None
      /\ pc[w] # "unlink" /\ clock \in Nat
  <2>1. wip # None /\ wip.gen = own[w].gen /\ w \in beating
    BY DEF Refresh, Pinned
  <2>2. own[w] # None /\ pc[w] # "unlink"
    BY <1>1, <2>1, QueueAssumption DEF Shape, RolesOK, RoleOK, Holding
  <2> QED
    BY <2>1, <2>2 DEF Shape, TypeOK
<1>3. /\ wip' # None /\ wip'.gen = wip.gen /\ wip'.mgen = wip.mgen + 1
      /\ wip'.exp = clock + Lease /\ wip.exp <= wip'.exp
  <2>1. Shape'
    BY RefreshShape
  <2>2. wip' # None
    BY <1>1, <1>2, NoneAssumption DEF Refresh, LeaseRecord
  <2> QED
    BY <1>1, <1>2, <2>2 DEF Refresh, Leases, LeasesBounded
<1>4. /\ clock' = clock /\ nextGen' = nextGen /\ pc' = pc
      /\ own'[w] \in {own[w], wip'} /\ \A p \in Procs \ {w} : own'[p] = own[p]
  BY <1>1 DEF Refresh, Shape, TypeOK
<1>5. \A p \in Procs : own[p] # None =>
        own[p].gen \in Nat /\ own[p].exp \in Nat /\ own[p].mgen \in Nat
  BY DEF Shape, TypeOK, LeaseRecord
<1>6. GenerationsFresh'
  BY <1>1, <1>2, <1>3, <1>4, <1>5 DEF Leases, GenerationsFresh, Procs
<1>7. LeasesBounded'
  BY <1>1, <1>2, <1>3, <1>4, <1>5 DEF Leases, LeasesBounded, Procs
<1>8. ObservedLapsed'
  <2>1. \A o \in Observers : own'[o] # None =>
          own'[o].mgen \in Nat /\ wip'.mgen \in Nat
    BY <1>3, RefreshShape DEF Shape, TypeOK, Procs, LeaseRecord
  <2> SUFFICES ASSUME NEW o \in Observers, own'[o] # None
               PROVE  /\ own'[o].exp < clock'
                      /\ Pinned(o)' => own'[o].mgen < wip'.mgen
    BY <2>1 DEF ObservedLapsed
  <2>2. o \in Procs \ {w} /\ own'[o] = own[o]
    BY <1>4, QueueAssumption DEF Procs
  <2>3. wip.mgen \in Nat
    BY <1>2 DEF LeaseRecord
  <2> QED
    BY <1>2, <1>3, <1>4, <1>5, <2>2, <2>3 DEF Leases, ObservedLapsed, Pinned
<1>9. HoldersPinned'
  <2>1. wip.exp \in Nat /\ wip'.exp \in Nat
    BY <1>1, <1>2, <1>3 DEF LeaseRecord
  <2>2. own[w].exp <= wip'.exp
    BY <1>1, <1>2, <1>3, <1>5 DEF Leases, LeasesBounded
  <2> QED
    BY <1>1, <1>2, <1>3, <1>4, <1>5, <2>1, <2>2 DEF Leases, HoldersPinned, Pinned, Procs
<1>10. StartInWindow'
  BY <1>1, <1>2, <1>4 DEF Leases, StartInWindow, Procs
<1> QED
  BY <1>6, <1>7, <1>8, <1>9, <1>10 DEF Leases

LEMMA DeleteLeaseLeases ==
  ASSUME Shape, Leases, NEW p \in Workers \cup Observers, DeleteLease(p)
  PROVE  Leases'
<1>1. p \in Procs
  BY DEF Procs
<1>2. /\ nextGen' = nextGen /\ clock' = clock
      /\ own' = [own EXCEPT ![p] = None] /\ pc' = [pc EXCEPT ![p] = "idle"]
      /\ wip' = IF DeletePinned(p) THEN None ELSE wip
  BY DEF DeleteLease, Finish, Goto
<1>3. own'[p] = None /\ \A q \in Procs \ {p} : own'[q] = own[q]
  BY <1>1, <1>2 DEF Shape, TypeOK
<1>4. own[p] # None
  BY <1>1, QueueAssumption DEF DeleteLease, Shape, RolesOK, RoleOK
<1>5. GenerationsFresh'
  BY <1>2, <1>3 DEF Leases, GenerationsFresh, Procs
<1>6. LeasesBounded'
  BY <1>2, <1>3 DEF Leases, LeasesBounded, Procs
<1>7. ObservedLapsed'
  BY <1>2, <1>3 DEF Leases, ObservedLapsed, Pinned, Procs
<1>8. HoldersPinned'
  <2> SUFFICES ASSUME NEW w \in Workers, own'[w] # None, own'[w].exp >= clock'
               PROVE  Pinned(w)' /\ own'[w].exp <= wip'.exp
    BY DEF HoldersPinned
  <2>1. /\ w \in Procs \ {p} /\ own'[w] = own[w]
        /\ Pinned(w) /\ own[w].exp <= wip.exp
    BY <1>2, <1>3 DEF Leases, HoldersPinned, Procs
  <2>2. ~DeletePinned(p)
    <3>1. CASE p \in Workers
      BY <1>3, <1>4, <2>1, <3>1
         DEF Leases, GenerationsFresh, DeletePinned, Pinned
    <3>2. CASE p \in Observers
      <4>1. own[p] \in LeaseRecord /\ own[w] \in LeaseRecord /\ wip \in LeaseRecord
        BY <1>1, <1>3, <1>4, <2>1 DEF Shape, TypeOK, Pinned
      <4>2. own[p].exp < clock /\ own[w].exp >= clock /\ clock \in Nat
        BY <1>2, <1>4, <2>1, <3>2 DEF Leases, ObservedLapsed, Shape, TypeOK
      <4> QED
        BY <1>4, <2>1, <3>2, <4>1, <4>2
           DEF Leases, ObservedLapsed, DeletePinned, LeaseRecord
    <3> QED
      BY <3>1, <3>2
  <2> QED
    BY <1>2, <2>1, <2>2 DEF Pinned
<1>9. StartInWindow'
  BY <1>1, <1>2, <1>3 DEF Leases, StartInWindow, Shape, TypeOK, Procs
<1> QED
  BY <1>5, <1>6, <1>7, <1>8, <1>9 DEF Leases

LEMMA ObserveLeases ==
  ASSUME Shape, Leases, NEW o \in Observers, Observe(o) PROVE Leases'
<1>1. o \in Procs \ Workers
  BY QueueAssumption DEF Procs
<1>2. wip # None /\ wip.exp < clock /\ own' = [own EXCEPT ![o] = wip]
      /\ pc' = [pc EXCEPT ![o] = "recheck"]
      /\ UNCHANGED <<wip, nextGen, clock>>
  BY DEF Observe, IsOrphaned, Goto, objects
<1>3. own'[o] = wip /\ \A q \in Procs \ {o} : own'[q] = own[q]
  BY <1>1, <1>2 DEF Shape, TypeOK
<1>4. wip.mgen \in Nat
  BY <1>2 DEF Shape, TypeOK, LeaseRecord
<1>5. GenerationsFresh'
  BY <1>1, <1>2, <1>3 DEF Leases, GenerationsFresh, Procs
<1>6. LeasesBounded'
  BY <1>1, <1>2, <1>3 DEF Leases, LeasesBounded, Procs
<1>7. ObservedLapsed'
  BY <1>1, <1>2, <1>3, <1>4 DEF Leases, ObservedLapsed, Pinned, Procs
<1>8. HoldersPinned'
  BY <1>1, <1>2, <1>3 DEF Leases, HoldersPinned, Pinned, Procs
<1>9. StartInWindow'
  BY <1>1, <1>2, <1>3 DEF Leases, StartInWindow, Shape, TypeOK, Procs
<1> QED
  BY <1>5, <1>6, <1>7, <1>8, <1>9 DEF Leases

LEMMA TickLeases == ASSUME Shape, Leases, Tick PROVE Leases'
<1>1. /\ clock' = clock + 1 /\ clock \in Nat
      /\ UNCHANGED <<wip, nextGen, own, pc>>
  BY DEF Tick, Shape, TypeOK, objects, locals
<1>2. Lease \in Nat /\ StartWindow \in Nat
  BY QueueAssumption
<1>3. /\ wip # None => wip.exp \in Nat
      /\ \A p \in Procs : own[p] # None => own[p].exp \in Nat
  BY DEF Shape, TypeOK, LeaseRecord
<1>4. GenerationsFresh'
  BY <1>1 DEF Leases, GenerationsFresh
<1>5. LeasesBounded'
  BY <1>1, <1>2, <1>3 DEF Leases, LeasesBounded
<1>6. ObservedLapsed'
  BY <1>1, <1>3 DEF Leases, ObservedLapsed, Pinned, Procs
<1>7. HoldersPinned'
  BY <1>1, <1>3 DEF Leases, HoldersPinned, Pinned, Procs
<1>8. StartInWindow'
  BY <1>1 DEF Tick, StartInWindow
<1> QED
  BY <1>4, <1>5, <1>6, <1>7, <1>8 DEF Leases

LEMMA FinishLeases ==
  ASSUME Shape, NEW p \in Procs, Finish(p), UNCHANGED <<wip, nextGen, clock>>
  PROVE  LeasesKept
BY DEF Shape, TypeOK, Finish, Goto, LeasesKept, Procs

LEMMA QueueLeases ==
  ASSUME Shape, Leases, NEW p \in Enqueuers \cup Workers, QueueNext(p)
  PROVE  Leases'
<1>1. p \in Procs
  BY DEF Procs
<1>2. ASSUME QueueReturns(p), UNCHANGED <<wip, nextGen, clock>>
      PROVE  LeasesKept
  BY <1>1, <1>2, FinishLeases
     DEF QueueReturns, Goto, LeasesKept, Shape, TypeOK, Procs
<1>3. QueueWrite(p) => LeasesKept
  BY <1>1, <1>2 DEF QueueWrite, Goto, LeasesKept, Shape, TypeOK, Procs
<1>4. QueueRead(p) => LeasesKept
  BY <1>1, <1>2 DEF QueueRead, Goto, LeasesKept, Shape, TypeOK, Procs, objects
<1>5. QueuePatch(p) => LeasesKept
  BY <1>1, <1>2 DEF QueuePatch, Goto, LeasesKept, Shape, TypeOK, Procs
<1> QED
  BY <1>3, <1>4, <1>5, LeasesFrame DEF QueueNext

LEMMA WorkerLeases ==
  ASSUME Shape, Leases, NEW w \in Workers, WorkerNext(w) PROVE Leases'
<1>1. w \in Procs
  BY DEF Procs
<1>2. Enumerate(w) => LeasesKept
  BY <1>1 DEF Enumerate, Goto, LeasesKept, Shape, TypeOK, Procs, objects
<1>3. Start(w) /\ ~(wip = None /\ queued # None) => LeasesKept
  BY <1>1, FinishLeases DEF Start
<1>4. Unlink(w) => LeasesKept
  BY <1>1 DEF Unlink, Goto, LeasesKept, Shape, TypeOK, Procs
<1>5. CallbackReturns(w) => LeasesKept
  <2>1. Succeed(w) => LeasesKept
    BY <1>1 DEF Succeed, Goto, LeasesKept, Shape, TypeOK, Procs, objects
  <2>2. Fail(w) => LeasesKept
    BY <1>1 DEF Fail, Goto, LeasesKept, Shape, TypeOK, Procs, objects
  <2>3. AskRequeue(w) => LeasesKept
    BY <1>1 DEF AskRequeue, Goto, LeasesKept, Shape, TypeOK, Procs, objects
  <2>4. AskQueueKeys(w) => LeasesKept
    BY <1>1 DEF AskQueueKeys, Goto, LeasesKept, Shape, TypeOK, Procs, objects
  <2> QED
    BY <2>1, <2>2, <2>3, <2>4 DEF CallbackReturns
<1>6. ClearDeadLetter(w) => LeasesKept
  BY <1>1 DEF ClearDeadLetter, Goto, LeasesKept, Shape, TypeOK, Procs
<1>7. Bury(w) => LeasesKept
  BY <1>1, FinishLeases DEF Bury, Goto, LeasesKept, Shape, TypeOK, Procs
<1> QED
  BY <1>2, <1>3, <1>4, <1>5, <1>6, <1>7, StartLeases, LeasesFrame DEF WorkerNext

LEMMA HeartbeatLeases ==
  ASSUME Shape, Leases, NEW w \in Workers, HeartbeatNext(w) PROVE Leases'
<1>1. w \in Procs
  BY DEF Procs
<1>2. HeartbeatStops(w) => LeasesKept
  BY DEF HeartbeatStops, LeasesKept, Procs, objects
<1>3. QueueKeysFails(w) => LeasesKept
  BY <1>1 DEF QueueKeysFails, Goto, LeasesKept, Shape, TypeOK, Procs, objects
<1> QED
  BY <1>2, <1>3, RefreshLeases, LeasesFrame DEF HeartbeatNext

LEMMA CleanupLeases ==
  ASSUME Shape, Leases, NEW p \in Workers \cup Observers, CleanupNext(p)
  PROVE  Leases'
<1>1. p \in Procs
  BY DEF Procs
<1>2. CopyBack(p) => LeasesKept
  BY <1>1, FinishLeases DEF CopyBack, Goto, LeasesKept, Shape, TypeOK, Procs
<1>3. TwinRead(p) => LeasesKept
  BY <1>1 DEF TwinRead, Goto, LeasesKept, Shape, TypeOK, Procs, objects
<1>4. TwinPatch(p) => LeasesKept
  BY <1>1 DEF TwinPatch, Goto, LeasesKept, Shape, TypeOK, Procs
<1> QED
  BY <1>2, <1>3, <1>4, DeleteLeaseLeases, LeasesFrame DEF CleanupNext

LEMMA LeasesInit == Init => Leases
BY DEF Init, Leases, GenerationsFresh, LeasesBounded, ObservedLapsed,
       HoldersPinned, StartInWindow, Procs

LEMMA LeasesStep == Shape /\ Leases /\ [Next]_vars => Leases'
<1> SUFFICES ASSUME Shape, Leases, [Next]_vars PROVE Leases'
  OBVIOUS
<1>1. ASSUME NEW e \in Enqueuers, EnqueuerNext(e) PROVE Leases'
  <2>1. LeasesKept
    BY <1>1 DEF EnqueuerNext, Enqueue, Goto, LeasesKept, Shape, TypeOK, Procs, objects
  <2> QED
    BY <2>1, LeasesFrame
<1>2. ASSUME NEW o \in Observers, ObserverNext(o) PROVE Leases'
  <2>1. o \in Procs
    BY DEF Procs
  <2>2. Recheck(o) => LeasesKept
    BY <2>1, FinishLeases
       DEF Recheck, Goto, LeasesKept, Shape, TypeOK, Procs, objects
  <2> QED
    BY <1>2, <2>2, ObserveLeases, LeasesFrame DEF ObserverNext
<1>3. ASSUME NEW p \in Procs, Abandon(p) PROVE Leases'
  BY <1>3, FinishLeases, LeasesFrame DEF Abandon, objects
<1>4. CASE UNCHANGED vars
  <2>1. LeasesKept
    BY <1>4 DEF vars, LeasesKept, objects, locals, Procs
  <2> QED
    BY <2>1, LeasesFrame
<1> QED
  BY <1>1, <1>2, <1>3, <1>4, QueueLeases, WorkerLeases, HeartbeatLeases,
     CleanupLeases, TickLeases DEF Next

\* What the steps that leave the in-progress object alone do to coverage: p
\* is the process that moves.
CoverageKept(p) ==
  /\ wip' = wip
  /\ handled' \in Nat /\ handled <= handled'
  /\ accepted' \in Nat /\ accepted <= accepted'
  /\ accepted < accepted' => queued' # None
  /\ queued # None => queued' # None
  /\ \A q \in Procs \ {p} :
       pc'[q] = pc[q] /\ own'[q] = own[q] /\ seen'[q] = seen[q]
  /\ p \in Workers /\ pc'[p] \in Holding \ {"unlink"} =>
       /\ pc[p] \in Holding \ {"unlink"}
       /\ own'[p] = own[p] /\ seen'[p] = seen[p]
  /\ p \in Workers /\ pc'[p] = "clear" => seen[p] <= handled'
  /\ pc'[p] = "delete" =>
       \/ queued' # None
       \/ p \in Workers /\ seen[p] <= handled'

LEMMA CoverageFrame ==
  ASSUME Shape, Coverage, NEW p, CoverageKept(p) PROVE Coverage'
<1>1. /\ accepted \in Nat /\ handled \in Nat /\ accepted' \in Nat /\ handled' \in Nat
      /\ \A w \in Workers : seen[w] \in Nat
  BY DEF Shape, TypeOK, CoverageKept, Procs
<1>2. LaterEventsQueued'
  <2> SUFFICES ASSUME NEW w \in Workers, pc'[w] \in Holding \ {"unlink"},
                      Pinned(w)', accepted' > seen'[w]
               PROVE  queued' # None
    BY DEF LaterEventsQueued
  <2>1. /\ pc[w] \in Holding \ {"unlink"} /\ seen'[w] = seen[w]
        /\ own'[w] = own[w] /\ wip' = wip
    BY DEF CoverageKept, Procs
  <2>2. Pinned(w)
    BY <2>1 DEF Pinned
  <2> QED
    BY <1>1, <2>1, <2>2 DEF Coverage, LaterEventsQueued, CoverageKept
<1>3. CompletionCovered'
  <2> SUFFICES ASSUME NEW w \in Workers, pc'[w] = "clear"
               PROVE  seen'[w] <= handled'
    BY DEF CompletionCovered
  <2>1. CASE w = p
    BY <2>1 DEF CoverageKept, Holding, Labels
  <2>2. CASE w # p
    BY <1>1, <2>2 DEF CoverageKept, Coverage, CompletionCovered, Procs
  <2> QED
    BY <2>1, <2>2
<1>4. ReadyToDelete'
  <2> SUFFICES ASSUME NEW q \in Workers \cup Observers, pc'[q] = "delete",
                      DeletePinned(q)', accepted' > handled'
               PROVE  queued' # None
    BY DEF ReadyToDelete
  <2>1. CASE q # p
    <3>1. pc[q] = "delete" /\ own'[q] = own[q] /\ wip' = wip
      BY <2>1 DEF CoverageKept, Procs
    <3>2. DeletePinned(q)
      BY <3>1 DEF DeletePinned, Pinned
    <3> QED
      BY <1>1, <3>1, <3>2 DEF Coverage, ReadyToDelete, CoverageKept
  <2>2. CASE q = p
    <3>1. CASE q \in Workers /\ seen[q] <= handled'
      <4>1. pc'[q] \in Holding \ {"unlink"} /\ seen'[q] = seen[q] /\ Pinned(q)'
        BY <2>2, <3>1 DEF CoverageKept, Holding, Labels, DeletePinned
      <4>2. accepted' > seen'[q]
        BY <1>1, <3>1, <4>1
      <4> QED
        BY <1>2, <3>1, <4>1, <4>2 DEF LaterEventsQueued
    <3> QED
      BY <2>2, <3>1 DEF CoverageKept
  <2> QED
    BY <2>1, <2>2
<1>5. NoLostWork'
  BY <1>1 DEF Coverage, NoLostWork, CoverageKept
<1> QED
  BY <1>2, <1>3, <1>4, <1>5 DEF Coverage

LEMMA FinishCoverage ==
  ASSUME Shape, NEW p \in Procs, Finish(p), UNCHANGED <<queued, wip, accepted>>,
         handled' = handled
  PROVE  CoverageKept(p)
BY DEF Shape, TypeOK, Finish, Goto, CoverageKept, Holding, Labels, Procs

LEMMA QueueCoverage ==
  ASSUME Shape, Coverage, NEW p \in Enqueuers \cup Workers, QueueNext(p)
  PROVE  Coverage'
<1>1. p \in Procs
  BY DEF Procs
<1>2. ASSUME QueueReturns(p), queued' # None, UNCHANGED wip,
             pc[p] \in {"write", "read", "patch"}
      PROVE  CoverageKept(p)
  BY <1>1, <1>2
     DEF QueueReturns, Discharge, Finish, Goto, CoverageKept, Shape, TypeOK,
         Holding, Labels, Procs
<1>3. QueueWrite(p) => CoverageKept(p)
  <2>1. ASSUME QueueWrite(p), queued = None PROVE CoverageKept(p)
    <3>1. incoming[p] # None
      BY <1>1, <2>1 DEF QueueWrite, Shape, RolesOK, RoleOK
    <3> QED
      BY <1>2, <2>1, <3>1 DEF QueueWrite
  <2>2. ASSUME QueueWrite(p), queued # None PROVE CoverageKept(p)
    BY <1>1, <2>2
       DEF QueueWrite, Goto, CoverageKept, Shape, TypeOK, Holding, Labels,
           Procs, history
  <2> QED
    BY <2>1, <2>2
<1>4. QueueRead(p) => CoverageKept(p)
  BY <1>1, <1>2
     DEF QueueRead, Goto, CoverageKept, Shape, TypeOK, Holding, Labels, Procs,
         objects, history
<1>5. QueuePatch(p) => CoverageKept(p)
  <2>1. ASSUME QueuePatch(p), queued # None PROVE CoverageKept(p)
    <3>1. queued' \in Meta
      <4>1. queued \in Meta /\ twin[p] \in Meta /\ incoming[p] \in Meta
        BY <1>1, <2>1 DEF QueuePatch, Shape, TypeOK, RolesOK, RoleOK
      <4> QED
        BY <2>1, <4>1, MergedMeta, PatchedMeta DEF QueuePatch
    <3> QED
      BY <1>2, <2>1, <3>1, NoneAssumption DEF QueuePatch
  <2>2. ASSUME QueuePatch(p), queued = None PROVE CoverageKept(p)
    BY <1>1, <2>2
       DEF QueuePatch, Goto, CoverageKept, Shape, TypeOK, Holding, Labels,
           Procs, history
  <2> QED
    BY <2>1, <2>2
<1> QED
  BY <1>3, <1>4, <1>5, CoverageFrame DEF QueueNext

LEMMA StartCoverage ==
  ASSUME Shape, Leases, Coverage, NEW w \in Workers, Start(w)
  PROVE  Coverage'
<1>1. w \in Procs
  BY DEF Procs
<1>2. CASE wip = None /\ queued # None
  <2>1. /\ queued' = queued /\ pc' = [pc EXCEPT ![w] = "unlink"]
        /\ own' = [own EXCEPT ![w] = wip'] /\ wip'.gen = nextGen
        /\ UNCHANGED <<accepted, handled, seen>>
    BY <1>2, StartedLease DEF Start, Goto
  <2>2. CompletionCovered'
    BY <1>1, <2>1 DEF Coverage, CompletionCovered, Shape, TypeOK, Procs
  <2> QED
    BY <1>2, <2>1, <2>2
       DEF Coverage, LaterEventsQueued, ReadyToDelete, NoLostWork
<1>3. CASE ~(wip = None /\ queued # None)
  BY <1>1, <1>3, FinishCoverage, CoverageFrame DEF Start
<1> QED
  BY <1>2, <1>3

\* The heart of it: Start deletes the queued object while its own lease pins
\* the in-progress one, so nobody else is about to remove that.
LEMMA UnlinkCoverage ==
  ASSUME WindowAssumption, Shape, Leases, Coverage, NEW w \in Workers, Unlink(w)
  PROVE  Coverage'
<1>1. w \in Procs /\ Lease \in Nat /\ StartWindow \in Nat /\ StartWindow <= Lease
  BY QueueAssumption DEF Procs, WindowAssumption
<1>2. /\ pc[w] = "unlink" /\ pc' = [pc EXCEPT ![w] = "run"]
      /\ seen' = [seen EXCEPT ![w] = accepted]
      /\ UNCHANGED <<wip, own, accepted, handled>>
  BY DEF Unlink, Goto
<1>3. own[w] \in LeaseRecord /\ own[w] # None
  BY <1>1, <1>2, QueueAssumption DEF Shape, TypeOK, RolesOK, RoleOK, Procs
<1>4. own[w].exp >= clock
  <2>1. clock <= (own[w].exp - Lease) + StartWindow
    BY <1>2 DEF Leases, StartInWindow
  <2> QED
    BY <1>1, <1>3, <2>1 DEF LeaseRecord, Shape, TypeOK
<1>5. Pinned(w) /\ own[w].exp <= wip.exp
  BY <1>3, <1>4 DEF Leases, HoldersPinned
<1>6. \A v \in Workers \ {w} : own[v] # None => ~Pinned(v)
  BY <1>3, <1>5 DEF Leases, GenerationsFresh, Pinned
<1>7. \A o \in Observers : own[o] # None => ~DeletePinned(o)
  <2> SUFFICES ASSUME NEW o \in Observers, own[o] # None, DeletePinned(o)
               PROVE  FALSE
    OBVIOUS
  <2>1. own[o] \in LeaseRecord /\ wip \in LeaseRecord /\ clock \in Nat
    BY <1>5 DEF Shape, TypeOK, Pinned, Procs
  <2>2. own[o].exp < clock /\ own[o].exp = wip.exp
    BY DEF Leases, ObservedLapsed, DeletePinned
  <2> QED
    BY <1>3, <1>4, <1>5, <2>1, <2>2 DEF LeaseRecord
<1>8. \A p \in Workers \cup Observers :
        pc[p] \in Holding /\ (p \in Observers => pc[p] = "delete") => own[p] # None
  BY QueueAssumption DEF Shape, RolesOK, RoleOK, Holding, Labels, Procs
<1>9. LaterEventsQueued'
  <2> SUFFICES ASSUME NEW v \in Workers, pc'[v] \in Holding \ {"unlink"},
                      Pinned(v)', accepted' > seen'[v]
               PROVE  FALSE
    BY DEF LaterEventsQueued
  <2>1. v # w
    BY <1>1, <1>2 DEF Shape, TypeOK
  <2>2. pc[v] \in Holding /\ Pinned(v)
    BY <1>2, <2>1 DEF Shape, TypeOK, Procs, Pinned
  <2> QED
    BY <1>6, <1>8, <2>1, <2>2, QueueAssumption
<1>10. CompletionCovered'
  BY <1>1, <1>2 DEF Coverage, CompletionCovered, Shape, TypeOK, Procs
<1>11. ReadyToDelete'
  <2> SUFFICES ASSUME NEW p \in Workers \cup Observers, pc'[p] = "delete",
                      DeletePinned(p)'
               PROVE  FALSE
    BY DEF ReadyToDelete
  <2>1. p # w /\ pc[p] = "delete" /\ DeletePinned(p) /\ Pinned(p)
    BY <1>1, <1>2 DEF Shape, TypeOK, Procs, DeletePinned, Pinned
  <2>2. own[p] # None
    BY <1>8, <2>1 DEF Holding, Labels
  <2> QED
    BY <1>6, <1>7, <2>1, <2>2
<1>12. NoLostWork'
  BY <1>2, <1>5 DEF NoLostWork, Pinned
<1> QED
  BY <1>9, <1>10, <1>11, <1>12 DEF Coverage

LEMMA RefreshCoverage ==
  ASSUME Shape, Leases, Coverage, NEW w \in Workers, Refresh(w) PROVE Coverage'
<1>1. /\ w \in Procs /\ wip # None /\ wip \in LeaseRecord /\ wip.gen = own[w].gen
      /\ UNCHANGED <<queued, pc, accepted, handled, seen>>
  BY DEF Refresh, Pinned, Shape, TypeOK, Procs, history
<1>2. /\ wip' # None /\ wip'.gen = wip.gen /\ wip'.mgen = wip.mgen + 1
      /\ own'[w].gen = own[w].gen /\ \A p \in Procs \ {w} : own'[p] = own[p]
  <2>1. wip' \in LeaseRecord
    BY <1>1, RefreshShape, QueueAssumption DEF Refresh, LeaseRecord, Shape, TypeOK
  <2> QED
    BY <1>1, <2>1, NoneAssumption DEF Refresh, Shape, TypeOK
<1>3. LaterEventsQueued'
  BY <1>1, <1>2 DEF Coverage, LaterEventsQueued, Pinned, Procs
<1>4. ReadyToDelete'
  <2> SUFFICES ASSUME NEW p \in Workers \cup Observers, pc'[p] = "delete",
                      DeletePinned(p)', accepted' > handled'
               PROVE  queued' # None
    BY DEF ReadyToDelete
  <2>1. pc[p] = "delete" /\ Pinned(p)
    BY <1>1, <1>2 DEF DeletePinned, Pinned, Procs
  <2>2. p \notin Observers
    <3> SUFFICES ASSUME p \in Observers PROVE FALSE
      OBVIOUS
    <3>1. p # w /\ own[p] # None
      BY <2>1, QueueAssumption DEF Shape, RolesOK, RoleOK, Procs
    <3>2. own[p] \in LeaseRecord /\ own'[p] = own[p]
      BY <1>2, <3>1 DEF Shape, TypeOK, Procs
    <3>3. own[p].mgen <= wip.mgen /\ wip'.mgen = own[p].mgen
      BY <2>1, <3>1, <3>2 DEF Leases, ObservedLapsed, DeletePinned
    <3> QED
      BY <1>1, <1>2, <3>2, <3>3 DEF LeaseRecord
  <2> QED
    BY <1>1, <2>1, <2>2 DEF Coverage, ReadyToDelete, DeletePinned
<1>5. CompletionCovered' /\ NoLostWork'
  BY <1>1, <1>2 DEF Coverage, CompletionCovered, NoLostWork
<1> QED
  BY <1>3, <1>4, <1>5 DEF Coverage

LEMMA DeleteLeaseCoverage ==
  ASSUME Shape, Coverage, NEW p \in Workers \cup Observers, DeleteLease(p)
  PROVE  Coverage'
<1>1. p \in Procs
  BY DEF Procs
<1>2. CASE DeletePinned(p)
  <2>1. /\ wip' = None /\ UNCHANGED <<queued, accepted, handled>>
        /\ pc' = [pc EXCEPT ![p] = "idle"] /\ seen' = [seen EXCEPT ![p] = 0]
        /\ pc[p] = "delete"
    BY <1>2 DEF DeleteLease, Finish, Goto
  <2>2. CompletionCovered'
    BY <1>1, <2>1 DEF Coverage, CompletionCovered, Shape, TypeOK, Procs
  <2>3. NoLostWork'
    BY <1>2, <2>1 DEF Coverage, ReadyToDelete, NoLostWork
  <2> QED
    BY <2>1, <2>2, <2>3
       DEF Coverage, LaterEventsQueued, ReadyToDelete, DeletePinned, Pinned
<1>3. CASE ~DeletePinned(p)
  BY <1>1, <1>3, FinishCoverage, CoverageFrame DEF DeleteLease
<1> QED
  BY <1>2, <1>3

LEMMA WorkerCoverage ==
  ASSUME WindowAssumption, Shape, Leases, Coverage, NEW w \in Workers, WorkerNext(w)
  PROVE  Coverage'
<1>1. w \in Procs
  BY DEF Procs
<1>2. Enumerate(w) => CoverageKept(w)
  BY <1>1 DEF Enumerate, Goto, CoverageKept, Shape, TypeOK, Holding, Labels,
              Procs, objects, history
<1>3. Succeed(w) => CoverageKept(w)
  BY <1>1 DEF Succeed, Discharge, Goto, CoverageKept, Shape, TypeOK, Holding,
              Labels, Procs, objects
<1>4. Fail(w) => CoverageKept(w)
  BY <1>1 DEF Fail, Goto, CoverageKept, Shape, TypeOK, Holding, Labels, Procs,
              objects
<1>5. AskRequeue(w) => CoverageKept(w)
  BY <1>1 DEF AskRequeue, Goto, CoverageKept, Shape, TypeOK, Holding, Labels,
              Procs, objects
<1>6. AskQueueKeys(w) => CoverageKept(w)
  BY <1>1 DEF AskQueueKeys, Goto, CoverageKept, Shape, TypeOK, Holding, Labels,
              Procs, objects
<1>7. ClearDeadLetter(w) => CoverageKept(w)
  BY <1>1 DEF ClearDeadLetter, Goto, CoverageKept, Shape, TypeOK, Holding,
              Labels, Procs, history, Coverage, CompletionCovered
<1>8. Bury(w) => CoverageKept(w)
  <2>1. ASSUME Bury(w), Pinned(w) PROVE CoverageKept(w)
    BY <1>1, <2>1 DEF Bury, Discharge, Goto, CoverageKept, Shape, TypeOK,
                      Holding, Labels, Procs
  <2>2. ASSUME Bury(w), ~Pinned(w) PROVE CoverageKept(w)
    BY <1>1, <2>2, FinishCoverage DEF Bury
  <2> QED
    BY <2>1, <2>2
<1> QED
  BY <1>2, <1>3, <1>4, <1>5, <1>6, <1>7, <1>8, StartCoverage, UnlinkCoverage,
     CoverageFrame DEF WorkerNext, CallbackReturns

LEMMA HeartbeatCoverage ==
  ASSUME Shape, Leases, Coverage, NEW w \in Workers, HeartbeatNext(w)
  PROVE  Coverage'
<1>1. w \in Procs
  BY DEF Procs
<1>2. HeartbeatStops(w) => CoverageKept(w)
  BY <1>1 DEF HeartbeatStops, CoverageKept, Shape, TypeOK, Holding, Labels,
              Procs, objects, history, Coverage, CompletionCovered
<1>3. QueueKeysFails(w) => CoverageKept(w)
  BY <1>1 DEF QueueKeysFails, Goto, CoverageKept, Shape, TypeOK, Holding,
              Labels, Procs, objects, history
<1> QED
  BY <1>2, <1>3, RefreshCoverage, CoverageFrame DEF HeartbeatNext

LEMMA CleanupCoverage ==
  ASSUME Shape, Leases, Coverage, NEW p \in Workers \cup Observers, CleanupNext(p)
  PROVE  Coverage'
<1>1. p \in Procs
  BY DEF Procs
<1>2. CopyBack(p) => CoverageKept(p)
  <2>1. ASSUME CopyBack(p), Finish(p), UNCHANGED queued PROVE CoverageKept(p)
    BY <1>1, <2>1, FinishCoverage DEF CopyBack
  <2>2. ASSUME CopyBack(p), queued # None, Goto(p, "twinRead"),
               UNCHANGED <<queued, own, seen>>
        PROVE  CoverageKept(p)
    BY <1>1, <2>2 DEF CopyBack, Goto, CoverageKept, Shape, TypeOK, Holding,
                      Labels, Procs
  <2>3. ASSUME CopyBack(p), queued = None, Goto(p, "delete"),
               queued' = RequeueMetadata(own[p].meta, plan[p], clock),
               UNCHANGED <<own, seen>>
        PROVE  CoverageKept(p)
    <3>1. own[p] \in LeaseRecord
      BY <1>1, <2>3, QueueAssumption DEF CopyBack, Shape, TypeOK, RolesOK, RoleOK
    <3>2. queued' # None
      BY <1>1, <2>3, <3>1, RequeuedMeta, NoneAssumption
         DEF LeaseRecord, Shape, TypeOK
    <3> QED
      BY <1>1, <2>3, <3>2 DEF CopyBack, Goto, CoverageKept, Shape, TypeOK,
                              Holding, Labels, Procs
  <2> QED
    BY <2>1, <2>2, <2>3 DEF CopyBack
<1>3. TwinRead(p) => CoverageKept(p)
  BY <1>1 DEF TwinRead, Goto, CoverageKept, Shape, TypeOK, Holding, Labels,
              Procs, objects, history
<1>4. TwinPatch(p) => CoverageKept(p)
  <2>1. ASSUME TwinPatch(p), queued # None,
               queued' = PatchMetadata(queued, MergeMetadata(twin[p], incoming[p]))
        PROVE  queued' # None
    <3>1. queued \in Meta /\ twin[p] \in Meta /\ incoming[p] \in Meta
      BY <1>1, <2>1 DEF TwinPatch, Shape, TypeOK, RolesOK, RoleOK
    <3> QED
      BY <2>1, <3>1, MergedMeta, PatchedMeta, NoneAssumption
  <2> QED
    BY <1>1, <2>1 DEF TwinPatch, Goto, CoverageKept, Shape, TypeOK, Holding,
                      Labels, Procs, history
<1> QED
  BY <1>2, <1>3, <1>4, DeleteLeaseCoverage, CoverageFrame DEF CleanupNext

LEMMA CoverageInit == Init => Coverage
BY DEF Init, Coverage, LaterEventsQueued, CompletionCovered, ReadyToDelete,
       NoLostWork, Holding, Procs

LEMMA CoverageStep ==
  ASSUME WindowAssumption
  PROVE  Shape /\ Leases /\ Coverage /\ [Next]_vars => Coverage'
<1> SUFFICES ASSUME Shape, Leases, Coverage, [Next]_vars PROVE Coverage'
  OBVIOUS
<1>1. ASSUME NEW e \in Enqueuers, EnqueuerNext(e) PROVE Coverage'
  <2>1. CoverageKept(e)
    BY <1>1, QueueAssumption
       DEF EnqueuerNext, Enqueue, Goto, CoverageKept, Shape, TypeOK, Procs,
           objects, history
  <2> QED
    BY <2>1, CoverageFrame
<1>2. ASSUME NEW o \in Observers, ObserverNext(o) PROVE Coverage'
  <2>1. o \in Procs /\ o \notin Workers
    BY QueueAssumption DEF Procs
  <2>2. Observe(o) => CoverageKept(o)
    BY <2>1 DEF Observe, Goto, CoverageKept, Shape, TypeOK, Procs, objects,
                history
  <2>3. Recheck(o) => CoverageKept(o)
    BY <2>1, FinishCoverage
       DEF Recheck, Goto, CoverageKept, Shape, TypeOK, Procs, objects
  <2> QED
    BY <1>2, <2>2, <2>3, CoverageFrame DEF ObserverNext
<1>3. ASSUME NEW p \in Procs, Abandon(p) PROVE Coverage'
  BY <1>3, FinishCoverage, CoverageFrame DEF Abandon, objects
<1>4. CASE Tick \/ UNCHANGED vars
  BY <1>4 DEF Tick, vars, objects, locals, history, Coverage, LaterEventsQueued,
              CompletionCovered, ReadyToDelete, NoLostWork, DeletePinned, Pinned
<1> QED
  BY <1>1, <1>2, <1>3, <1>4, QueueCoverage, WorkerCoverage, HeartbeatCoverage,
     CleanupCoverage DEF Next

-----------------------------------------------------------------------------
(* The theorems.                                                           *)

LEMMA LeasesAlways == Spec => [](Shape /\ Leases)
<1>1. Init => Shape /\ Leases
  BY ShapeInit, LeasesInit
<1>2. (Shape /\ Leases) /\ [Next]_vars => (Shape /\ Leases)'
  BY ShapeStep, LeasesStep
<1> QED
  BY <1>1, <1>2, PTL DEF Spec

\* Two callbacks run at once only after a lease one of them knows of lapsed,
\* however many workers there are and however long a Start takes.
THEOREM LeaseExcludes == Spec => []ExclusiveLease
<1>1. Shape /\ Leases => ExclusiveLease
  <2> SUFFICES ASSUME Shape, Leases PROVE ExclusiveLease
    OBVIOUS
  <2>1. \A w \in Workers : pc[w] = "run" => own[w] # None
    BY QueueAssumption DEF Shape, RolesOK, RoleOK, Procs
  <2>2. \A w \in Workers : pc[w] = "run" => own[w].exp \in Nat
    BY <2>1 DEF Shape, TypeOK, LeaseRecord, Procs
  <2>3. clock \in Nat
    BY DEF Shape, TypeOK
  <2>4. \A v, w \in Workers :
          (v # w /\ pc[v] = "run" /\ pc[w] = "run")
            => ~(own[v].exp >= clock /\ own[w].exp >= clock)
    BY <2>1 DEF Leases, GenerationsFresh, HoldersPinned, Pinned
  <2> QED
    BY <2>2, <2>3, <2>4 DEF ExclusiveLease
<1> QED
  BY <1>1, LeasesAlways, PTL

\* While the lease on the in-progress object is live, only its holder removes
\* the object.
THEOREM LiveLeaseIsKept == Spec => LiveLeaseKept
<1>1. Shape /\ Leases /\ [Next]_vars =>
        ((wip # None /\ ~IsOrphaned(wip) /\ (wip' = None \/ wip'.gen # wip.gen))
           => \E w \in Workers : /\ pc[w] = "delete" /\ pc'[w] = "idle"
                                 /\ own[w].gen = wip.gen)
  <2> SUFFICES ASSUME Shape, Leases, [Next]_vars, wip # None, ~IsOrphaned(wip),
                      wip' = None \/ wip'.gen # wip.gen
               PROVE  \E w \in Workers : /\ pc[w] = "delete" /\ pc'[w] = "idle"
                                         /\ own[w].gen = wip.gen
    OBVIOUS
  <2>1. wip' # wip /\ \A w \in Workers : ~Refresh(w)
    <3>1. ASSUME NEW w \in Workers, Refresh(w) PROVE FALSE
      <4>1. wip' \in LeaseRecord /\ wip'.gen = wip.gen
        BY <3>1, RefreshShape, QueueAssumption
           DEF Refresh, Shape, TypeOK, LeaseRecord
      <4> QED
        BY <4>1, NoneAssumption
    <3> QED
      BY <3>1
  <2>2. PICK p \in Workers \cup Observers : DeleteLease(p)
    BY <2>1
       DEF Next, vars, EnqueuerNext, Enqueue, QueueNext, QueueWrite, QueueRead,
           QueuePatch, WorkerNext, Enumerate, Start, Unlink, CallbackReturns,
           Succeed, Fail, AskRequeue, AskQueueKeys, ClearDeadLetter, Bury,
           HeartbeatNext, HeartbeatStops, QueueKeysFails, ObserverNext, Observe,
           Recheck, CleanupNext, CopyBack, TwinRead, TwinPatch, Abandon, Tick,
           objects
  <2>3. /\ p \in Procs /\ DeletePinned(p) /\ own[p].gen = wip.gen
        /\ pc[p] = "delete" /\ pc' = [pc EXCEPT ![p] = "idle"]
    BY <2>1, <2>2 DEF DeleteLease, Finish, Goto, DeletePinned, Pinned, Procs
  <2>4. p \notin Observers
    <3> SUFFICES ASSUME p \in Observers PROVE FALSE
      OBVIOUS
    <3>1. own[p] # None
      BY <2>3, QueueAssumption DEF Shape, RolesOK, RoleOK
    <3> QED
      BY <2>3, <3>1 DEF Leases, ObservedLapsed, DeletePinned, IsOrphaned
  <2> QED
    BY <2>3, <2>4 DEF Shape, TypeOK
<1> QED
  BY <1>1, LeasesAlways, PTL DEF Spec, LiveLeaseKept

\* The whole inductive invariant holds as long as a Start takes no longer than
\* the lease it stamps (gcs.go: who holds which lease, and what is queued).
THEOREM InvariantHolds == ASSUME WindowAssumption PROVE Spec => []IInv
<1>1. Init => Shape /\ Leases /\ Coverage
  BY ShapeInit, LeasesInit, CoverageInit
<1>2. (Shape /\ Leases /\ Coverage) /\ [Next]_vars => (Shape /\ Leases /\ Coverage)'
  BY ShapeStep, LeasesStep, CoverageStep
<1>3. Shape /\ Leases /\ Coverage => IInv
  BY DEF IInv
<1> QED
  BY <1>1, <1>2, <1>3, PTL DEF Spec

\* As long as a Start takes no longer than the lease it stamps, an accepted
\* event that no callback has covered is still on the bucket.
THEOREM WorkIsNeverLost == ASSUME WindowAssumption PROVE Spec => []NoLostWork
<1>1. IInv => NoLostWork
  BY DEF IInv, Coverage
<1> QED
  BY <1>1, InvariantHolds, PTL

-----------------------------------------------------------------------------
(***************************************************************************)
(* The bucket's workqueue implements AtLeastOnce: its initial state maps   *)
(* to the contract's, and every step maps to a step of the contract or to  *)
(* a stutter.                                                              *)
(***************************************************************************)

\* A step of p that the contract does not see.
Unseen(p) ==
  /\ UNCHANGED <<accepted, handled>>
  /\ Kept' = Kept
  /\ \A q \in Workers \ {p} : pc'[q] = pc[q] /\ seen'[q] = seen[q]
  /\ p \in Workers =>
       /\ pc[p] \in Holding \ {"unlink"} <=> pc'[p] \in Holding \ {"unlink"}
       /\ pc[p] \in Holding \ {"unlink"} => seen'[p] = seen[p]

LEMMA UnseenStutters ==
  ASSUME NEW p, Unseen(p) PROVE UNCHANGED Contract!contract
BY DEF Unseen, Covers, Contract!contract

\* Only p moves, so only its cover may change.
LEMMA OneCover ==
  ASSUME NEW p \in Workers,
         \A q \in Workers \ {p} : pc'[q] = pc[q] /\ seen'[q] = seen[q]
  PROVE  Covers' = [Covers EXCEPT ![p] = Covers'[p]]
BY DEF Covers

\* What a worker in a covering place covers.
LEMMA CoverIsSeen ==
  ASSUME Shape, NEW w \in Workers, pc[w] \in Holding \ {"unlink"}
  PROVE  Covers[w] = seen[w] /\ Covers[w] # Contract!NoCallback
BY DEF Covers, Contract!NoCallback, Shape, TypeOK, Procs

-----------------------------------------------------------------------------
(* The steps that end a worker's callback, or a caller's or observer's run.*)

\* p stops without letting go of the key.
LEMMA FinishImplements ==
  ASSUME Shape, NEW p \in Procs, Finish(p),
         UNCHANGED <<accepted, handled>>, Kept' = Kept
  PROVE  [Contract!Next]_Contract!contract
<1>1. /\ pc' = [pc EXCEPT ![p] = "idle"] /\ seen' = [seen EXCEPT ![p] = 0]
      /\ "idle" \notin Holding
  BY DEF Finish, Goto, Holding
<1>2. CASE p \in Workers /\ pc[p] \in Holding \ {"unlink"}
  <2>1. Covers'[p] = Contract!NoCallback
    BY <1>1, <1>2 DEF Covers, Contract!NoCallback, Shape, TypeOK
  <2>2. Covers' = [Covers EXCEPT ![p] = Contract!NoCallback]
    BY <1>1, <1>2, <2>1, OneCover DEF Shape, TypeOK, Procs
  <2>3. Contract!End(p)
    BY <1>2, <2>2, CoverIsSeen DEF Contract!End
  <2> QED
    BY <1>2, <2>3 DEF Contract!Next
<1>3. CASE ~(p \in Workers /\ pc[p] \in Holding \ {"unlink"})
  <2>1. Unseen(p)
    BY <1>1, <1>3 DEF Unseen, Shape, TypeOK, Procs
  <2> QED
    BY <2>1, UnseenStutters
<1> QED
  BY <1>2, <1>3

\* The last delete ends the callback of a worker, and lets go of the key only
\* when nothing is outstanding.
LEMMA DeleteLeaseImplements ==
  ASSUME Shape, Coverage, NEW p \in Workers \cup Observers, DeleteLease(p)
  PROVE  [Contract!Next]_Contract!contract
<1>1. p \in Procs /\ pc[p] = "delete" /\ "delete" \in Holding \ {"unlink"}
  BY DEF DeleteLease, Procs, Holding, Labels
<1>2. CASE Kept' = Kept
  BY <1>1, <1>2, FinishImplements DEF DeleteLease
<1>3. CASE Kept' # Kept
  <2>1. /\ DeletePinned(p) /\ queued = None
        /\ UNCHANGED <<accepted, handled>>
        /\ pc' = [pc EXCEPT ![p] = "idle"] /\ seen' = [seen EXCEPT ![p] = 0]
    BY <1>3 DEF DeleteLease, Kept, Finish, Goto
  <2>2. accepted <= handled
    BY <1>1, <2>1 DEF Coverage, ReadyToDelete, Shape, TypeOK
  <2>3. Contract!LetGo
    BY <1>3, <2>1, <2>2 DEF Contract!LetGo, Kept, DeletePinned, Pinned,
                            DeleteLease
  <2>4. CASE p \in Workers
    <3>1. Covers'[p] = Contract!NoCallback
      BY <1>1, <2>1, <2>4
         DEF Covers, Contract!NoCallback, Shape, TypeOK, Holding
    <3>2. Covers' = [Covers EXCEPT ![p] = Contract!NoCallback]
      BY <2>1, <2>4, <3>1, OneCover DEF Shape, TypeOK, Procs
    <3>3. Contract!End(p)
      BY <1>1, <2>1, <2>3, <2>4, <3>2, CoverIsSeen DEF Contract!End
    <3> QED
      BY <2>4, <3>3 DEF Contract!Next
  <2>5. CASE p \notin Workers
    <3>1. Covers' = Covers
      BY <2>1, <2>5 DEF Covers, Shape, TypeOK, Procs
    <3> QED
      BY <2>1, <2>3, <3>1 DEF Contract!Drop, Contract!Next
  <2> QED
    BY <2>4, <2>5
<1> QED
  BY <1>2, <1>3

-----------------------------------------------------------------------------
(* Queue.                                                                  *)

\* Queue succeeds: a caller's event is accepted, a worker's own event takes
\* the place of those it covers.
LEMMA ReturnImplements ==
  ASSUME Shape, NEW p \in Enqueuers \cup Workers,
         pc[p] \in {"write", "read", "patch"}, QueueReturns(p), queued' # None
  PROVE  Contract!Next
<1>1. accepted' = accepted + 1 /\ Kept' /\ p \in Procs
  BY DEF QueueReturns, Kept, Procs
<1>2. CASE p \in Workers
  <2>1. /\ pc' = [pc EXCEPT ![p] = "clear"] /\ seen' = seen /\ Discharge(p)
        /\ {pc[p], "clear"} \subseteq Holding \ {"unlink"}
    BY <1>2 DEF QueueReturns, Goto, Holding, Labels
  <2>2. Covers' = Covers
    BY <2>1 DEF Covers, Shape, TypeOK, Procs
  <2>3. Contract!Replace(p)
    BY <1>1, <1>2, <2>1, <2>2, CoverIsSeen
       DEF Contract!Replace, Contract!Settled, Discharge
  <2> QED
    BY <1>2, <2>3 DEF Contract!Next
<1>3. CASE p \notin Workers
  <2>1. /\ pc' = [pc EXCEPT ![p] = "idle"] /\ seen' = [seen EXCEPT ![p] = 0]
        /\ handled' = handled
    BY <1>3 DEF QueueReturns, Finish, Goto
  <2>2. Covers' = Covers
    BY <1>3, <2>1 DEF Covers, Shape, TypeOK, Procs
  <2> QED
    BY <1>1, <2>1, <2>2 DEF Contract!Accept, Contract!Next
<1> QED
  BY <1>2, <1>3

LEMMA QueueImplements ==
  ASSUME Shape, NEW p \in Enqueuers \cup Workers, QueueNext(p)
  PROVE  [Contract!Next]_Contract!contract
<1>1. p \in Procs /\ incoming[p] # None
  BY DEF QueueNext, QueueWrite, QueueRead, QueuePatch, Shape, RolesOK, RoleOK, Procs
<1>2. ASSUME Goto(p, "read") \/ Goto(p, "write") \/ Goto(p, "patch"),
             pc[p] \in {"write", "read", "patch"}, UNCHANGED <<queued, wip, history>>
      PROVE  Unseen(p)
  BY <1>1, <1>2 DEF Unseen, Goto, Kept, history, Shape, TypeOK, Procs, Holding, Labels
<1>3. CASE QueueWrite(p)
  BY <1>1, <1>2, <1>3, ReturnImplements, UnseenStutters DEF QueueWrite
<1>4. CASE QueueRead(p)
  BY <1>2, <1>4, ReturnImplements, UnseenStutters DEF QueueRead, objects
<1>5. CASE QueuePatch(p)
  <2>1. CASE queued = None
    BY <1>2, <1>5, <2>1, UnseenStutters DEF QueuePatch
  <2>2. CASE queued # None
    <3>1. queued \in Meta /\ twin[p] \in Meta /\ incoming[p] \in Meta
      BY <1>1, <1>5, <2>2 DEF QueuePatch, Shape, TypeOK, RolesOK, RoleOK
    <3>2. queued' # None /\ QueueReturns(p) /\ pc[p] = "patch"
      BY <1>5, <2>2, <3>1, MergedMeta, PatchedMeta, NoneAssumption DEF QueuePatch
    <3> QED
      BY <3>2, ReturnImplements
  <2> QED
    BY <2>1, <2>2
<1> QED
  BY <1>3, <1>4, <1>5 DEF QueueNext

-----------------------------------------------------------------------------
(* The worker's own steps.                                                 *)

\* Start returns: the callback begins on a key that is still kept, because
\* the lease just stamped pins the in-progress object.
LEMMA UnlinkImplements ==
  ASSUME WindowAssumption, Shape, Leases, NEW w \in Workers, Unlink(w)
  PROVE  Contract!Next
<1>1. /\ w \in Procs /\ pc[w] = "unlink" /\ pc' = [pc EXCEPT ![w] = "run"]
      /\ seen' = [seen EXCEPT ![w] = accepted]
      /\ UNCHANGED <<wip, accepted, handled>>
      /\ "run" \in Holding \ {"unlink"}
  BY DEF Unlink, Goto, Procs, Holding, Labels
<1>2. own[w] \in LeaseRecord /\ own[w] # None
  BY <1>1, QueueAssumption DEF Shape, TypeOK, RolesOK, RoleOK
<1>3. own[w].exp >= clock
  <2>1. clock <= (own[w].exp - Lease) + StartWindow
    BY <1>1 DEF Leases, StartInWindow
  <2> QED
    BY <1>2, <2>1, QueueAssumption
       DEF LeaseRecord, Shape, TypeOK, WindowAssumption
<1>4. wip # None
  BY <1>2, <1>3 DEF Leases, HoldersPinned, Pinned
<1>5. Covers[w] = Contract!NoCallback /\ Covers'[w] = accepted
  BY <1>1 DEF Covers, Contract!NoCallback, Shape, TypeOK
<1>6. Covers' = [Covers EXCEPT ![w] = accepted]
  BY <1>1, <1>5, OneCover DEF Shape, TypeOK, Procs
<1>7. Contract!Begin(w)
  BY <1>1, <1>4, <1>5, <1>6 DEF Contract!Begin, Kept
<1> QED
  BY <1>7 DEF Contract!Next

\* A callback that succeeded, or failed for good, settles what it covers.
LEMMA SettleImplements ==
  ASSUME Shape, NEW w \in Workers, pc[w] = "run" \/ pc[w] = "bury",
         Goto(w, "clear") \/ Goto(w, "delete"), Discharge(w), Kept' = Kept,
         UNCHANGED <<accepted, seen>>
  PROVE  Contract!Next
<1>1. Covers' = Covers
  BY DEF Covers, Goto, Shape, TypeOK, Procs, Holding, Labels
<1>2. Covers[w] = seen[w] /\ Covers[w] # Contract!NoCallback
  BY CoverIsSeen DEF Holding, Labels
<1>3. Contract!Settle(w)
  BY <1>1, <1>2 DEF Contract!Settle, Contract!Settled, Discharge
<1> QED
  BY <1>3 DEF Contract!Next

LEMMA WorkerImplements ==
  ASSUME WindowAssumption, Shape, Leases, NEW w \in Workers, WorkerNext(w)
  PROVE  [Contract!Next]_Contract!contract
<1>1. w \in Procs
  BY DEF Procs
<1>2. ASSUME Enumerate(w) \/ Fail(w) \/ AskRequeue(w) \/ AskQueueKeys(w)
      PROVE  Unseen(w)
  BY <1>1, <1>2
     DEF Enumerate, Fail, AskRequeue, AskQueueKeys, Unseen, Goto, Kept, objects,
         history, Shape, TypeOK, Procs, Holding, Labels
<1>3. CASE Start(w)
  <2>1. CASE wip = None /\ queued # None
    <3>1. Unseen(w)
      BY <1>1, <1>3, <2>1
         DEF Start, Unseen, Goto, Kept, Shape, TypeOK, Procs, Holding, Labels
    <3> QED
      BY <3>1, UnseenStutters
  <2>2. CASE ~(wip = None /\ queued # None)
    BY <1>1, <1>3, <2>2, FinishImplements DEF Start, Kept
  <2> QED
    BY <2>1, <2>2
<1>4. CASE Succeed(w)
  BY <1>4, SettleImplements DEF Succeed, objects, Kept
<1>5. CASE ClearDeadLetter(w)
  <2>1. Unseen(w)
    BY <1>1, <1>5 DEF ClearDeadLetter, Unseen, Goto, Kept, history, Shape,
                      TypeOK, Procs, Holding, Labels
  <2> QED
    BY <2>1, UnseenStutters
<1>6. CASE Bury(w)
  BY <1>1, <1>6, SettleImplements, FinishImplements DEF Bury, Kept
<1> QED
  BY <1>2, <1>3, <1>4, <1>5, <1>6, UnlinkImplements, UnseenStutters
     DEF WorkerNext, CallbackReturns

LEMMA HeartbeatImplements ==
  ASSUME Shape, NEW w \in Workers, HeartbeatNext(w)
  PROVE  [Contract!Next]_Contract!contract
<1>1. w \in Procs
  BY DEF Procs
<1>2. CASE Refresh(w)
  <2>1. wip # None /\ wip' # None
    BY <1>2, RefreshShape, NoneAssumption, QueueAssumption
       DEF Refresh, Pinned, Shape, TypeOK, LeaseRecord
  <2>2. Unseen(w)
    BY <1>2, <2>1 DEF Refresh, Unseen, Kept, history
  <2> QED
    BY <2>2, UnseenStutters
<1>3. CASE HeartbeatStops(w) \/ QueueKeysFails(w)
  <2>1. Unseen(w)
    BY <1>1, <1>3
       DEF HeartbeatStops, QueueKeysFails, Unseen, Goto, Kept, objects, history,
           Shape, TypeOK, Procs, Holding, Labels
  <2> QED
    BY <2>1, UnseenStutters
<1> QED
  BY <1>2, <1>3 DEF HeartbeatNext

-----------------------------------------------------------------------------
(* Returning the key to the queue.                                         *)

LEMMA CleanupImplements ==
  ASSUME Shape, Coverage, NEW p \in Workers \cup Observers, CleanupNext(p)
  PROVE  [Contract!Next]_Contract!contract
<1>1. p \in Procs
  BY DEF Procs
<1>2. ASSUME pc[p] \in Returning, \E label \in Returning : Goto(p, label),
             UNCHANGED <<accepted, handled, seen>>, Kept' = Kept
      PROVE  Unseen(p)
  BY <1>1, <1>2 DEF Unseen, Goto, Shape, TypeOK, Procs, Holding, Labels, Returning
<1>3. CASE CopyBack(p)
  <2>1. CASE Finish(p) /\ UNCHANGED queued
    BY <1>1, <1>3, <2>1, FinishImplements DEF CopyBack, Kept
  <2>2. CASE Goto(p, "twinRead") /\ UNCHANGED <<queued, seen>>
    BY <1>2, <1>3, <2>2, UnseenStutters DEF CopyBack, Kept, Returning
  <2>3. CASE /\ Pinned(p) /\ Goto(p, "delete") /\ UNCHANGED seen
    BY <1>2, <1>3, <2>3, UnseenStutters DEF CopyBack, Kept, Pinned, Returning
  <2> QED
    BY <1>3, <2>1, <2>2, <2>3 DEF CopyBack
<1>4. CASE TwinRead(p)
  <2>1. \E label \in Returning : Goto(p, label)
    BY <1>4 DEF TwinRead, Returning
  <2> QED
    BY <1>2, <1>4, <2>1, UnseenStutters
       DEF TwinRead, Kept, objects, history, Returning
<1>5. CASE TwinPatch(p)
  <2>1. ASSUME queued # None,
               queued' = PatchMetadata(queued, MergeMetadata(twin[p], incoming[p]))
        PROVE  queued' # None
    <3>1. queued \in Meta /\ twin[p] \in Meta /\ incoming[p] \in Meta
      BY <1>1, <1>5, <2>1 DEF TwinPatch, Shape, TypeOK, RolesOK, RoleOK
    <3> QED
      BY <2>1, <3>1, MergedMeta, PatchedMeta, NoneAssumption
  <2>2. Kept' = Kept /\ \E label \in Returning : Goto(p, label)
    BY <1>5, <2>1 DEF TwinPatch, Kept, Returning
  <2> QED
    BY <1>2, <1>5, <2>2, UnseenStutters DEF TwinPatch, history, Returning
<1> QED
  BY <1>3, <1>4, <1>5, DeleteLeaseImplements DEF CleanupNext

\* Callers and observers that set out, and time, are not seen.
LEMMA OthersStutter ==
  ASSUME Shape,
         \/ \E e \in Enqueuers : EnqueuerNext(e)
         \/ \E o \in Observers : ObserverNext(o)
         \/ Tick \/ UNCHANGED vars
  PROVE  UNCHANGED Contract!contract
<1>1. ASSUME \A w \in Workers : pc'[w] = pc[w] /\ seen'[w] = seen[w],
             UNCHANGED <<queued, wip, accepted, handled>>
      PROVE  UNCHANGED Contract!contract
  BY <1>1 DEF Contract!contract, Covers, Kept
<1>2. ASSUME NEW e \in Enqueuers, EnqueuerNext(e)
      PROVE  UNCHANGED Contract!contract
  <2>1. e \in Procs /\ e \notin Workers
    BY QueueAssumption DEF Procs
  <2>2. /\ pc' = [pc EXCEPT ![e] = "write"] /\ seen' = seen
        /\ UNCHANGED <<queued, wip, accepted, handled>>
    BY <1>2 DEF EnqueuerNext, Enqueue, Goto, objects, history
  <2> QED
    BY <1>1, <2>1, <2>2 DEF Shape, TypeOK, Procs
<1>3. ASSUME NEW o \in Observers, ObserverNext(o)
      PROVE  UNCHANGED Contract!contract
  <2>1. o \in Procs /\ o \notin Workers
    BY QueueAssumption DEF Procs
  <2>2. /\ \E label \in Labels : pc' = [pc EXCEPT ![o] = label]
        /\ seen' = seen \/ seen' = [seen EXCEPT ![o] = 0]
        /\ UNCHANGED <<queued, wip, accepted, handled>>
    BY <1>3 DEF ObserverNext, Observe, Recheck, Finish, Goto, objects, history, Labels
  <2> QED
    BY <1>1, <2>1, <2>2 DEF Shape, TypeOK, Procs
<1>4. CASE Tick \/ UNCHANGED vars
  BY <1>4 DEF Tick, vars, objects, locals, history, Contract!contract, Kept, Covers
<1> QED
  BY <1>2, <1>3, <1>4

-----------------------------------------------------------------------------

LEMMA StepImplements ==
  ASSUME WindowAssumption
  PROVE  Shape /\ Leases /\ Coverage /\ [Next]_vars
           => [Contract!Next]_Contract!contract
<1> SUFFICES ASSUME Shape, Leases, Coverage, [Next]_vars
             PROVE  [Contract!Next]_Contract!contract
  OBVIOUS
<1>1. ASSUME NEW p \in Procs, Abandon(p)
      PROVE  [Contract!Next]_Contract!contract
  BY <1>1, FinishImplements DEF Abandon, objects, Kept
<1> QED
  BY <1>1, OthersStutter, QueueImplements, WorkerImplements, HeartbeatImplements,
     CleanupImplements DEF Next

LEMMA InitImplements == Init => Contract!Init
BY DEF Init, Contract!Init, Kept, Covers, Contract!NoCallback, Holding, Procs

\* The bucket's workqueue keeps the promise its interface makes, as long as a
\* Start takes no longer than the lease it stamps.
THEOREM QueueImplementsContract ==
  ASSUME WindowAssumption PROVE Spec => ImplementsContract
<1>1. Init => Shape /\ Leases /\ Coverage
  BY ShapeInit, LeasesInit, CoverageInit
<1>2. Shape /\ Leases /\ Coverage /\ [Next]_vars => (Shape /\ Leases /\ Coverage)'
  BY ShapeStep, LeasesStep, CoverageStep
<1> QED
  BY <1>1, <1>2, InitImplements, StepImplements, PTL
     DEF Spec, ImplementsContract, Contract!Spec

=============================================================================

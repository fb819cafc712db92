----------------------------- MODULE MCSuspendWake -----------------------------
(***************************************************************************)
(* Small instances of SuspendWake for TLC: two reconciles that overlap, or *)
(* longer behaviours of one that is alone.                                 *)
(***************************************************************************)
EXTENDS SuspendWake

CONSTANTS w1, w2

ASSUME AloneAssumption == w1 \in Workers

VARIABLE alone  \* whether w1 is the only reconcile, and friends answer in time

allVars == <<vars, alone>>

\* A step of either kind of behaviour, and the smaller bounds of the overlapping.
Kept(A) ==
  /\ A /\ UNCHANGED alone
  /\ alone => (\A w \in Workers \ {w1} : at'[w] = "idle") /\ budget'.late = 0
  /\ ~alone => lastSaved' <= 2 /\ clock' <= 3

SuspendInit == Init /\ alone \in BOOLEAN

SuspendSpec == SuspendInit /\ [][Kept(Next)]_allVars

\* Reconciles keep coming while a run is parked, every call returns and time
\* passes.
FairSuspend ==
  /\ SuspendSpec
  /\ WF_allVars(alone /\ Kept(Tick)) /\ WF_allVars(alone /\ Kept(WorkerNext(w1)))

\* Questions and pauses match, unless reconciles overlap, a friend answers a
\* question that was replaced, or two calls fail.
AskedRightlyAlone == alone /\ budget.faults <= 1 => FriendsAskedRightly

\* Every pause ends (WaitBounded), where a reconcile is not held up by another.
WaitBoundedAlone == alone => WaitBounded

=============================================================================

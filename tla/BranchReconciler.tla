--------------------------- MODULE BranchReconciler ---------------------------
(***************************************************************************)
(* A key that is worked on in a branch until the branch meets its criteria *)
(* (src/reconcilers/githubreconciler/branchreconciler).  What a run knows  *)
(* of its branch it reads call by call, while others push to the branch,   *)
(* merge it or delete it; any call may fail, and the process may die.      *)
(***************************************************************************)
EXTENDS Naturals

CONSTANTS
  maxAttempts,       \* commits a branch may have before the key is given up
  MaxBranchEvents,   \* bound: what others do to the branch
  MaxBranchFaults    \* bound: failed runs

ASSUME BranchAssumption == maxAttempts \in Nat \ {0}

VARIABLES
  line,       \* the branch: whether it exists, its head, commits ahead, ours among them
  meeting,    \* the heads that meet the criteria
  key,        \* "queued" or "gone"
  run,        \* what the run is at, and what it knows
  pushes,     \* pushes so far: the next head
  succeeded,  \* the heads that onSuccess was called for
  branchEvents, branchFaults,
  quiet       \* history: nobody else touched the branch since the last run began

branchVars ==
  <<line, meeting, key, run, pushes, succeeded, branchEvents, branchFaults, quiet>>

NoBranch == [exists |-> FALSE, head |-> 0, ahead |-> 0, ours |-> 0]
NoBranchRun    == [at |-> "idle", found |-> FALSE, count |-> 0, leased |-> NoBranch, head |-> 0]

BranchTypeOK ==
  /\ line \in [exists : BOOLEAN, head : Nat, ahead : Nat, ours : Nat]
  /\ meeting \subseteq 1 .. pushes /\ succeeded \subseteq 0 .. pushes
  /\ key \in {"queued", "gone"} /\ quiet \in BOOLEAN

BranchInit ==
  /\ line = NoBranch /\ meeting = {} /\ key = "queued" /\ run = NoBranchRun
  /\ pushes = 0 /\ succeeded = {} /\ branchEvents = 0 /\ branchFaults = 0 /\ quiet = TRUE

RunAt(place) == run.at = place

-----------------------------------------------------------------------------
(* Reconcile.                                                              *)

\* getBranchInfo: whether there is a branch; a branch is compared next.
FindBranch ==
  /\ key = "queued" /\ RunAt("idle") /\ quiet' = TRUE
  /\ run' = [NoBranchRun EXCEPT !.at = IF line.exists THEN "compare" ELSE "lease",
                          !.found = line.exists]
  /\ UNCHANGED <<line, meeting, key, pushes, succeeded, branchEvents, branchFaults>>

Exceeded(count) == count >= maxAttempts

\* The attempts are counted in commits; at their limit the error is final.
Compare ==
  /\ RunAt("compare") /\ line.exists
  /\ IF Exceeded(line.ahead)
       THEN key' = "gone" /\ run' = NoBranchRun
       ELSE run' = [run EXCEPT !.at = "lease", !.count = line.ahead] /\ UNCHANGED key
  /\ UNCHANGED <<line, meeting, pushes, succeeded, branchEvents, branchFaults, quiet>>

\* LeaseRef: the branch, or the base under it.
LeaseBranch ==
  /\ RunAt("lease") /\ (run.found => line.exists)
  /\ run' = [run EXCEPT !.at = "agent", !.leased = IF run.found THEN line ELSE NoBranch]
  /\ UNCHANGED <<line, meeting, key, pushes, succeeded, branchEvents, branchFaults, quiet>>

\* MakeAndPushChanges: one commit on what was leased replaces the branch.
AgentPushes ==
  /\ RunAt("agent")
  /\ pushes' = pushes + 1
  /\ line' = [exists |-> TRUE, head |-> pushes + 1,
              ahead |-> run.leased.ahead + 1, ours |-> run.leased.ours + 1]
  /\ meeting' \in {meeting, meeting \cup {pushes + 1}}
  /\ run' = [run EXCEPT !.at = "head"]
  /\ UNCHANGED <<key, succeeded, branchEvents, branchFaults, quiet>>

getBranchHeadSHA ==
  /\ RunAt("head") /\ line.exists
  /\ run' = [run EXCEPT !.at = "criteria", !.head = line.head]
  /\ UNCHANGED <<line, meeting, key, pushes, succeeded, branchEvents, branchFaults, quiet>>

\* The criteria are met and onSuccess is called, or the key comes again.
Criteria ==
  /\ RunAt("criteria") /\ run' = NoBranchRun
  /\ IF run.head \in meeting
       THEN succeeded' = succeeded \cup {run.head} /\ key' = "gone"
       ELSE UNCHANGED <<succeeded, key>>
  /\ UNCHANGED <<line, meeting, pushes, branchEvents, branchFaults, quiet>>

\* A call, the agent or a callback fails, or the process dies: the key stays.
RunFalls ==
  /\ ~RunAt("idle") /\ branchFaults < MaxBranchFaults /\ branchFaults' = branchFaults + 1
  /\ run' = NoBranchRun
  /\ \/ UNCHANGED succeeded
     \/ RunAt("criteria") /\ run.head \in meeting /\ succeeded' = succeeded \cup {run.head}
  /\ UNCHANGED <<line, meeting, key, pushes, branchEvents, quiet>>

\* What the run asks for was deleted meanwhile.
BranchMissing ==
  /\ RunAt("compare") \/ RunAt("head") \/ (RunAt("lease") /\ run.found)
  /\ ~line.exists /\ run' = NoBranchRun
  /\ UNCHANGED <<line, meeting, key, pushes, succeeded, branchEvents, branchFaults, quiet>>

RunProceeds ==
  \/ FindBranch \/ Compare \/ LeaseBranch \/ AgentPushes \/ getBranchHeadSHA \/ Criteria
  \/ BranchMissing

\* Others push to the branch, merge it, or delete it.  What was merged is no longer
\* ahead, also of what the run leased.
OthersTouch ==
  /\ line.exists /\ branchEvents < MaxBranchEvents /\ branchEvents' = branchEvents + 1
  /\ quiet' = FALSE
  /\ \/ /\ pushes' = pushes + 1
        /\ line' = [line EXCEPT !.head = pushes + 1, !.ahead = @ + 1]
        /\ meeting' \in {meeting, meeting \cup {pushes + 1}} /\ UNCHANGED run
     \/ /\ line' = [line EXCEPT !.ahead = 0, !.ours = 0]
        /\ run' = [run EXCEPT !.leased.ahead = 0, !.leased.ours = 0]
        /\ UNCHANGED <<meeting, pushes>>
     \/ line' = NoBranch /\ UNCHANGED <<meeting, pushes, run>>
  /\ UNCHANGED <<key, succeeded, branchFaults>>

BranchNext == RunProceeds \/ RunFalls \/ OthersTouch

-----------------------------------------------------------------------------

\* No more of the branch's commits are ours than the attempts allow, whatever
\* others push, merge or delete between the count and the push ("Max
\* reconciliation attempts").
AttemptsBounded == line.ours <= maxAttempts

\* The key leaves the queue when onSuccess was called for the head of its branch,
\* or when the attempts are used up: failures alone never complete it.
LeftRightly ==
  key = "gone" /\ quiet => line.head \in succeeded \/ line.ahead >= maxAttempts

BranchSound == AttemptsBounded /\ LeftRightly

=============================================================================

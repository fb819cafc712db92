----------------------------- MODULE PullRequest -----------------------------
(***************************************************************************)
(* The one pull request a reconciler keeps for a resource: the session of  *)
(* changemanager, its Upsert, the give-up comment, and around them the     *)
(* repository, its checks and the people who work on it.                   *)
(*                                                                         *)
(* A run is one reconcile: the snapshot NewSession takes and the calls     *)
(* that are left to make, each of them a step.  Runs of a resource do not  *)
(* overlap; a run may die, or a call may fail, between any two calls.      *)
(*                                                                         *)
(* A change is a version of what the resource asks for; 0 is none.  The    *)
(* ready-for-review and turn-limit labels, which no decision reads, the    *)
(* managed labels, assignees, titles and the reasoning log are left out.   *)
(***************************************************************************)
EXTENDS Integers, Sequences

CONSTANTS
  Versions,
  maxCommits,
  MaxEvents,   \* bound: what people, the base and a reverting agent do
  MaxFaults    \* bound: runs that die and calls that fail

ASSUME PullRequestAssumption ==
  /\ Versions \subseteq Nat \ {0} /\ Versions # {} /\ maxCommits \in Nat \ {0}
  /\ MaxEvents \in Nat /\ MaxFaults \in Nat

VARIABLES
  options,  \* of the reconciler
  wanted,   \* what the resource asks for
  pr,       \* the pull request of the resource's branch
  branch,   \* the branch, its checks and reviews
  s,        \* the session of the run, NoSession between runs
  todo,     \* the calls the run has yet to make
  spent,    \* history: iterations since the branch was rebuilt or a budget granted
  cut,      \* history: runs that pushed and did not write the body
  events,
  faults

prVars == <<options, wanted, pr, branch, s, todo, spent, cut, events, faults>>

Changes == Versions \cup {0}

NoPR == [open |-> FALSE, data |-> 0, baseline |-> 0, static |-> FALSE,
         gaveup |-> FALSE, comment |-> "none", taken |-> "no"]

NoBranch == [commits |-> 0, change |-> 0, checks |-> "green", merge |-> "clean", review |-> FALSE]

NoSession == [pr |-> NoPR, branch |-> NoBranch, asked |-> 0, expected |-> 0,
              iterate |-> FALSE, granted |-> FALSE]

Idle == todo = <<>>

\* The calls that write labels and comments, or close.
Written == {"labels", "label", "relabel", "comment", "gaveup", "unlabel", "uncomment", "close"}

\* The others.  Those of the last line are a Linear issue's.
Steps == Written \cup
  {"decide", "revalidate", "analyze", "push", "create", "refetch", "edit",
   "gates", "session", "ended", "final", "emptied", "delete", "upload", "cancel"}

PullRequests == [open : BOOLEAN, data : Changes, baseline : Nat, static : BOOLEAN,
                 gaveup : BOOLEAN, comment : {"none", "posted", "refused"},
                 taken : {"no", "label", "assigned"}]

BranchStates == [commits : Nat, change : Changes, checks : {"pending", "red", "green"},
                 merge : {"unknown", "conflict", "clean"}, review : BOOLEAN]

Sessions == [pr : PullRequests, branch : BranchStates,
             asked : Changes, expected : Changes, iterate : BOOLEAN, granted : BOOLEAN]

PullRequestTypeOK ==
  /\ wanted \in Changes /\ pr \in PullRequests /\ branch \in BranchStates /\ s \in Sessions
  /\ s.pr.baseline <= s.branch.commits
  /\ todo \in Seq(Steps) /\ spent \in Nat /\ cut \in Nat
  /\ events \in 0 .. MaxEvents /\ faults \in 0 .. MaxFaults

PullRequestInit ==
  /\ wanted = (CHOOSE v \in Versions : TRUE) /\ pr = NoPR /\ branch = NoBranch /\ s = NoSession /\ todo = <<>>
  /\ spent = 0 /\ cut = 0 /\ events = 0 /\ faults = 0

-----------------------------------------------------------------------------
(* A session.                                                              *)

AtMost(a, b) == IF a <= b THEN a ELSE b

\* Mutated form of Baseline: it is read as it was written.
BaselineAsWritten == pr.baseline

\* A stale baseline, left by a rebuilt branch, is cut to the commits there are.
Baseline == AtMost(pr.baseline, branch.commits)

\* What NewSession reads of an open pull request.
Snapshot(asked) ==
  [NoSession EXCEPT !.pr = IF pr.open THEN [pr EXCEPT !.baseline = Baseline] ELSE NoPR,
                    !.branch = IF pr.open THEN branch ELSE NoBranch,
                    !.asked = asked, !.expected = asked]

HasPR == s.pr.open
NeedsRebase == HasPR /\ s.branch.merge = "conflict"
IsUnknown == HasPR /\ s.branch.merge = "unknown"
HasUnresolvedReviews == HasPR /\ s.branch.review
HasFindings == HasPR /\ (s.branch.checks = "red" \/ s.branch.review)
HasPendingChecks == HasPR /\ s.branch.checks = "pending"
HasNoConflicts == HasPR /\ ~NeedsRebase /\ ~IsUnknown
ShouldSkip == HasPR /\ s.pr.taken # "no"

commitBudgetUsed(baseline) == s.branch.commits - (IF options.dynamic THEN baseline ELSE 0)

\* Mutated form of HitMaxCommits: the limit is passed by one commit.
HitMaxCommitsLate == HasPR /\ commitBudgetUsed(s.pr.baseline) > maxCommits

HitMaxCommits == HasPR /\ commitBudgetUsed(s.pr.baseline) >= maxCommits

Goes(steps) == todo' = steps /\ UNCHANGED s

\* The run is over.
Ends == todo' = <<>> /\ s' = NoSession

Then(steps) == IF steps = <<>> THEN Ends ELSE Goes(steps)

\* The call made, the next one.
Continue == Then(Tail(todo))

At(step) == ~Idle /\ Head(todo) = step

\* The comment first, the label second.
Surface == <<"comment", "gaveup">>

\* The label first, the comment second.
Clear == <<"unlabel", "uncomment">>

CloseAnyOutstanding == IF HasPR THEN <<"close">> ELSE <<>>

\* needsRefresh, for the data the body should hold.
NeedsRefresh(expected) ==
  \/ ~HasPR \/ s.pr.data # expected \/ NeedsRebase \/ HasFindings
  \/ ~IsUnknown /\ ~s.pr.static

\* Upsert up to the changes: there is something to push, or GitHub is still at
\* the mergeability, or the pull request is up to date.
Upsert(expected) == IF NeedsRefresh(expected) THEN <<"push">>
                    ELSE IF IsUnknown THEN <<>>
                    ELSE Clear

-----------------------------------------------------------------------------
(* The calls of a session.                                                 *)

\* The force push of the commit, on top of the branch or in its place.  It answers
\* the reviews: a thread that the agent did not resolve is a new Review, one of the
\* MaxEvents, because a budget it renews may be renewed for ever.
Pushed(change) ==
  branch' = [commits |-> IF s.iterate THEN branch.commits + 1 ELSE 1, change |-> change,
             checks |-> "pending", merge |-> "unknown", review |-> FALSE]

\* After the push: an empty diff closes the pull request, else it is written.
AfterPush(change) ==
  IF change = 0 THEN IF HasPR THEN CloseAnyOutstanding \o Clear ELSE <<>>
  ELSE IF HasPR THEN <<"refetch", "edit", "relabel">> \o Clear
  ELSE <<"create", "label">> \o Clear

\* The agent changed the files.
Push(change, next) ==
  /\ At("push") /\ Pushed(change) /\ Then(next)
  /\ spent' = IF ~s.iterate THEN 0
              ELSE IF s.granted THEN 1 ELSE spent + 1
  /\ UNCHANGED <<options, wanted, pr, cut, faults>>

\* The agent left the files as they were, and may say why.
NoChanges ==
  /\ At("push")
  /\ \/ Ends
     \/ HasPR /\ Goes(Surface)
  /\ UNCHANGED <<options, wanted, pr, branch, spent, cut, events, faults>>

Create ==
  /\ At("create")
  /\ pr' = [NoPR EXCEPT !.open = TRUE, !.data = s.expected, !.baseline = s.pr.baseline]
  /\ Continue
  /\ UNCHANGED <<options, wanted, branch, spent, cut, events, faults>>

\* The skip label may have been put meanwhile: the branch was pushed, and the
\* body stays as it is.
Refetch ==
  /\ At("refetch")
  /\ IF pr.taken = "label" THEN Ends /\ cut' = cut + 1
     ELSE Continue /\ UNCHANGED cut
  /\ UNCHANGED <<options, wanted, pr, branch, spent, events, faults>>

Edit ==
  /\ At("edit")
  /\ pr' = [pr EXCEPT !.data = s.expected, !.baseline = s.pr.baseline]
  /\ Continue
  /\ UNCHANGED <<options, wanted, branch, spent, cut, events, faults>>

\* AddLabels, ApplyGaveUp, ClearGaveUp, the marker comment, closing.  A pull
\* request that was closed is forgotten, with what a run still writes to it.
LabelCall ==
  /\ ~Idle /\ Head(todo) \in Written
  /\ LET step == Head(todo) IN
     /\ pr' = IF ~pr.open \/ step = "close" THEN NoPR
              ELSE [pr EXCEPT !.static = @ \/ step \in {"labels", "label", "relabel"},
                              !.comment = IF step = "comment" THEN "posted"
                                          ELSE IF step = "uncomment" THEN "none" ELSE @,
                              !.gaveup = (@ \/ step = "gaveup")
                                         /\ ~(step = "unlabel" /\ s.pr.gaveup)]
     /\ IF step = "labels" THEN todo' = Tail(todo) /\ s' = [s EXCEPT !.pr.static = TRUE]
        ELSE Continue
  /\ UNCHANGED <<options, wanted, branch, spent, cut, events, faults>>

\* The bot may not write comments (a 403): that is logged and tolerated, and the
\* label is put all the same.  A comment that is there already stays.
CommentForbidden ==
  /\ At("comment") /\ pr.open /\ pr.comment # "posted"
  /\ faults < MaxFaults /\ faults' = faults + 1
  /\ pr' = [pr EXCEPT !.comment = "refused"] /\ Continue
  /\ UNCHANGED <<options, wanted, branch, spent, cut, events>>

\* Where a branch was pushed and its pull request is still to be written, or
\* to be closed for an empty diff.
BodyDue == ~Idle /\ (Head(todo) \in {"refetch", "edit"} \/ (Head(todo) = "close" /\ Len(todo) > 1))

\* The run dies, or a call fails whose error ends the run.
RunDies ==
  /\ ~Idle /\ faults < MaxFaults /\ faults' = faults + 1 /\ Ends
  /\ cut' = IF BodyDue THEN cut + 1 ELSE cut
  /\ UNCHANGED <<options, wanted, pr, branch, spent, events>>

\* A failure to clear the give-up is logged: a label that could not be removed
\* keeps its comment, and the run goes on.
ClearFails ==
  /\ ~Idle /\ faults < MaxFaults /\ faults' = faults + 1
  /\ \/ At("unlabel") /\ Then(SubSeq(todo, 3, Len(todo)))
     \/ At("uncomment") /\ Continue
  /\ UNCHANGED <<options, wanted, pr, branch, spent, cut, events>>

SessionNext ==
  \/ NoChanges \/ Create \/ Refetch \/ Edit \/ LabelCall \/ CommentForbidden
  \/ RunDies \/ ClearFails

-----------------------------------------------------------------------------
(* The repository and the people.                                          *)

\* Checks finish, and GitHub works out whether the branch merges; what becomes
\* of a branch without a pull request shows when it has one.
ChecksFinish ==
  /\ pr.open /\ branch.checks = "pending"
  /\ \E c \in {"red", "green"} : branch' = [branch EXCEPT !.checks = c]
  /\ UNCHANGED <<options, wanted, pr, s, todo, spent, cut, events, faults>>

MergeabilityKnown ==
  /\ pr.open /\ branch.merge = "unknown"
  /\ branch' = [branch EXCEPT !.merge = "clean"]
  /\ UNCHANGED <<options, wanted, pr, s, todo, spent, cut, events, faults>>

AnEvent == events < MaxEvents /\ events' = events + 1

\* The base moves: the change it wants is another or none.
BaseMoves ==
  /\ AnEvent /\ wanted' \in Changes \ {wanted}
  /\ UNCHANGED <<options, pr, branch, s, todo, spent, cut, faults>>

Conflicts ==
  /\ AnEvent /\ pr.open /\ branch.merge # "conflict"
  /\ branch' = [branch EXCEPT !.merge = "conflict"]
  /\ UNCHANGED <<options, wanted, pr, s, todo, spent, cut, faults>>

\* Someone reviews, or a thread was not resolved by the last push.
Review ==
  /\ AnEvent /\ pr.open /\ ~branch.review
  /\ branch' = [branch EXCEPT !.review = TRUE]
  /\ UNCHANGED <<options, wanted, pr, s, todo, spent, cut, faults>>

\* Someone takes the pull request over, or gives it back.
TakeOver ==
  /\ AnEvent /\ pr.open
  /\ \E t \in {"no", "label", "assigned"} \ {pr.taken} : pr' = [pr EXCEPT !.taken = t]
  /\ UNCHANGED <<options, wanted, branch, s, todo, spent, cut, faults>>

\* Someone merges it, or closes it.
MergeOrClose ==
  /\ AnEvent /\ pr.open /\ pr' = NoPR
  /\ \/ UNCHANGED wanted
     \/ branch.change = wanted /\ wanted' = 0
  /\ UNCHANGED <<options, branch, s, todo, spent, cut, faults>>

\* The agent takes its change back: the commits come to nothing.
AgentReverts == AnEvent /\ Push(0, AfterPush(0))

Around == ChecksFinish \/ MergeabilityKnown \/ Conflicts \/ Review \/ TakeOver

-----------------------------------------------------------------------------
(* What a pull request promises.                                           *)

\* A pull request with the give-up label has the comment that explains it, unless
\* GitHub forbade to post one, whatever other call of Surface or Clear fails
\* (giveup.go, skipMarkerCommentIfForbidden).
GaveUpExplained == pr.open /\ pr.gaveup => pr.comment # "none"

\* "a labeled PR always has a matching give-up comment" (giveup.go).
\* The code does not keep it: README, section 7.
AlwaysExplained == pr.open /\ pr.gaveup => pr.comment = "posted"

\* The agent iterates at most as often as its budget says, counted again from a
\* rebuilt branch and from a budget that a review granted.  The budget that
\* moves is kept in the body, so it counts one more for each run that died
\* before it wrote the body; the fixed one counts none.
BudgetKept == spent <= (IF options.dynamic THEN maxCommits + cut ELSE maxCommits - 1)

\* The body describes the change the branch holds, between runs, unless a run
\* died or was refused between its push and its edit.
BodyDescribesBranch == Idle /\ pr.open /\ cut = 0 => pr.data = branch.change

\* What a reader of the pull request is told is true: the label and the body.
TellsTheTruth == GaveUpExplained /\ BodyDescribesBranch

=============================================================================

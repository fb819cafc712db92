--------------------------- MODULE IssueReconciler ---------------------------
(***************************************************************************)
(* The reconciler of an issue (metareconciler): an agent does what the     *)
(* issue's body asks for, and the pull request is closed when the issue is *)
(* closed or loses its required label (the change 0).                      *)
(*                                                                         *)
(* The transition events it emits, the start comment, drafts, assignees    *)
(* and the labels derived from results are left out.                       *)
(***************************************************************************)
EXTENDS PullRequest

\* The issue's reconciler has none of the path's options.
PlainOptions == [dynamic |-> FALSE, revalidate |-> FALSE, requeueUnknown |-> FALSE]

\* reconcileIssue fetches the issue, then its pull request.
StartIssue ==
  /\ Idle
  /\ s' = Snapshot(wanted)
  /\ ~ShouldSkip'
  /\ todo' = <<"decide">>
  /\ UNCHANGED <<options, wanted, pr, branch, spent, cut, events, faults>>

Unwanted == s.asked = 0

UpsertIssue(iterate) ==
  IF Upsert(s.asked) = <<>> THEN Ends
  ELSE s' = [s EXCEPT !.iterate = iterate] /\ todo' = Upsert(s.asked)

\* Mutated form of DecideIssue: a pull request past its limit, or green, is
\* left before the issue is looked at.
DecideIssueLate ==
  /\ At("decide")
  /\ IF NeedsRebase /\ ~Unwanted THEN UpsertIssue(FALSE)
     ELSE IF HitMaxCommits THEN Ends
     ELSE IF Unwanted THEN Then(IF HasPR THEN Clear \o CloseAnyOutstanding ELSE <<>>)
     ELSE IF HasFindings THEN UpsertIssue(TRUE)
     ELSE IF HasPendingChecks THEN Ends
     ELSE IF HasNoConflicts THEN Goes(Clear)
     ELSE UpsertIssue(FALSE)
  /\ UNCHANGED <<options, wanted, pr, branch, spent, cut, events, faults>>

\* The switch of reconcileIssue: an issue that asks for nothing comes first.
DecideIssue ==
  /\ At("decide")
  /\ IF Unwanted THEN Then(IF HasPR THEN Clear \o CloseAnyOutstanding ELSE <<>>)
     ELSE IF NeedsRebase THEN UpsertIssue(FALSE)
     ELSE IF HitMaxCommits THEN Ends
     ELSE IF HasFindings THEN UpsertIssue(TRUE)
     ELSE IF HasPendingChecks THEN Ends
     ELSE IF HasNoConflicts THEN Goes(Clear)
     ELSE UpsertIssue(FALSE)
  /\ UNCHANGED <<options, wanted, pr, branch, spent, cut, events, faults>>

PushIssue == Push(s.asked, AfterPush(s.asked)) /\ UNCHANGED events

IssueRuns == StartIssue \/ DecideIssue \/ PushIssue

=============================================================================

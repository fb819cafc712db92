--------------------------- MODULE PathReconciler ---------------------------
(***************************************************************************)
(* The reconciler of a path (metapathreconciler): an analyzer says what    *)
(* the path wants changed, an agent changes it, and the pull request is    *)
(* iterated on while its checks or its reviewers find something.           *)
(***************************************************************************)
EXTENDS PullRequest

CONSTANT PathOptions

ASSUME PathAssumption ==
  PathOptions \subseteq [dynamic : BOOLEAN, revalidate : BOOLEAN, requeueUnknown : BOOLEAN]

\* reconcilePath up to the static labels.  Nothing of a pull request that
\* someone has taken over is touched.
StartPath ==
  /\ Idle
  /\ s' = Snapshot(0)
  /\ ~ShouldSkip'
  /\ todo' = IF pr.open /\ ~pr.static THEN <<"labels", "decide">> ELSE <<"decide">>
  /\ UNCHANGED <<options, wanted, pr, branch, spent, cut, events, faults>>

\* Mutated form of Iterate: on the default branch, which makes a first commit.
IterateAfresh(granted) ==
  /\ s' = [s EXCEPT !.granted = granted, !.asked = s.pr.data, !.expected = s.pr.data,
                    !.pr.baseline = IF granted THEN s.branch.commits ELSE @]
  /\ todo' = IF options.revalidate THEN <<"revalidate">> ELSE <<"push">>

\* On the branch of the pull request, with its own data; first the base is
\* asked whether it still wants the change.
Iterate(granted) ==
  /\ s' = [s EXCEPT !.iterate = TRUE, !.granted = granted, !.expected = s.pr.data,
                    !.pr.baseline = IF granted THEN s.branch.commits ELSE @]
  /\ todo' = IF options.revalidate THEN <<"revalidate">> ELSE <<"push">>

\* The switch of reconcilePath.  Past the limit, an unresolved review grants a
\* budget where budgets are dynamic.
DecidePath ==
  /\ At("decide")
  /\ IF NeedsRebase THEN Goes(<<"analyze">>)
     ELSE IF HitMaxCommits
       THEN IF HasUnresolvedReviews /\ options.dynamic THEN Iterate(TRUE) ELSE Ends
     ELSE IF HasFindings THEN Iterate(FALSE)
     ELSE IF HasPendingChecks \/ (IsUnknown /\ options.requeueUnknown) THEN Ends
     ELSE IF HasNoConflicts THEN Goes(Clear)
     ELSE Goes(<<"analyze">>)
  /\ UNCHANGED <<options, wanted, pr, branch, spent, cut, events, faults>>

\* needsRefresh of the reconciler: the base wants nothing any more, or the
\* branch is behind what it wants, or it is on target.  The analyzer may also
\* want a change of a branch that holds what the base wants.
Revalidate ==
  /\ At("revalidate")
  /\ IF wanted = 0 THEN Goes(Clear \o CloseAnyOutstanding)
     ELSE \/ todo' = <<"analyze">> /\ s' = [s EXCEPT !.iterate = FALSE, !.granted = FALSE]
          \/ branch.change = wanted /\ Goes(<<"push">>)
  /\ UNCHANGED <<options, wanted, pr, branch, spent, cut, events, faults>>

\* Mutated form of Expected: the data a body already holds are used again.
ExpectedAsStored == IF HasPR THEN s.pr.data ELSE wanted

\* What the request, and with it the body's data, is built from.
Expected == wanted

\* The analyzer runs on the default branch.
Analyze ==
  /\ At("analyze")
  /\ IF wanted = 0 THEN IF HasPR THEN Goes(Clear \o CloseAnyOutstanding) ELSE Ends
     ELSE IF Upsert(Expected) = <<>> THEN Ends
     ELSE /\ s' = [s EXCEPT !.asked = wanted, !.expected = Expected]
          /\ todo' = Upsert(Expected)
  /\ UNCHANGED <<options, wanted, pr, branch, spent, cut, events, faults>>

\* A fix for the checks leaves the change of the branch what it is.
PushPath ==
  LET change == IF s.iterate THEN branch.change ELSE s.asked IN
  Push(change, AfterPush(change)) /\ UNCHANGED events

PathRuns == StartPath \/ DecidePath \/ Revalidate \/ Analyze \/ PushPath

-----------------------------------------------------------------------------

\* A pull request that stays open gets its static labels, also when the run
\* that opened it died before it labelled it: every run first adds what is
\* missing, before any of its early returns.
Labelled == ~pr.open \/ pr.static \/ pr.taken # "no"

=============================================================================

-------------------------- MODULE LinearReconciler --------------------------
(***************************************************************************)
(* The reconciler of a Linear issue (linearreconciler/metareconciler): the *)
(* pull request of an issue whose own state is kept in an attachment,      *)
(* which every save deletes and uploads anew.  A run reads the issue, with *)
(* its attachments, once; every manager of the run loads that copy.        *)
(*                                                                         *)
(* The display fields of the state, the gate that saves Linear's workflow  *)
(* state among them, the bot's comments, the pending checks and the        *)
(* history are left out.  A save callback that cancels an issue whose pull *)
(* request was closed is the bot's, as the gates expect it.                *)
(*                                                                         *)
(* The issue has the label that the gate may require, and its state can be *)
(* loaded.  A pull request that the state names can be looked up: where    *)
(* its URL does not parse or GitHub has it no more, the code goes on to    *)
(* make another one.                                                       *)
(***************************************************************************)
EXTENDS PullRequest

CONSTANT maxNoDiffIterations

ASSUME LinearAssumption == maxNoDiffIterations \in Nat \ {0}

VARIABLES
  workflow,    \* of the issue: open or terminal
  stored,      \* the state attachment
  view,        \* the run's copy of both, and what it saves
  fates,       \* of the issue's pull requests, in order
  reactivated, \* history: someone reopened the issue since the last pull request
  lost,        \* history: a run died with something unsaved, or forgot an end
  barren       \* history: agent runs since the counter was reset that changed nothing

linearVars == <<workflow, stored, view, fates, reactivated, lost, barren>>

NoState == [exists |-> FALSE, status |-> "none", mode |-> "none", url |-> 0,
            findings |-> {}, idle |-> 0]
NoView == [workflow |-> "open", state |-> NoState, draft |-> NoState]

States == [exists : BOOLEAN, status : {"none", "active", "failed", "complete"},
           mode : {"none", "NoDiff", "NoProgress", "PRClosed", "MaxTurns"},
           url : Nat, findings : SUBSET {"red", "review", "earlier"}, idle : Nat]

LinearTypeOK ==
  /\ workflow \in {"open", "terminal"} /\ stored \in States
  /\ view \in [workflow : {"open", "terminal"}, state : States, draft : States]
  /\ fates \in Seq({"open", "merged", "closed", "emptied"})
  /\ reactivated \in BOOLEAN /\ lost \in BOOLEAN /\ barren \in Nat
  /\ stored.mode # "none" => stored.status = "failed"
  /\ stored.url <= Len(fates)

LinearInit ==
  /\ workflow = "open" /\ stored = NoState /\ view = NoView /\ fates = <<>>
  /\ reactivated = FALSE /\ lost = FALSE /\ barren = 0

\* A copy is dropped with the run that made it.
Seen(v) == view' = IF todo' = <<>> THEN NoView ELSE v

-----------------------------------------------------------------------------
(* Saving.                                                                 *)

\* A save writes only what differs from what was loaded, or a first state.
Dirty(old, new) == ~old.exists \/ old # new

\* The mode of a failure goes with it.
Tidy(st) == [st EXCEPT !.exists = TRUE, !.mode = IF st.status = "failed" THEN @ ELSE "none"]

\* Save what was made of the state old, and go on with the steps after.
SaveThen(old, new, after) ==
  LET steps == IF Dirty(old, Tidy(new)) THEN <<"delete", "upload">> \o after ELSE after IN
  Then(steps) /\ Seen([view EXCEPT !.draft = Tidy(new)])

\* The next manager of the run loads the copy again.
Save(new) == SaveThen(view.state, new, <<>>)

Quiet == UNCHANGED <<options, wanted, pr, branch, spent, cut, events, faults>>

Delete ==
  /\ At("delete") /\ stored' = NoState /\ Continue /\ Seen(view) /\ Quiet
  /\ UNCHANGED <<workflow, fates, reactivated, lost, barren>>

Upload ==
  /\ At("upload") /\ stored' = view.draft /\ Continue /\ Seen(view) /\ Quiet
  /\ UNCHANGED <<workflow, fates, reactivated, lost, barren>>

\* The bot's callback cancels the issue.
Cancel ==
  /\ At("cancel") /\ workflow' = "terminal" /\ Continue /\ Seen(view) /\ Quiet
  /\ UNCHANGED <<stored, fates, reactivated, lost, barren>>

-----------------------------------------------------------------------------
(* The gates.                                                              *)

\* What is left of a state when someone reopened an issue that was canceled
\* for its closed pull request.
Reset(st) == [st EXCEPT !.status = "active", !.mode = "none", !.url = 0,
                        !.findings = {}, !.idle = 0]

Reactivated(st, flow) == flow = "open" /\ st.status = "failed" /\ st.mode = "PRClosed"

\* The state after the gates.
Existing == IF Reactivated(view.state, view.workflow) THEN Reset(view.state) ELSE view.state

\* Mirroring Linear's workflow state and the gate on a label are left out.
StartLinear ==
  /\ Idle
  /\ todo' = (IF Reactivated(stored, workflow) THEN <<"delete", "upload">> ELSE <<>>)
               \o <<"gates">>
  /\ view' = [workflow |-> workflow, state |-> stored,
              draft |-> IF Reactivated(stored, workflow) THEN Reset(stored) ELSE NoState]
  /\ s' = [NoSession EXCEPT !.asked = wanted]
  /\ barren' = IF Reactivated(stored, workflow) THEN 0 ELSE barren
  /\ Quiet /\ UNCHANGED <<workflow, stored, fates, reactivated, lost>>

\* A failure to save the reset is logged, and the run goes on.
GateSaveFails ==
  /\ ~Idle /\ Head(todo) \in {"delete", "upload"} /\ todo[Len(todo)] = "gates"
  /\ faults < MaxFaults /\ faults' = faults + 1
  /\ lost' = (lost \/ At("upload"))
  /\ Goes(<<"gates">>) /\ Seen(view)
  /\ UNCHANGED <<options, wanted, pr, branch, spent, cut, events,
                 workflow, stored, fates, reactivated, barren>>

GivenUp == Existing.status = "failed" /\ Existing.mode \in {"NoDiff", "NoProgress"}

\* A closed issue and one that was given up are left alone.
Gates ==
  /\ At("gates")
  /\ Then(IF view.workflow = "terminal" \/ GivenUp THEN <<>> ELSE <<"session">>)
  /\ Seen(view) /\ Quiet /\ UNCHANGED <<workflow, stored, fates, reactivated, lost, barren>>

\* Mutated form of Ended: a pull request is looked up while the state is active.
EndedIfActive == ~s'.pr.open /\ Existing.url # 0 /\ Existing.status = "active"

\* The pull request the state names is not open any more, as far as the session
\* shows.
Ended == ~s'.pr.open /\ Existing.url # 0

OpenSession ==
  /\ At("session")
  /\ s' = Snapshot(s.asked)
  /\ todo' = IF Ended THEN <<"ended">> ELSE <<"decide">>
  /\ Seen(view) /\ Quiet /\ UNCHANGED <<workflow, stored, fates, reactivated, lost, barren>>

\* maybeTransitionFromPRState, of a pull request that GitHub still has.  The manager
\* of the gates saves.
FromPRState ==
  /\ At("ended")
  /\ LET fate == fates[Existing.url] IN
     CASE fate = "merged" ->
            SaveThen(Existing, [Existing EXCEPT !.status = "complete"], <<>>)
       [] fate \in {"closed", "emptied"} ->
            SaveThen(Existing, [Existing EXCEPT !.status = "failed", !.mode = "PRClosed"],
                     <<"cancel">>)
       [] OTHER -> Goes(<<"decide">>) /\ Seen(view)
  /\ Quiet /\ UNCHANGED <<workflow, stored, fates, reactivated, lost, barren>>

-----------------------------------------------------------------------------
(* The switch of reconcileIssue.                                           *)

snapshotFindings == (IF s.branch.checks = "red" THEN {"red"} ELSE {})
                    \cup (IF s.branch.review THEN {"review"} ELSE {})

\* Findings stick: none does not replace some.
WithFindings(st) == IF snapshotFindings = {} THEN st
                    ELSE [st EXCEPT !.findings = snapshotFindings]

\* saveNoDiffIterationState.
NoProgress(st) ==
  LET next == st.idle + 1 IN
  [WithFindings(st) EXCEPT
     !.idle = next,
     !.status = IF next >= maxNoDiffIterations THEN "failed" ELSE @,
     !.mode = IF next >= maxNoDiffIterations THEN "NoProgress" ELSE @]

\* transitionToNoDiff.
NoDiff(st) == [st EXCEPT !.status = "failed", !.mode = "NoDiff"]

\* The agent has already seen these findings and this description.
Unchanged ==
  /\ Existing.findings # {} /\ Existing.findings = snapshotFindings
  /\ s.pr.data = s.asked

UpsertLinear(iterate) ==
  /\ s' = [s EXCEPT !.iterate = iterate]
  /\ todo' = IF NeedsRefresh(s.asked) THEN <<"push">> ELSE <<"final">>
  /\ Seen(view)

DecideLinear ==
  /\ At("decide")
  /\ IF ShouldSkip THEN Ends /\ Seen(view)
     ELSE IF NeedsRebase THEN UpsertLinear(FALSE)
     ELSE IF HitMaxCommits
       THEN Save([view.state EXCEPT !.status = "failed", !.mode = "MaxTurns",
                                    !.url = IF @ = 0 THEN Len(fates) ELSE @])
     ELSE IF HasFindings
       THEN IF Unchanged THEN Save(NoProgress(view.state)) ELSE UpsertLinear(TRUE)
     ELSE IF HasPendingChecks THEN Ends /\ Seen(view)
     ELSE IF HasNoConflicts THEN UpsertLinear(TRUE)
     ELSE IF ~HasPR THEN UpsertLinear(FALSE)
     ELSE Ends /\ Seen(view)
  /\ Quiet /\ UNCHANGED <<workflow, stored, fates, reactivated, lost, barren>>

-----------------------------------------------------------------------------
(* The agent, and what is saved after it.                                  *)

AfterPushLinear(change) ==
  IF change = 0 THEN CloseAnyOutstanding \o <<"emptied">>
  ELSE IF HasPR THEN <<"refetch", "edit", "relabel", "final">>
  ELSE <<"create", "label", "final">>

\* The checks of a new commit have identifiers of their own.
Rerun(findings) == IF findings = {} THEN {} ELSE {"earlier"}

PushLinear(change) ==
  /\ Push(change, AfterPushLinear(change))
  /\ stored' = [stored EXCEPT !.findings = Rerun(@)]
  /\ Seen([view EXCEPT !.state.findings = Rerun(@)])
  /\ UNCHANGED <<workflow, fates, reactivated, lost, barren>>

\* A pass that leaves files as they are counts where it was to iterate, and
\* ends the issue where it started from the default branch.
NoChangesLinear ==
  /\ At("push")
  /\ IF s.iterate THEN Save(NoProgress(view.state))
     ELSE Save(NoDiff(view.state))
  /\ barren' = barren + 1
  /\ Quiet /\ UNCHANGED <<workflow, stored, fates, reactivated, lost>>

CreateLinear ==
  /\ Create /\ fates' = Append(fates, "open") /\ reactivated' = FALSE
  /\ Seen(view) /\ UNCHANGED <<workflow, stored, lost, barren>>

\* The reconcile went well.  The pull request is the one Upsert returns: none
\* where the commits came to nothing.  The findings are those of the session,
\* thus of the commit before the push.
Final ==
  /\ ~Idle /\ Head(todo) \in {"final", "emptied"}
  /\ Save([view.state EXCEPT !.status = "active", !.idle = 0,
             !.url = IF At("emptied") THEN 0 ELSE Len(fates),
             !.findings = IF snapshotFindings = {} THEN @ ELSE {"earlier"}])
  /\ barren' = 0
  /\ Quiet /\ UNCHANGED <<workflow, stored, fates, reactivated, lost>>

\* Refetch, Edit, labels and closing, which does nothing to a pull request that
\* someone ended meanwhile; the run forgets it all the same.
CallLinear ==
  /\ Refetch \/ Edit \/ LabelCall
  /\ fates' = IF At("close") /\ pr.open THEN [fates EXCEPT ![Len(fates)] = "emptied"] ELSE fates
  /\ lost' = (lost \/ (At("close") /\ ~pr.open))
  /\ Seen(view) /\ UNCHANGED <<workflow, stored, reactivated, barren>>

\* The last pull request is not the one the state names.
Unsaved == fates # <<>> /\ fates[Len(fates)] # "emptied" /\ stored.url # Len(fates)

LinearDies ==
  /\ RunDies /\ Seen(view)
  /\ lost' = (lost \/ Head(todo) \in {"upload", "cancel"} \/ Unsaved)
  /\ UNCHANGED <<workflow, stored, fates, reactivated, barren>>

LinearRuns ==
  \/ StartLinear \/ Gates \/ OpenSession \/ FromPRState \/ DecideLinear \/ NoChangesLinear
  \/ PushLinear(s.asked) /\ UNCHANGED events
  \/ CreateLinear \/ CallLinear \/ Final \/ Delete \/ Upload \/ Cancel

-----------------------------------------------------------------------------
(* The people.                                                             *)

LinearReverts == AnEvent /\ PushLinear(0)

DescriptionEdited ==
  /\ AnEvent /\ wanted' \in Versions \ {wanted}
  /\ UNCHANGED <<options, pr, branch, s, todo, spent, cut, faults, linearVars>>

LinearMergeOrClose ==
  /\ AnEvent /\ pr.open /\ pr' = NoPR
  /\ \E fate \in {"merged", "closed"} : fates' = [fates EXCEPT ![Len(fates)] = fate]
  /\ UNCHANGED <<options, wanted, branch, s, todo, spent, cut, faults,
                 workflow, stored, view, reactivated, lost, barren>>

IssueMoves ==
  /\ AnEvent
  /\ \/ workflow = "open" /\ workflow' = "terminal" /\ UNCHANGED reactivated
     \/ workflow = "terminal" /\ workflow' = "open" /\ reactivated' = TRUE
  /\ UNCHANGED <<options, wanted, pr, branch, s, todo, spent, cut, faults,
                 stored, view, fates, lost, barren>>

LinearAround == DescriptionEdited \/ LinearMergeOrClose \/ IssueMoves

-----------------------------------------------------------------------------

\* A pull request that was merged, or that someone closed, is followed by
\* another only when someone reopens the issue: the bot does not undo what a
\* person decided.  It may where a run died with its save half done, or where
\* the person decided between its push of an empty change and its closing.
EndsRespected ==
  Len(fates') > Len(fates) /\ fates # <<>> /\ fates[Len(fates)] # "emptied"
    => reactivated \/ lost

\* The agent is not run again and again to change nothing: a new count starts
\* only where a state was lost.
BarrenBounded == barren <= maxNoDiffIterations * (faults + 1)

=============================================================================

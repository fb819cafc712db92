----------------------------- MODULE Reconcilers -----------------------------
(***************************************************************************)
(* The pull request of a path or of an issue, under its reconciler.        *)
(***************************************************************************)
EXTENDS PathReconciler, IssueReconciler, LinearReconciler

VARIABLE resource

reconcilerVars == <<resource, prVars, linearVars>>

ReconcilersInit ==
  /\ PullRequestInit /\ LinearInit
  /\ \/ resource = "path" /\ options \in PathOptions
     \/ resource \in {"issue", "linear"} /\ options = PlainOptions

\* A step of a resource's own reconciler, or of the people around it.
PathDoes(A)   == resource = "path" /\ A /\ UNCHANGED <<resource, linearVars>>
IssueDoes(A)  == resource = "issue" /\ A /\ UNCHANGED <<resource, linearVars>>
LinearDoes(A) == resource = "linear" /\ A /\ UNCHANGED resource
AnyDoes(A)    == A /\ UNCHANGED <<resource, linearVars>>

People == BaseMoves \/ MergeOrClose \/ AgentReverts

ReconcilersNext ==
  \/ PathDoes(PathRuns \/ SessionNext \/ People)
  \/ IssueDoes(IssueRuns \/ SessionNext \/ People)
  \/ LinearDoes(LinearRuns \/ LinearDies \/ GateSaveFails \/ LinearReverts \/ LinearAround)
  \/ AnyDoes(Around)

ReconcilersSpec == ReconcilersInit /\ [][ReconcilersNext]_reconcilerVars

\* The queue brings the key again, a run goes on with its calls, and GitHub
\* finishes what it started.
RunGoesOn ==
  \/ PathDoes(PathRuns \/ Create \/ Refetch \/ Edit \/ LabelCall)
  \/ IssueDoes(IssueRuns \/ Create \/ Refetch \/ Edit \/ LabelCall)
  \/ LinearDoes(LinearRuns)

FairReconcilers ==
  /\ ReconcilersSpec
  /\ WF_reconcilerVars(RunGoesOn)
  /\ WF_reconcilerVars(AnyDoes(ChecksFinish)) /\ WF_reconcilerVars(AnyDoes(MergeabilityKnown))

TypeOK == /\ resource \in {"path", "issue", "linear"} /\ PullRequestTypeOK /\ LinearTypeOK
          /\ options \in PathOptions \cup {PlainOptions}

-----------------------------------------------------------------------------

\* No step undoes what a person decided (EndsRespected).
EndsStay == [][EndsRespected]_reconcilerVars

\* A path's pull request is labelled again and again, whichever run died; and an
\* issue that asks for nothing any more loses its pull request, unless someone has
\* taken it over.  What a run left half done, a later one finishes.
Converges ==
  []<>( /\ resource = "path" => Labelled
        /\ resource = "issue" => wanted # 0 \/ ~pr.open \/ pr.taken # "no" )

\* Neither commits nor runs without any exceed their budget.
RunsBounded == BudgetKept /\ BarrenBounded

\* With a fixed budget, and without the revalidation that may rebuild a branch
\* again and again, the bot stops pushing once the people, the base and the
\* agent's changes of mind leave it alone: also where the checks stay red.
PushesCease ==
  ~options.dynamic /\ ~options.revalidate
    => <>[][~(At("push") /\ branch' # branch)]_reconcilerVars

-----------------------------------------------------------------------------
(* The inductive invariant, which the proofs of Reconcilers_proofs rest on. *)

\* The call a run is at.
First(t) == IF t = <<>> THEN "none" ELSE Head(t)
Call == First(todo)

\* What may follow a call, and what may be the last one of a run.
Follows ==
  {<<"labels", "decide">>, <<"unlabel", "uncomment">>, <<"uncomment", "close">>,
   <<"close", "unlabel">>, <<"close", "emptied">>, <<"refetch", "edit">>, <<"edit", "relabel">>,
   <<"relabel", "unlabel">>, <<"relabel", "final">>, <<"create", "label">>,
   <<"label", "unlabel">>, <<"label", "final">>, <<"comment", "gaveup">>,
   <<"delete", "upload">>, <<"upload", "gates">>, <<"upload", "cancel">>}

LastCalls == {"decide", "revalidate", "analyze", "push", "uncomment", "close", "gaveup", "upload",
              "cancel", "gates", "session", "ended", "final", "emptied"}

WellFormed(t) ==
  /\ \A i \in 1 .. Len(t) : i < Len(t) => <<t[i], t[i + 1]>> \in Follows
  /\ t # <<>> => t[Len(t)] \in LastCalls

\* The calls of a Linear issue's runs, and of the others.
LinearCalls == {"gates", "session", "ended", "decide", "push", "create", "label", "refetch", "edit",
                "relabel", "close", "emptied", "final", "delete", "upload", "cancel"}
GitHubCalls == (Steps \ LinearCalls) \cup
               {"decide", "push", "create", "label", "refetch", "edit", "relabel", "close"}

CallsOf == IF resource = "linear" THEN LinearCalls ELSE GitHubCalls

PlansKept == todo \in Seq(CallsOf) /\ WellFormed(todo)

\* Before a run's push.
Deciding == Call \in {"labels", "ended", "decide", "revalidate", "analyze", "push"}

\* What a run has decided.
DecisionsKept ==
  /\ resource # "path" => options = PlainOptions
  /\ Call \in {"labels", "ended", "decide", "analyze"} => ~s.iterate /\ ~s.granted
  /\ Call = "revalidate" => s.iterate
  /\ Call \in {"revalidate", "push"} /\ s.iterate =>
       s.pr.open /\ (s.granted \/ commitBudgetUsed(s.pr.baseline) < maxCommits)
  /\ s.granted => options.dynamic /\ s.iterate
  /\ (Deciding \/ Call = "create") /\ ~s.pr.open => ~pr.open
  /\ Call = "create" => ~s.pr.open
  /\ Call = "push" => s.expected = IF resource = "path" /\ s.iterate THEN s.pr.data ELSE s.asked
  /\ Call = "revalidate" => s.expected = s.pr.data
  /\ resource \in {"issue", "linear"} /\ Deciding => s.expected = s.asked

\* The label, its comment, and what the run has read of them.
LabelsKept ==
  /\ GaveUpExplained
  /\ resource = "linear" => ~pr.gaveup
  /\ pr.open => /\ Call = "gaveup" => pr.comment # "none"
                /\ Call = "uncomment" => ~pr.gaveup
                /\ Call # "none" /\ pr.gaveup => s.pr.gaveup

\* The change of the branch, in the body and on its way there.
BodyKept ==
  cut = 0 => /\ pr.open /\ ~BodyDue => pr.data = branch.change
             /\ Call \in {"refetch", "edit", "create"} => s.expected = branch.change
             /\ Deciding /\ s.pr.open => s.pr.data = branch.change

\* The iterations a branch still allows, as the body and the session count them.
Room(baseline) == branch.commits - AtMost(baseline, branch.commits) + cut

CommitsKept ==
  /\ pr.open \/ Call \in {"refetch", "edit", "create"} \/ (Deciding /\ s.pr.open) => branch.commits > 0
  /\ Deciding /\ s.pr.open => s.branch.commits = branch.commits
  /\ branch.commits > 0 => spent < branch.commits
  /\ branch.commits = 0 => spent = 0

AllowanceKept ==
  /\ BudgetKept
  /\ pr.open => spent <= Room(pr.baseline) + (IF BodyDue THEN 1 ELSE 0)
  /\ Call \in {"refetch", "edit", "create"} => spent <= Room(s.pr.baseline)
  /\ s.pr.open /\ (Call \in {"labels", "ended", "decide"} \/ (Deciding /\ s.iterate)) =>
       IF s.granted THEN s.pr.baseline = branch.commits ELSE spent <= Room(s.pr.baseline)

\* Of a Linear issue: what a manager loaded and what it saves.
Saving == Call \in {"delete", "upload"}
GateSave == Saving /\ todo[Len(todo)] = "gates"
Gated == Call \in {"session", "ended", "decide", "push"}
Loaded == GateSave \/ Gated \/ Call = "gates"

Counted(st) ==
  /\ st.idle <= maxNoDiffIterations
  /\ st.idle = maxNoDiffIterations => st.mode = "NoProgress"
  /\ st.mode # "none" => st.status = "failed"
  /\ st.url <= Len(fates)

StatesKept ==
  /\ Counted(stored) /\ Counted(view.state) /\ Counted(view.draft)
  /\ Gated => view.workflow = "open" /\ view.state.mode \notin {"NoDiff", "NoProgress"}
  /\ GateSave => Reactivated(view.state, view.workflow)

\* Runs that changed nothing, as a state counts them, and as the faults excuse.
CountOf(st) == st.idle + (IF st.mode = "NoDiff" THEN 1 ELSE 0)
Forgiven == maxNoDiffIterations * faults
Explains(st) == barren <= CountOf(st) + Forgiven

BarrenKept ==
  /\ IF Saving THEN Explains(view.draft) ELSE Explains(stored)
  /\ Loaded => Explains(Existing)

\* A pull request that is not the bot's to replace, and that the state does not name.
Misses(st) == fates # <<>> /\ fates[Len(fates)] # "emptied" /\ st.url # Len(fates)
Excused == reactivated \/ lost
Reopenable(st) == st.status = "failed" /\ st.mode = "PRClosed"

\* A pull request was opened and is not yet saved.
JustOpened == Call \in {"label", "final"} /\ ~s.pr.open

FatesKept ==
  /\ pr.open <=> fates # <<>> /\ fates[Len(fates)] = "open"
  /\ Saving \/ JustOpened \/ Excused \/ ~Misses(stored)
  /\ JustOpened => fates # <<>> /\ fates[Len(fates)] # "emptied" /\ view.state.url < Len(fates)
  /\ Saving => Excused \/ ~Misses(view.draft)
  /\ Loaded => Excused \/ ~Misses(view.state)
  /\ Call \in {"refetch", "edit", "relabel"} => s.pr.open
  /\ (Call \in {"decide", "push", "create"} /\ ~s.pr.open) \/ Call = "emptied" =>
       Excused \/ fates = <<>> \/ fates[Len(fates)] = "emptied"

ReopeningsKept ==
  /\ Reopenable(stored) /\ workflow = "open" /\ Call # "cancel" =>
       \/ Excused
       \/ Misses(stored) /\ ~s.pr.open /\ (JustOpened \/ (Saving /\ ~GateSave))
  /\ Loaded /\ Reopenable(view.state) /\ view.workflow = "open" => Excused
  /\ Saving /\ Reopenable(view.draft) /\ workflow = "open" =>
       Excused \/ todo[Len(todo)] = "cancel"

SessionKept == DecisionsKept /\ LabelsKept /\ BodyKept /\ CommitsKept /\ AllowanceKept

IInv ==
  /\ TypeOK /\ PlansKept /\ SessionKept
  /\ IF resource = "linear" THEN StatesKept /\ BarrenKept /\ FatesKept /\ ReopeningsKept
     ELSE LinearInit

-----------------------------------------------------------------------------
(* A small instance for TLC: the options of a path's pull request.         *)

\* No option, and all three.
SomeOptions == {[dynamic |-> FALSE, revalidate |-> FALSE, requeueUnknown |-> FALSE],
                [dynamic |-> TRUE, revalidate |-> TRUE, requeueUnknown |-> TRUE]}

=============================================================================

------------------------------ MODULE PathReview ------------------------------
(***************************************************************************)
(* The check run a path reconciler keeps on a pull request: metapath's     *)
(* reconcilePullRequest on a statusmanager session.  A pass fetches the    *)
(* pull request, looks for its own check on the head it saw, reads the     *)
(* diff and then the files, each as they are by then, and reports.  People *)
(* push, label and ask for a re-run meanwhile, and a pass whose queue      *)
(* lease lapsed may still be underway.                                     *)
(*                                                                         *)
(* A head is a number, not used twice.  What matters of its files is what  *)
(* the review makes of them.                                               *)
(***************************************************************************)
EXTENDS Naturals, Sequences

CONSTANTS
  Heads, Modes,
  Reviews,         \* passes that may overlap
  MaxPullEvents,   \* bound: what people do
  MaxReviewFaults  \* bound: calls that fail, passes that die or lose their key

ASSUME ReviewAssumption ==
  /\ Heads \subseteq Nat /\ 1 \in Heads /\ Modes \subseteq {"fix", "review", "config"}
  /\ MaxPullEvents \in Nat /\ MaxReviewFaults \in Nat

VARIABLES
  pull,        \* the pull request, open and with a head
  content,     \* what each head holds
  checks,      \* the check runs of each head, the one GitHub shows last
  review,      \* what each pass knows
  skipped,     \* history: heads that had the skip label
  pullEvents,
  reviewFaults

reviewVars == <<pull, content, checks, review, skipped, pullEvents, reviewFaults>>

\* No files in the diff, a configuration that asks for no review, excluded
\* files only, nothing found, something found.
Contents == {"empty", "off", "excluded", "clean", "bad"}
\* A placeholder embeds no state; a check that was reported is completed.
CheckRuns == {"placeholder", "success", "failure", "neutral"}

NotReviewing == [at |-> "idle", sha |-> 1, as |-> "other", run |-> 0, verdict |-> "neutral"]

ReviewTypeOK ==
  /\ pull \in [head : Heads, skip : BOOLEAN, ours : BOOLEAN, mode : Modes]
  /\ content \in [Heads -> Contents] /\ checks \in [Heads -> Seq(CheckRuns)]
  /\ review \in [Reviews ->
       [at : {"idle", "fetched", "diff", "lease", "report"}, sha : Heads,
        as : {"skipped", "ours", "other"}, run : Nat, verdict : CheckRuns \ {"placeholder"}]]
  /\ \A p \in Reviews : review[p].run <= Len(checks[review[p].sha])
  /\ skipped \subseteq Heads
  /\ pullEvents \in 0 .. MaxPullEvents /\ reviewFaults \in 0 .. MaxReviewFaults

ReviewInit ==
  /\ pull \in [head : {1}, skip : {FALSE}, ours : BOOLEAN, mode : Modes]
  /\ content \in [Heads -> Contents]
  /\ checks = [h \in Heads |-> <<>>] /\ review = [p \in Reviews |-> NotReviewing]
  /\ skipped = {} /\ pullEvents = 0 /\ reviewFaults = 0

-----------------------------------------------------------------------------
(* A pass.                                                                 *)

Reviewing == {p \in Reviews : review[p].at # "idle"}

\* The skip label comes first, then whose pull request it is.
Treated == IF pull.skip THEN "skipped" ELSE IF pull.ours THEN "ours" ELSE "other"

\* In fix-only mode a pull request of someone else costs no further call.
Ignored == Treated = "other" /\ pull.mode = "fix"

Fetch(p) ==
  /\ review[p].at = "idle" /\ ~Ignored
  /\ review' = [review EXCEPT ![p] =
                  [NotReviewing EXCEPT !.at = "fetched", !.sha = pull.head, !.as = Treated]]
  /\ UNCHANGED <<pull, content, checks, skipped, pullEvents>>

\* Passes are alike, so the first of them is the one that starts alone.
StartReview(p) ==
  Reviewing = {} /\ p = (CHOOSE q \in Reviews : TRUE) /\ Fetch(p) /\ UNCHANGED reviewFaults

ReviewBeside(p) ==
  /\ Reviewing # {} /\ Fetch(p)
  /\ reviewFaults < MaxReviewFaults /\ reviewFaults' = reviewFaults + 1

Quietly == UNCHANGED <<pull, content, skipped, pullEvents, reviewFaults>>

ReviewOver(p) == review' = [review EXCEPT ![p] = NotReviewing]

\* What a check run's summary embeds: nothing, for one that awaits a re-run.
extractStatus(run) == IF run = "placeholder" THEN "none" ELSE run

\* The state that is observed of the shown check run of a head.
Observed(sha) == IF checks[sha] = <<>> THEN "none"
                 ELSE extractStatus(checks[sha][Len(checks[sha])])

\* Whether there is anything to report at this head, given what was observed.
Settled(as, state) == state # "none" /\ (as # "other" => state = "neutral")

\* ObservedState also finds the check run to update.
Observe(p) ==
  LET r == review[p] IN
  /\ r.at = "fetched" /\ UNCHANGED checks /\ Quietly
  /\ IF Settled(r.as, Observed(r.sha)) THEN ReviewOver(p)
     ELSE review' = [review EXCEPT ![p].run = Len(checks[r.sha]),
                                   ![p].at = IF r.as = "other" THEN "diff" ELSE "report"]

\* The diff of the pull request as it is now.
GetRaw(p) ==
  /\ review[p].at = "diff" /\ UNCHANGED checks /\ Quietly
  /\ review' = IF content[pull.head] = "empty"
               THEN [review EXCEPT ![p].at = "report", ![p].verdict = "success"]
               ELSE [review EXCEPT ![p].at = "lease"]

\* selectReviewFiles, and what the analyzer finds in the changed lines.
Verdict(c) == CASE c = "off"      -> IF pull.mode = "config" THEN "neutral" ELSE "success"
                [] c = "excluded" -> "neutral"
                [] c = "bad"      -> "failure"
                [] OTHER          -> "success"

\* The lease is of the pull request's ref, thus of its head now.
AnalyzeHead(p) ==
  /\ review[p].at = "lease" /\ UNCHANGED checks /\ Quietly
  /\ review' = [review EXCEPT ![p].at = "report", ![p].verdict = Verdict(content[pull.head])]

\* The commit that the report is about.
Target(p) == review[p].sha

\* SetActualState updates the check run that was observed, or creates one.
SetActualState(p) ==
  /\ review[p].at = "report" /\ ReviewOver(p) /\ Quietly
  /\ LET sha == Target(p) run == review[p].run verdict == review[p].verdict IN
     checks' = IF run \in DOMAIN checks[sha] THEN [checks EXCEPT ![sha][run] = verdict]
               ELSE [checks EXCEPT ![sha] = Append(@, verdict)]

\* A call fails, or the pass dies.
ReviewBreaks(p) ==
  /\ review[p].at # "idle" /\ reviewFaults < MaxReviewFaults
  /\ reviewFaults' = reviewFaults + 1 /\ ReviewOver(p)
  /\ UNCHANGED <<pull, content, checks, skipped, pullEvents>>

ReviewRuns(p) ==
  StartReview(p) \/ Observe(p) \/ GetRaw(p) \/ AnalyzeHead(p) \/ SetActualState(p)

-----------------------------------------------------------------------------
(* The people.                                                             *)

PullEvent == /\ pullEvents < MaxPullEvents /\ pullEvents' = pullEvents + 1
             /\ UNCHANGED <<content, review, reviewFaults>>

PushHead ==
  /\ PullEvent /\ pull.head + 1 \in Heads
  /\ pull' = [pull EXCEPT !.head = @ + 1]
  /\ skipped' = IF pull.skip THEN skipped \cup {pull.head + 1} ELSE skipped
  /\ UNCHANGED checks

SkipLabel ==
  /\ PullEvent /\ pull' = [pull EXCEPT !.skip = ~@]
  /\ skipped' = IF pull.skip THEN skipped ELSE skipped \cup {pull.head}
  /\ UNCHANGED checks

\* A re-run is asked for: a fresh check run supersedes the one that is shown.
ResetForRerun ==
  /\ PullEvent /\ checks[pull.head] # <<>>
  /\ checks' = [checks EXCEPT ![pull.head] = Append(@, "placeholder")]
  /\ UNCHANGED <<pull, skipped>>

ReviewNext ==
  \/ \E p \in Reviews : ReviewRuns(p) \/ ReviewBeside(p) \/ ReviewBreaks(p)
  \/ PushHead \/ SkipLabel \/ ResetForRerun

-----------------------------------------------------------------------------

Shown == LET runs == checks[pull.head] IN
         IF runs = <<>> THEN "none" ELSE runs[Len(runs)]

\* What the pull request's head shows is about that head, although a pass reads
\* the head, the diff and the files at three times: a result that was read of a
\* later head is reported at the earlier one.
HeadJudgedRightly ==
  Shown \in {"none", "placeholder"}
    \cup (IF pull.ours THEN {"neutral"} ELSE {Verdict(content[pull.head])})
    \cup (IF pull.head \in skipped THEN {"neutral"} ELSE {})

\* The head shows a result: to come about again also when a re-run was asked for
\* while a pass was about to report on the check run that the re-run supersedes.
HeadIsJudged == Ignored \/ Shown \notin {"none", "placeholder"}

=============================================================================

------------------------------ MODULE PathIssues ------------------------------
(***************************************************************************)
(* The issues that a path's findings are filed as: metapathreconciler in   *)
(* issue mode on an issuemanager session.  A pass leases a clone, lists    *)
(* the path's open issues, derives the wanted ones and makes one call on   *)
(* GitHub after the other.  A queue lease that lapsed lets two passes      *)
(* overlap, and people label, close and reopen issues at any time.         *)
(*                                                                         *)
(* A finding is its key, a number, and a level, which stands for what is   *)
(* said of it.  The label function puts the path's highest level on each   *)
(* issue, and its labels are declared managed (WithManagedLabels), without *)
(* which an update keeps the stale ones.  Issues that are closed or whose  *)
(* data cannot be read are in no session and are dropped; comments (the    *)
(* one before a close is a call of its own), pull requests and people who  *)
(* take the path's label off an issue are left out.                        *)
(***************************************************************************)
EXTENDS Integers, SequencesExt, FiniteSetsExt

CONSTANTS
  RuleKeys, Severities,
  Backlogs,           \* findings that earlier passes may have filed
  Sweeps,             \* passes that may overlap
  maxDesiredIssues, defaultMaxExistingIssues,
  Numbers,            \* bound of the model: numbers of issues
  MaxHappenings,      \* bound: what people and the path's contents do
  MaxBrokenSweeps     \* bound: calls that fail, passes that die or lose their key

ASSUME IssuesAssumption ==
  /\ RuleKeys \subseteq Numbers
  /\ IsFiniteSet(Numbers) /\ Numbers \subseteq 1 .. Cardinality(Numbers)
  /\ Backlogs \subseteq [RuleKeys -> Severities \cup {0}]
  /\ IsFiniteSet(Severities) /\ Severities \subseteq 1 .. Cardinality(Severities)
  /\ {maxDesiredIssues, defaultMaxExistingIssues} \subseteq Nat \ {0}
  /\ MaxHappenings \in Nat /\ MaxBrokenSweeps \in Nat

VARIABLES
  found,       \* the level of each finding the path has now, 0 if it has none
  tracked,     \* the open issues, as a listing shows them: newest first
  sweep,       \* what each pass knows
  happenings,
  broken

issuesVars == <<found, tracked, sweep, happenings, broken>>

Findings == [RuleKeys -> Severities \cup {0}]
NoFindings == [k \in RuleKeys |-> 0]

\* since: the passes that were underway when its labels last changed or it was
\* opened.
Issues == [number : Numbers, key : RuleKeys, data : Severities, prio : Severities,
           person : {"no", "label", "skip"}, since : SUBSET Sweeps]

\* A call and the issue it makes, or closes.
IssueCalls == [do : {"create", "update", "close"}, issue : Issues]
NoCall     == [do |-> "nothing"]

\* saw: what the analyzer says of the leased clone; desired: the issues wanted
\* of it, while the session is opened anew; calls: those left to make.
NotSweeping == [at |-> "idle", saw |-> NoFindings, desired |-> <<>>, calls |-> <<>>]

IssuesTypeOK ==
  /\ found \in Findings /\ tracked \in Seq(Issues)
  /\ \A i, j \in DOMAIN tracked : tracked[i].number = tracked[j].number => i = j
  /\ \A p \in Sweeps :
       /\ sweep[p].at \in {"idle", "leased", "resize", "calling"}
       /\ sweep[p].saw \in Findings /\ sweep[p].desired \in Seq(RuleKeys)
       /\ sweep[p].calls \in Seq(IssueCalls)
  /\ happenings \in 0 .. MaxHappenings /\ broken \in 0 .. MaxBrokenSweeps

Underway == {p \in Sweeps : sweep[p].at # "idle"}

Reported(f) == {k \in RuleKeys : f[k] # 0}

\* Numbers in order: the k-th is the one with k of them up to it.
Sorted(ns) ==
  [k \in 1 .. Cardinality(ns) |-> CHOOSE n \in ns : Cardinality({m \in ns : m <= n}) = k]

\* What there is of S in a sequence, in its order.
Only(s, S) ==
  LET places == Sorted({i \in DOMAIN s : s[i] \in S}) IN [k \in DOMAIN places |-> s[places[k]]]

PathPriority(f) == Max({f[k] : k \in RuleKeys})
TrackedKeys(issues) == {t.key : t \in ToSet(issues)}

Filed(n, k, f) == [number |-> n, key |-> k, data |-> f[k], prio |-> PathPriority(f),
                   person |-> "no", since |-> {}]

\* An earlier pass has filed what it saw, perhaps when more issues were allowed,
\* and someone may have labelled them since.
IssuesInit ==
  /\ found \in Findings
  /\ \E earlier \in Backlogs :
       LET keys == Sorted(Reported(earlier)) IN
       tracked \in
         {[i \in DOMAIN keys |-> [Filed(keys[i], keys[i], earlier) EXCEPT !.person = person]] :
            person \in {"no", "label", "skip"}}
  /\ sweep = [p \in Sweeps |-> NotSweeping]
  /\ happenings = 0 /\ broken = 0

-----------------------------------------------------------------------------
(* What a session has to do.                                               *)

\* Tracked entries come first and are never shed for the cap.
truncateDesired(desired, prior) ==
  LET known == Only(desired, prior)
      fresh == Only(desired, RuleKeys \ prior)
  IN  IF Len(desired) <= maxDesiredIssues THEN desired
      ELSE SubSeq(known \o fresh, 1, Max({maxDesiredIssues, Len(known)}))

\* findMatchingIssue: the first with the key, 0 if there is none.
Matching(listed, k) == SelectInSeq(listed, LAMBDA t : t.key = k)

\* The data differ, or the labels would.
needsUpdate(t, f) == t.data # f[t.key] \/ t.prio # PathPriority(f)

\* Mutated form of Unmatched: whatever has a wanted key is matched.
UnmatchedKeys(desired, listed) ==
  Only(listed, {t \in ToSet(listed) : t.key \notin ToSet(desired)})

\* What no wanted issue matched.
Unmatched(desired, listed) ==
  LET matched == {Matching(listed, k) : k \in ToSet(desired)} \ {0} IN
  Only(listed, {t \in ToSet(listed) : \A i \in matched : listed[i] # t})

\* Mutated form of Relabeled: the labels people put are replaced as well.
RelabeledBare(t, f) == Filed(t.number, t.key, f)

\* The issue as an update makes it: its labels are those of the listing but for
\* the reconciler's own.
Relabeled(t, f) == [Filed(t.number, t.key, f) EXCEPT !.person = t.person]

\* The calls of IssueSession.Reconcile, in order: create or update the wanted
\* issues, then close the rest, which none matched.  The skip label exempts an
\* issue.
SessionCalls(desired, rest, listed, f) ==
  LET callFor(k) ==
        LET i == Matching(listed, k) IN
        IF i = 0 THEN [do |-> "create", issue |-> Filed(k, k, f)]
        ELSE IF listed[i].person # "skip" /\ needsUpdate(listed[i], f)
          THEN [do |-> "update", issue |-> Relabeled(listed[i], f)]
        ELSE NoCall
      close(t) == IF t.person = "skip" THEN NoCall ELSE [do |-> "close", issue |-> t]
  IN  [i \in DOMAIN desired |-> callFor(desired[i])] \o [i \in DOMAIN rest |-> close(rest[i])]

-----------------------------------------------------------------------------
(* A pass.                                                                 *)

\* A listing that reaches the safety limit is an error, and the pass is over.
SessionOpens(cap) == Len(tracked) < Max({2 * cap, defaultMaxExistingIssues})

\* The lease of a clone: what the analyzer will see.
LeaseClone(p) ==
  /\ sweep[p].at = "idle" /\ UNCHANGED <<found, happenings>>
  /\ sweep' = [sweep EXCEPT ![p] = [NotSweeping EXCEPT !.at = "leased", !.saw = found]]
  /\ tracked' = [i \in DOMAIN tracked |-> [tracked[i] EXCEPT !.since = @ \ {p}]]

\* The queue starts a pass; one whose lease has lapsed may still be underway.
\* Passes are alike, so the first of them is the one that starts alone.
StartSweep(p) ==
  Underway = {} /\ p = (CHOOSE q \in Sweeps : TRUE) /\ LeaseClone(p) /\ UNCHANGED broken

StartBeside(p) ==
  /\ Underway # {} /\ LeaseClone(p)
  /\ broken < MaxBrokenSweeps /\ broken' = broken + 1

\* What is left to do with the issues as they are listed now.
PlanCalls(p, desired) ==
  \E rest \in {Unmatched(desired, tracked)} :
    \E plan \in {SessionCalls(desired, rest, tracked, sweep[p].saw)} :
      sweep' = [sweep EXCEPT ![p] =
                  [NotSweeping EXCEPT !.at = "calling",
                                      !.calls = Only(plan, ToSet(plan) \ {NoCall})]]

\* NewSession and the wanted issues.  Where those that are tracked exceed the
\* cap, the session is opened anew with room for them.
OpenIssueSession(p) ==
  /\ sweep[p].at = "leased" /\ SessionOpens(maxDesiredIssues)
  /\ UNCHANGED <<found, tracked, happenings, broken>>
  /\ \E desired \in {truncateDesired(Sorted(Reported(sweep[p].saw)), TrackedKeys(tracked))} :
       IF Len(desired) > maxDesiredIssues
       THEN sweep' = [sweep EXCEPT ![p].at = "resize", ![p].desired = desired]
       ELSE PlanCalls(p, desired)

ResizeSession(p) ==
  /\ sweep[p].at = "resize" /\ SessionOpens(Len(sweep[p].desired))
  /\ UNCHANGED <<found, tracked, happenings, broken>>
  /\ PlanCalls(p, sweep[p].desired)

\* A label put or removed during a pass is undone by its update, which the others
\* that are underway may not have seen.
Touched(t, written) == IF t.person = written.person THEN t.since ELSE Underway

\* The issues that calls are still to be made on.  GitHub gives no number twice;
\* here one is given again when nobody refers to it any more.
Referred ==
  {c.issue : c \in {c \in UNION {ToSet(sweep[p].calls) : p \in Sweeps} : c.do # "create"}}

\* One call.  One on an issue that someone closed changes no open issue.
MakeCall(p) ==
  /\ sweep[p].at = "calling" /\ sweep[p].calls # <<>>
  /\ UNCHANGED <<found, happenings, broken>>
  /\ LET c == Head(sweep[p].calls) IN
     \/ /\ c.do = "create"
        /\ LET free == Numbers \ {t.number : t \in ToSet(tracked) \cup Referred} IN
           /\ free # {}
           /\ tracked' = <<[c.issue EXCEPT !.number = Min(free), !.since = Underway]>> \o tracked
     \/ /\ c.do = "update"
        /\ tracked' = [i \in DOMAIN tracked |->
                         IF tracked[i].number # c.issue.number THEN tracked[i]
                         ELSE [c.issue EXCEPT !.since = Touched(tracked[i], c.issue)]]
     \/ /\ c.do = "close"
        /\ tracked' = Only(tracked, {t \in ToSet(tracked) : t.number # c.issue.number})
  /\ sweep' = [sweep EXCEPT ![p].calls = Tail(@)]

SweepDone(p) ==
  /\ sweep[p].at = "calling" /\ sweep[p].calls = <<>>
  /\ UNCHANGED <<found, tracked, happenings, broken>>
  /\ sweep' = [sweep EXCEPT ![p] = NotSweeping]

\* A call fails, or the pass dies; the error leaves what was done.
SweepBreaks(p) ==
  /\ sweep[p].at # "idle" /\ broken < MaxBrokenSweeps /\ broken' = broken + 1
  /\ sweep' = [sweep EXCEPT ![p] = NotSweeping]
  /\ UNCHANGED <<found, tracked, happenings>>

SweepRuns(p) ==
  StartSweep(p) \/ OpenIssueSession(p) \/ ResizeSession(p) \/ MakeCall(p) \/ SweepDone(p)

-----------------------------------------------------------------------------
(* The path and the people.                                                *)

Happens == happenings < MaxHappenings /\ happenings' = happenings + 1

PathChanges == Happens /\ found' \in Findings \ {found} /\ UNCHANGED <<tracked, sweep, broken>>

\* Someone labels an issue, asks to leave it alone, or takes that back.
PersonLabels ==
  /\ Happens
  /\ \E i \in DOMAIN tracked, how \in {"no", "label", "skip"} :
       /\ how # tracked[i].person
       /\ tracked' = [tracked EXCEPT ![i].person = how, ![i].since = Underway]
  /\ UNCHANGED <<found, sweep, broken>>

PersonCloses ==
  /\ Happens
  /\ \E t \in ToSet(tracked) : tracked' = Only(tracked, ToSet(tracked) \ {t})
  /\ UNCHANGED <<found, sweep, broken>>

\* Someone reopens an issue of an earlier finding.
PersonReopens ==
  /\ Happens
  /\ \E k \in RuleKeys, n \in Numbers \ {t.number : t \in ToSet(tracked)}, l \in Severities :
       /\ \A m \in Numbers : m > n => m \in {t.number : t \in ToSet(tracked)}
       /\ \A t \in Referred : t.number = n => t.key = k
       /\ tracked' = Append(tracked,
                            [Filed(n, k, [NoFindings EXCEPT ![k] = l]) EXCEPT !.since = Underway])
  /\ UNCHANGED <<found, sweep, broken>>

IssuesNext ==
  \/ \E p \in Sweeps : SweepRuns(p) \/ SweepBreaks(p) \/ StartBeside(p)
  \/ PathChanges \/ PersonLabels \/ PersonCloses \/ PersonReopens

-----------------------------------------------------------------------------

\* An issue is closed because its finding is not reported, or because another
\* one that the session knows has the same finding: never to enforce the cap
\* ("a still-reported tracked issue is never closed to enforce the cap").  An
\* issue that was reopened, or filed by another pass, between the two listings of
\* one pass is.
ClosedOnlyUnreported ==
  [][\A p \in Sweeps :
       sweep[p].at # "calling" /\ sweep'[p].at = "calling" =>
         \A c \in ToSet(sweep'[p].calls) :
           c.do = "close" =>
             \/ c.issue.key \notin Reported(sweep[p].saw) \/ p \in c.issue.since
             \/ tracked[Matching(tracked, c.issue.key)] # c.issue]_issuesVars

\* A pass leaves an issue alone that had the skip label when it began, and keeps
\* a label that someone had put before, however late its calls arrive.
PersonsRespected ==
  [][\A p \in Sweeps :
       sweep[p].at = "calling" /\ sweep'[p] # sweep[p] =>
         \A t \in ToSet(tracked) :
           p \notin t.since =>
             /\ t.person = "skip" => t \in ToSet(tracked')
             /\ t.person = "label" =>
                  \A u \in ToSet(tracked') : u.number = t.number => u.person = "label"]_issuesVars

\* The open issues are the findings', as many as the cap allows, each once.
IssuesSettled ==
  LET live == {t \in ToSet(tracked) : t.person # "skip"} IN
  /\ \A t \in live :
       /\ t.key \in Reported(found) /\ t.data = found[t.key] /\ t.prio = PathPriority(found)
       /\ \A u \in live : u.key = t.key => u = t
  /\ Cardinality(TrackedKeys(tracked) \cap Reported(found))
       >= Min({maxDesiredIssues, Cardinality(Reported(found))})

=============================================================================
